# A verification of flickr

flickr is a home media server in Go: a process that lists a bucket, identifies
and probes what is in it, serves it to browsers, televisions and cast devices
(transcoding with ffmpeg when a client cannot play a file as it is), and keeps
for every profile where it is in what. Two more programs, a converter and a
transcriber, work on the same library from other machines. This directory holds
TLA+ models of the parts of it where order, interleaving and failure matter, the
TLC runs that check them on small instances, and the TLAPS proofs of the
properties that hold for every instance.

## 1. Inventory

What the system is made of, what each part keeps and does, and what makes it
right. `PROJECT.json` has the same list with its sources and status, and under
`hazards` every place where the code is hard to test.

| part | state | operations | hard because | right when |
|---|---|---|---|---|
| play sessions (`cmd/server/session.go`, `read.go`) | `playSessions`: id -> row (item, profile, method, passage, marks, last touched); a memo of marks per profile and work | play, read, next, progress, keep watching, mark in/out, link, stop, sweep of idle rows | handlers copy a row under the lock and write later; a play takes seconds between its steps | a passage holds the place; a session stays about one item; marks stay with their profile and work |
| passages and marks (`passage.go`, `internal/passage`) | none (values) | resolve, trim, mark, snap, mint a link | marks in any order, in several files, at equal seconds | a minted link says what was marked |
| stream manager (`internal/pipeline/pipeline.go`) | `sessions`, `lastAccess`; ffmpeg processes | create, touch, get, stop, reap, stop all | the process starts before its entry and dies after it; two reapers and a failing play race a stop | no process without an entry or a step that will end it; nothing outlives its client |
| places (`watched.go`, `continue.go`, `main.go`) | a row per item and profile in `state.db` | progress, watched, forget | asked and written in two steps, from four handlers | not moved while a passage is on |
| stores (`internal/store`) | `library.db` (items, transcripts, cues, counters), `state.db` (places, users, saved, counter) | one transaction per operation | counters and ids outlive rows; ids are handed out again | every write is visible to the feed; overrides stay |
| change feed (`handleFeed`, `works.Feed`) | none; the mirror keeps a cursor | five reads, then an answer | writers between the reads; answers lost; deletions leave nothing to report | duplicates, never gaps; cursors only grow |
| works projection (`internal/works`) | none | group, key, merge, order, progress, neighbours | keys move when TMDB answers | every file in exactly one work |
| scanner (`internal/scanner`) | status flag; library | scan, reprobe | hours between listing, probing and deleting; other writers meanwhile | converges to the bucket; overrides stick; nothing present is lost |
| enricher (`internal/tmdb`) | library; images | enrich all, enrich one | works for hours on a list read at the start | enrichment belongs to the identity it was made for |
| transcripts (`transcripts.go`, `main.go`, `cmd/transcriber`) | leases; transcript and cue rows; files | hand out, deliver, local pass | leases expire under a slow worker; the file changes while it is heard | no transcript of another file; every silent file is heard in the end |
| converter (`cmd/converter`) | the bucket | plan, OCR, encode, verify, put, remove, ask for a scan | files change under it; each step can fail | no film is lost; nothing is converted twice for ever |
| decision engine (`internal/decision`) | none | decide | many dimensions of a file and a client | the cheapest method the client can play |
| rounds (`main.go`) | busy flags, clock window | scan, enrich, trickplay, transcribe | overlapping triggers | one of each at a time, in its window |
| sign-in and workers' tokens (`auth.go`, `internal/auth`, `internal/bearer`) | a login cookie, a session cookie; the provider's keys and when they were fetched; a worker's token | login, callback, gate, bearer, fetch keys, fetch a token | the provider rotates its keys; cookies are the browser's and tabs share them; calls take time | whoever keeps trying gets in; a good token is turned away for a minute at most |
| device capabilities (`device.go`) | none (signed paths) | mint, check | small | left out, see section 7 |
| saved list, profiles | rows of `state.db` | save, unsave, create, avatar | work keys move | what is saved stays saved |
| derived files (covers, posters, subtitles, trickplay, OCR) | files by item id | make once, serve | two makers at once; ids handed out again | whole files, of the right item |
| documents and pages (`hyper.go`, `library.go`) | none | the shelves, the grid, the one action of a work | three rules choose what is offered and a fourth what opens | what is offered opens |
| ffmpeg arguments (`pipeline.go`, `convert.go`) | none | target to job, plan to job | two places decide of one job | the job makes what was decided |
| web client, service worker, cast, file formats | none of consequence | parse, draw | size | left out, see section 7 |

How they meet: the handlers share one `playSessions` and one `SessionManager`,
each with its own lock, and call the stores outside both; a reaper loop in `main`
sweeps first the streams and then the rows; scans, enrichment and players write
the stores while the feed and the pages read them; the converter and the
transcriber come in over HTTP and through the bucket.

## 2. Modules

| module | models | used by |
|---|---|---|
| `PassageRules` | the algebra of passages and marks as operators: `Parse`, `resolvePassage`, `textPassage`, `passageForNext`, `setMark`, `markedPassage`, ... | `PlaySessions` (`INSTANCE`) |
| `StreamManager` | the table of streams, the processes behind it, one reaper; its actions leave the sessions to the module that composes it | `PlaySessions` (`EXTENDS`) |
| `PlaySessions` | the registry, every handler over it as threads that interleave, the places they write, the clock and clients that vanish | `MCPlaySessions`, `PlaySessions_proofs` |
| `Library` | both databases: one operator per transaction, with the counters and the ids SQLite hands out | `ChangeFeed` (`EXTENDS`) |
| `ChangeFeed` | `handleFeed`'s five reads, `works.Feed`, the mirror at the other end, and all writers | `MCChangeFeed`, `ChangeFeed_proofs` |
| `Scanner` | scans, reprobes, enrichment and the rounds that call them, over `Library` and a bucket that people change | `MCScanner` |
| `Transcripts` | the queue and its leases, the workers, deliveries, the stage in this box, what scans do to the rows | itself |
| `Formats` | what a device is sent of a file: `DecideWith`, the change a start in the middle makes, ffmpeg's job, `ConvertPlan` and the file it makes | `Converter` (`EXTENDS`) |
| `Shelf` | the abstract specification of the converter: films people bring and take, which may come to play everywhere | `Converter` (`INSTANCE ... WITH`) |
| `Converter` | the worker step by step against the bucket; implements `Shelf` | `MCConverter` |
| `SignIn` | a browser with two tabs and a worker at the gate, the provider's keys, time | itself |
| `Works` | `internal/works` as operators: `Build`, keys and their merging, representatives, neighbours, progress, the rows of the shelf | `Household` (`EXTENDS`) |
| `Household` | one profile, a child's or not, that plays, marks, forgets and puts by, over a library that moves | `MCHousehold` |
| `MC...` | small instances | the configurations |
| `Library_proofs` | what each transaction does to rows, ids, counters and marks, as lemmas | `ChangeFeed_proofs`, `Scanner_proofs` |
| `PlaySessions_proofs`, `ChangeFeed_proofs`, `Scanner_proofs`, `Transcripts_proofs`, `Converter_proofs`, `SignIn_proofs`, `Household_proofs` | the theorems about the module each is named after; `Converter_proofs` also has those about `Formats` and the refinement of `Shelf`, `Household_proofs` those about `Works` | |

### PlaySessions and StreamManager

A handler is a thread. Each lock section of `playSessions` or `SessionManager`,
each store call and each start or kill of a process is one action, so whatever
the Go scheduler may do between two lock sections, TLC does. `req[th]` is what the
handler holds on its stack: `at` names the next step, the rest are its copies.
`Play` and `Next_` come to `act` (inherit the marks, then `PutDirect`, or
`StartTranscode`, `EnterStream`, and `PutTranscode` or `NoPlaylist` and `Unwind`);
`Progress`, `SetProgress` and `Forget` come to `SetPlace` or `ClearPlace`; a mark
is `Mark`, `UpdateMarks`, `Remember`; a stop is `Stop`, `StopKill`, `Drop`,
`Remember`. The reaper's collection, each of its stops, and the sweep of the rows
are steps of their own (`ReapLoop`). `Tick` lets time pass: ages count ticks up to
one past the bound that is asked about, which is all the code compares.

A passage and its seconds are integers; names, episode codes, clock spellings
and CFIs are values of small sets, since the rules compare nothing else of them.

### Library and ChangeFeed

A row holds what the properties tell apart: etag, media (or that the probe
failed), sidecar signature, title (standing for a whole identity), whether a user
overrode it, its TMDB id and the identity that was looked up, the versions of the
probe, of the identification and of the lookup that made these, and the seq. A
batch's rows are stamped one after another (`Orders`), as the loop over `nextSeq`
does. `ChangeFeed` reads the two counters, the deletion mark, the items and the
places in `handleFeed`'s order, with any write between them; `Answer` evaluates
`works.Feed` on what was read; `Lose` is an answer that never arrives or a read
that failed. `told` is what a mirror was last told of the work each file is in.
A work's key is its TMDB id or its title, and works of one key are merged.

### Scanner

A round is a call of `runScan`: `BeginScan` takes the running flag, the listing,
the sidecars, the probes one by one, the batches of `BatchSize` and
`DeleteMissing` are steps, and the enrichment that follows holds its list from
`NeedingEnrichment` to the end without any flag, so two rounds enrich at once.
`ReprobeKey` is three steps (stat, probe, write), as is `EnrichItem` (list,
lookup, write). A content is a number, larger than those before it; a probe
remembers which content it read. A restart may be into a newer build: `Identify`
is what a path says under a build, which is the re-identification
`IdentityVersion` asks for, and `ProbeVersion` and `EnrichmentVersion` are what
its probes and lookups know, with which `Unchanged` and `Needing` compare the rows
that older builds wrote. `absent` is history: the keys that were missing at some moment of the scan.

### Transcripts

The three stores a delivery writes (text, row, lines) are three steps, and so
are reading the queue, looking at a lease, and taking it. The stage in this box
reads the rows, then the transcripts, and walks over what it read: it hears a file
aside, renames the text into place, and writes row and lines. `Lapse` ends a lease
whenever it likes: the hour is not counted. `vtt`, `cues` and `transcripts` hold
the content the text was heard from; `crossed` is history, the ids two writers
were at work on at once.

### Formats, Shelf and Converter

`Formats` has no state. `Decide` is `DecideWith` over a manifest that
`Normalize` has filled in; `Started` is the change `act` makes when a play
starts in the middle; `Sent` is what `BuildArgs` and `appendABRArgs` have ffmpeg
make, with the size of every picture (`Scaled` is ffmpeg's `scale=-2:n`, which
keeps the shape); `Plays` says that an HLS player of that device plays it.
`ConvertPlan` and `Converted` are the other way to the same end. `Converter`
takes its plans from `Formats`: a shape is a name for what a probe says, and
`Plans` is `ConvertPlan` of each. Its steps are those of `convert` (stat, OCR,
each sidecar, ffmpeg, put, remove), each of which may fail or be the last. A
film is on the `Shelf` as its original if that is there and as its MP4 otherwise;
the refinement mapping is `On`. `disturbed` names the films somebody touched while
the worker was at them: of those `Shelf` promises nothing, because the code checks
the etag once and works for hours.

### SignIn

Time goes by in thirds of a minute, and so does the age of the keys and the life of a
token; a login's cookie and a session end when an event says so. A tab is in one
step of the login at a time: sent away, back with a code, exchanging it, its
id token checked, answered. Verification reads the keys, and may fetch them
(`MayRefetch`), in a step of its own. Signatures are taken to be what they say.

### Works and Household

`Works` builds what `works.Build` builds from the item rows: kinds, the placing
of bonus material, order inside a work, keys (TMDB's or the path's) and the
merging of equal keys, then the representative, the neighbours, `WorkProgress`
as a fraction, and `ContinueList` (`RowsOf`). `Household` derives the works
afresh at every step, as every request does. `when` orders places by the time
they were set.

## 3. Runs

All runs use two workers and no run takes more than a few minutes.

| run | asks | bounds |
|---|---|---|
| `Places` | does any session write a place through its own passage; is a session ever about something else | two requests, two sessions, a film with bonus material and a book, a scene and a passage of text, every place writer, both reapers |
| `Marks` | do marks cross profiles or works; is what two marks mint ever cut by its own link | two profiles, one work of two files, marks at two seconds of each and clears, memo expiry, two sessions in turn |
| `Streams` | does any ffmpeg or stream lack somebody who ends it; is a vanished client cleaned up after | two plays that both transcode, stops, playlist timeouts, exits and the reaper between any two of their steps |
| `Feed` | is anything neither told nor still to come; does a cursor go back; once the writing stops, does the mirror know every item | two files of one show, titles and TMDB ids that move them to another, three library writes, one place write, any number of polls |
| `Scan` | is a correction ever undone, a row lost that was there, a row left that says of a new file what an older one said; does the library become the bucket's image and get TMDB's answers | two files, two rounds, three builds (the second reads paths better, the third probes and looks up more), two events from outside (uploads, removals, sidecars, corrections, reprobes, lookups, failures, restarts), batches of two |
| `Transcripts` | does a row ever lack its text; is every file with words heard in the end by the workers and the end of leases alone, and is the text that file's | one file, one of its contents wordless, two workers and the local stage, one event from outside |
| `Convert` | does the converter implement `Shelf`; are picture subtitles read before the film goes; does it come to an end; can every device play what it is sent | one film in two shapes of four (one with picture subtitles of two tracks, one to encode), three events; 2540 files (films square, as wide as a screen and wider) by seven devices for `Formats` |
| `Doors` | is a good token ever turned away for longer than a minute; is an expired one sent; who keeps trying, does he get in | two tabs, one worker, tokens of two thirds of a minute and of two minutes, two events |
| `Household` | does what is offered open; is a title ever set back by being finished; does who goes on watching get through | a film and a show with one TMDB number, two episodes and a featurette, an audiobook of two parts; one file that comes and goes, plays left at 0, 4 and 9 of 10, three events |
| `ForgetUnderPassage`, `FeedRegroup`, `PutByIsThere` | the findings below | the smallest instance that shows each |

A run has a slot for each distinct question. What the code is known not to
keep and no run shows is listed in section 6.

Why the bounds are enough. Two requests and two sessions give every pair of
handlers the chance to interleave at every step; the properties relate at most
two rows, or a row and a stream. The memo and the ages only compare with a
bound, so ages past it are one value. In `Feed` a gap needs a row told and then
changed between two reads: one write to make it, one to change it and one to
hide the change, which is what three writes give; a work loses a member with two
files, and a place moves twice. Deadlock is checked everywhere: a feed whose
counters have reached their bound still polls, and the clock still ticks. Only
`Household` may stop, when its events are used up and nobody plays.

In `Scan` a stale write needs a read, a change and a write, and what repairs it
another round: two files (one row inside a batch and one outside it), two rounds
and two events give every order of these; `VIEW Uncounted` takes two states that
differ in the feed's counters alone for one, since nothing the scanner does reads
them. In `Transcripts` two workers and the stage are three writers of one row; a
second file would add only the order in which files are heard. In `Convert` films
do not meet (a stem is a film), so one is enough for the state; three events
allow a replacement, a failure and a kill of one conversion. `Formats` is a table:
each decision reads codec, container, width, lines, HDR, rate, tracks and subtitles, and
the instance has a value on either side of each comparison, against the profiles
of `web/player.js`, a manifest that says the least, and a television that takes
HEVC and no fMP4. In `Household` the files are chosen for what `Build` finds hard:
two works that want one key, bonus material, parts.

Each property of a passing run has a mutant in `PROJECT.json`: a changed
definition, kept beside the one it replaces and marked as a mutation, with
which TLC finds the property violated (a progress write that does not ask, a key
without its profile, a cursor read too late, a counter stamped before it moves,
...).

## 4. Fairness

`LiveSpec` of `PlaySessions`: weak fairness of every handler that has begun
(`net/http` runs it to its end), of the reaper's loop (a ticker that fires for as
long as the process lives) and of `Tick`. Nothing makes a client ask for
anything; `VanishedClientIsReaped` needs nobody but the reaper.

`FairSpec` of `ChangeFeed`: weak fairness of the handler's reads and of its
end, and strong fairness of `Answer`. The strong fairness is an assumption about
the network, not about the code: a mirror that asks again and again is answered
at some time. Writers are not fair: the property says what holds when the
writing stops, and `MaxSeq` and `MaxState` make it stop.

`Scanner`: weak fairness of the scan's steps, of each round's and of an asked
reprobe or lookup (goroutines and handlers run on), and of starting a scan (the
ticker). `Transcripts`: the worker asks again for ever, handlers run to their end,
the ticker scans, and a lease's hour passes. The stage in this box is owed nothing:
it yields to playback for as long as there is any and most boxes have none, so
what is heard in the end is heard by workers, and a lease that never ended would
leave a dead worker's file unheard. `Converter`: the worker
runs for ever and is started again by the scheduler of its jobs; the ticker scans.
`SignIn`: the person tries again in one tab, the worker asks for ever, time goes
by. `Household`: somebody goes on watching what the shelf offers (weak fairness of
`Resume`, written with its enabling condition). In all of them failures, people
and restarts are not fair and are bounded by `MaxEvents`, so that a property says
what holds once they stop.

## 5. What is proved

Everything here holds for every value of the constants: any number of files,
profiles, threads, tabs and workers, and any bounds. TLAPS checks each proof to
its leaves. A safety property is seldom inductive as it stands; each module has
an invariant (`IInv`, `FeedInv`) that is, which TLC checked on the module's run
before it was proved, and the theorems follow from it.

| theorem | property | says |
|---|---|---|
| `PlaySessions_proofs!TypeCorrect` | `TypeOK` | the types, and that each stage of a handler holds what its code reads |
| `...!PassageHolds` | `OwnPassageHolds` | a session's own write is never on its way while its passage is on |
| `...!NoOrphan` | `NoOrphanProcess` | every ffmpeg has an entry or a step that will end it |
| `...!StreamOwned` | `StreamHasOwner` | every stream has its row or a play that still waits |
| `...!ItemKept` | `SessionsKeepTheirItem` | a session stays about one item, profile and method |
| `...!MarksStay` | `MarksStayHome` | a mark stays with its profile and work, at a second that profile's client gave |
| `...!MarksMint` | `MarksMintAWholePassage` | in comes before out; a passage of one file survives its own link |
| `ChangeFeed_proofs!FeedTypes` | `TypeOK` | the types; no row is ahead of the counter |
| `...!NoItemIsMissed`, `NoPlaceIsMissed`, `NoDeletionIsMissed` | `NoGapInItems`, `NoGapInPlaces`, `NoGapInDeletions` | what a mirror was not told, its cursor still brings |
| `...!CursorNeverGoesBack` | `CursorMonotone` | cursors only grow |
| `Scanner_proofs!ScannerTypes` | `TypeOK` | the types |
| `...!NoRowIsAhead` | `MediaIsNotOlder` | no row says of a new etag what an older content said |
| `...!CorrectionsStick` | `OverrideSticks` | no step of the program undoes a correction |
| `...!NothingIsLost` | `NothingPresentIsLost` | a row goes only if its file was missing during that scan |
| `Transcripts_proofs!TranscriptTypes` | `TypeOK` | the types |
| `...!RowsMeanTracks` | `RowsAreServable` | a transcript's row has a text on disk |
| `Converter_proofs!ConverterTypes` | `TypeOK` | the types; no job is one that `ConvertPlan` skips |
| `...!NoPicturesAreLost` | `PicturesAreReadFirst` | no undisturbed original goes before all its picture subtitles are read |
| `...!TheShelfIsKept` | `KeepsThePromise` | `Converter` implements `Shelf` |
| `...!TheHousePlaysEverything` | `TheHouseCanPlayIt` | every device plays what it is sent of every film with sound (codecs, segments, sound, HDR, lines; widths under the condition of section 6); converting ends |
| `...!ConvertedForGood` | | what `ConvertArgs` makes, `ConvertPlan` skips |
| `SignIn_proofs!TypeCorrect` | `TypeOK` | the types |
| `...!NoTokenExpiresInFlight` | `OnlySlowCallsExpire` | only calls longer than the lead carry an expired token |
| `...!KeysAreAskedAgain` | `KeysFollowRotation` | a good token is turned away for a minute at most, or by a failed call |
| `Household_proofs!HouseholdTypes` | `TypeOK` | the types (1) |
| `...!EveryWorkIsWalked` | `EveryFileIsWalkedPast` | pressing next comes by every member of a work, pressing back returns (1) |
| `...!ForgottenTitlesLeave` | `ForgottenTitleLeaves` | the cross on a row takes the whole title off the shelf (1) |
| `...!OfferedOpens` | `WhatIsOfferedOpens` | what a child is offered opens, where a work's members are rated alike (1) |
| `...!WalksThrough` | | the same walk, of any work that has each member once |
| `...!ShowsAreNeverSetBack` | | finishing episodes never lowers a show's standing |

(1) for every library that `Build` shelves as it should. `Build`, `Claim` and
`ToSeq` fold over the files, and what a fold computes for every input is out of
the prover's reach, so these theorems are of the form `Spec /\ []Shelved => ...`.
`Shelved` says what `Build` promises and nothing of what is concluded: each work
is a nonempty sequence of files that are here, each of which is in one work,
once, and keys are distinct. It is a conjunct of `EveryFileIsWalkedPast`, so the
run `Household` checks it in every state it reaches.
`EveryWorkIsWalked` therefore adds to `Shelved` the other conjunct only, the walk.

What had to be added to make them inductive, and why:

- `PlaySessions`. That a process about to be entered is nobody else's needs
  `IdsAreFresh`: an id being started is in no row and in no other request; that
  a row may be dropped without leaving a stream needs `StreamsBelong`: a stop has
  taken the stream when it comes to the row. Both need `RequestsCarry`, which says
  what each stage holds. The marks need `Home`: they are the profile's and the
  work's own not only in the rows but in the memo and in every handler's copy,
  since a play inherits from the memo and a stop or a link writes back to it; a
  handler about to `UpdateMarks` holds a mark made for the row it will find, which
  is why `SessionsKeepTheirItem` matters to it. That in comes before out is kept
  by `setMark` alone, and needs `Before` to be total but for equal marks.
- `ChangeFeed`. The argument is that of the comment in `handleFeed`: what a poll
  has read is still what the store holds, or has been written above the counter
  the poll read first (`ReadBehind`), and a poll's counters lie between the cursor
  it was asked with and the store's (`Cursors`).
- `Scanner`. What a probe holds (in the pool, in a batch not yet flushed, in a
  reprobe) was read after the etag it carries (`Fresh`), so whichever is written
  last is not older; `absent` holds all that is missing while a scan runs
  (`AbsentOK`); and the ids `DeleteMissing` has read belong to rows that were
  missing, and to no other row (`GoneOK`, `OwnIds`): a row's id is handed out again
  only when the row is gone.
- `Transcripts`. A delivery or the local stage at its row step has put the text
  on disk, and no step takes a text away (`JobsOK`, `StageOK`); a kill in between
  drops the handler and leaves the text.
- `Converter`. `Latest` and `AtWork` say what the worker's hours-old knowledge is
  worth: while nobody touched the film, the object it looked at is the object
  that is there, the pictures it has read are those of that content, and after
  the upload the MP4 is of that content too. The refinement adds to it one lemma
  for each step that changes what `On` sees; all others are stutters.
- `Formats`. No invariant, but two lemmas the whole rests on: what is copied is in
  the device's list for streams, and what is made anew is H.264 and AAC. That no
  picture comes out wider than the screen, where that is promised, is arithmetic:
  `ScaledFits` says that scaling to lines within the screen's leaves a picture that
  is no wider in shape within its width, the rounding to an even width included.
- `SignIn`. The worker's clock and the token's own are tied (`SpentInTime`): a
  token in use outlives its use by the lead but for what it lost on its way, and
  one that is being judged was taken while it was in use.
- `Household`. `TypeOK` is inductive where works are shelved: that a place's turn
  stays among those there are needs a counting of the places before and after each
  play. The walk rests on the first and the last of a set of numbers (`Least`,
  `Largest`). A show's standing counts its finished episodes and adds the share
  that was watched of the furthest one, so it needs no sum over members, and the
  proof goes by which episode was the furthest before and is after. What audiobooks
  and albums add up stays with TLC.

Proving this one changed the model. `FinishingNeverSetsBack` asked only that
what was touched be finished, and that is not enough: who has seen a film to its
end, starts it again and stops at nine tenths has finished it both times and yet
stands a tenth lower, as the code has it (`progress.go:82-111`). The run had no
place that shows it (0 and 4 of 10). Now 9 is among the places, and the property
says what it means: members are carried forward to their end.

`OfferedOpens` has a condition, `OneRating`: members of one work that have a
certification have the same one. TMDB rates a film or a whole show and never an
episode (`enrich_test.go:208`), so one answer rates a work's members alike. Where
two answers meet in one work (TMDB changed its mind between them, or a corrected
file keeps the answer of the title it had, see `EnrichmentNamesTheIdentity` below)
the rows may part from the door, as the hazard at `profiles.go:135` says.

What the proofs assume, each a named `ASSUME` that TLC evaluates in the runs:
finite sets of keys, films and tracks; bounds that are numbers; `None` different
from every value it stands beside. In `Household` `None` is also no certification
that is fit for a child: an unrated title is not (`profiles.go:45-52`). `Formats` needs three facts of the world, kept
as weak as the proof allows:

- `HouseAssumption`: the policy makes H.264 and AAC (`DefaultPolicy`,
  `internal/model/model.go:268`), and each device decodes and streams both, takes
  MP4 and transport streams, has at least two channels and an even number of
  pixels across (`scale=-2` rounds to one), and does not stream MPEG-2
  (`TakesOurs`; each of the profiles in `web/player.js:79-118`). The
  last is needed: a start in the middle re-encodes what `DecideWith` meant to copy
  and does not ask for the inverse telecine then (`session.go:294-310`), so a
  device that streams MPEG-2 would be sent a telecined film with its judder.
- `File`: telecine is only ever found in MPEG-2 (`scanner.go:508`), a file has at
  least one audio track, and a video file a picture. Files without sound, and books,
  are outside the theorem, see section 6.
- `PlainAssumption`: the shape "plain" of `Converter` is some converted file.

Only model-checked, and why:

- liveness (`VanishedClientIsReaped`, `ItemsCatchUp`, `LibraryConverges`,
  `EnrichmentConverges`, `EverySilentFileIsHeard`, `TextFollowsTheFile`,
  `EverythingIsConverted`, `HouseholdGetsIn`, `WorkerIsServed`, `SeenThrough`): it
  rests on fairness and `ENABLED`, which the prover does not reason about;
- `Shelved`, see (1) above, and `FinishingNeverSetsBack` of audiobooks, albums and
  films: the standing of a work of parts is a sum over its members, again a fold.

## 6. Findings

Each is the counterexample of a run that checks what a document or a comment says.

- `ForgetUnderPassage`: forgetting a title clears its places while a passage is
  on; `docs/hypermedia.md` says every place write is refused then.
- `FeedRegroup`: an override that moves a file to another work stamps the file
  only; the work it left is never reported, so its counts and its audiences
  stay what they were with the mirror. The comment says the feed must see it.

- `PutByIsThere`: the list of what was put by keeps a work's key, and the key
  changes from the path's to TMDB's when the first answer comes; the title is off
  the list although no file went. `list.go` says "not now, but don't lose it".

Known, stated in the modules and refuted by TLC when listed in a configuration,
but not kept as runs:

| property | the code | says otherwise |
|---|---|---|
| `MintedRunKeepsItsEnd` (`PlaySessions`) | `passage.go:124` drops an `end` at or before `t` even when the two count in different files, so a marked run's link loses its end | README.md:754-756 |
| `OnlyIdleStreamsReaped` (`PlaySessions`) | `pipeline.go:491` stops the ids it collected without looking again: a stream fetched in between is killed | its comment, `pipeline.go:484` |
| `PlacesCatchUp` (`ChangeFeed`) | `store.go:1031` deletes the row and moves no counter: a mirror keeps the place for ever | README.md:95-96 |
| `StartsAtTheTop` (`Household`) | the play action's target is the first member that has a poster (`works.go:320-324`) | `hyper.go:886-887` |
| `TwoDoNotHearOneFilm` (`Transcripts`) | looking at a lease and taking it are two lock sections (`transcripts.go:158`), and the local stage does not look | `transcripts.go` on leases |
| `TextAlwaysFollowsTheFile` (`Transcripts`) | two writers of one file may leave the older text under the newer row | `cmd/transcriber/worker.go` on the etag |
| `WordsStayWithTheirFile` (`Transcripts`) | a delivery to an id that was deleted writes its row, and the next file of that id inherits it | `store.go` on `DeleteMissing` |
| `FitsTheScreen` (`Converter`) | a picture that is too wide is given the device's lines only (`decision.go:184-185`), and `scale=-2:H` keeps its shape (`pipeline.go:118`, `:262`): a film of 3840x1600 goes to a screen of 1920x1080 as 2592x1080, one of 1920x800 to 1280x720 as 1728x720 | `decision.go:92-94` on what fits; `model.go:201` ("what a client declares it can play") |
| `EnrichmentNamesTheIdentity` (`Scanner`) | an identity TMDB knows nothing of keeps the answer of the one before | `store.go` on `SetEnrichment` |

What the feed leaves to its mirror, and the model does not call wrong: an answer
does not say that it is a full one, so a mirror cannot tell that a work which is
missing from it is gone; and a work whose key changes from its title to a TMDB
id arrives under the new key with no word about the old.

What holds of widths is in `Streams`: no picture is wider than the screen where
the file is not, or is no wider in shape than the screen. Only a film that is both
may overrun it.

What `Formats` has as the code has it and leaves unjudged: a file without sound
fails the audio check and is mapped a track it has not; a copied AV1 stream is put
into transport streams, where only HEVC is kept out; a start in the middle
re-encodes a 4K picture without scaling it to the policy's height; the re-encode
for a client with a bitrate cap takes the policy's rate, which may be above the
cap; a file whose first track is MP3, or that has up to 1280 lines, is "already
what every device plays" to the converter and is transcoded for some.

## 7. Not modelled

- In `PlaySessions`: the library stands still (no scan moves an item while it is
  played); all places of a text are comparable; the sweep of the rows is one step,
  as it is under one lock; device doors, a kid's refusals and the documents that
  answers render; `StopAll` and the end of the process.
- In `ChangeFeed`: movies, books and albums (grouped by file or by author and
  title in the same way), extras, the case of titles, audiences (computed from
  the places told); what scans may write is any row and not only what a scan
  would find.
- In `Scanner`: the workers' pool is one probe at a time per file, so the failed
  flush that leaves them waiting for ever (`scanner.go:247`) is out of reach; a
  failed probe is stored and skipped by later scans, as the code has it; TMDB's
  per-run caches and images; deliveries of covers.
- In `Transcripts`: the yield to playback inside the stage, limits of size, the language tag, whisper itself and its
  backend probe, the clock window of the stage.
- In `Converter`: the three ffmpeg chains are one step; disk space; the dry run.
- In `SignIn`: checking signatures and claims, discovery, the paths of the gate
  beyond what it lets through without a session, device tokens.
- In `Household`: search, routes, share links, the activity page; the order of
  the list; making, renaming and deleting profiles; two requests of one profile
  inside each other (each of these handlers writes once).
- In `Formats`: bit rates of what is made, frame rates, encoders and hardware; a
  video file without a picture, text, and files without sound.
- Device capabilities, formatting, file formats, hardware detection, the web
  client, the service worker and cast: they hold no state that another step
  depends on. Cryptography.

## 8. Plan

Done so far: the models up to the saved list, and the proofs of section 5. What is
left:

1. More proofs: `FinishingNeverSetsBack` of films and of works of parts, and
   `EnrichmentNamesTheIdentity` for identities TMDB knows. `Shelved` and sums over
   members stay with TLC.
2. Shutdown and restart in `StreamManager`; two marks on one session.
3. `AtomicFile`: derived files by item id, two makers at once, ids handed out again.
4. The clock window and the busy flags of the rounds; the web client's progress
   timer and the reader's place.
