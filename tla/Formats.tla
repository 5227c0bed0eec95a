------------------------------ MODULE Formats ------------------------------
(***************************************************************************)
(* How a file is brought to a device. Two functions decide of it apart     *)
(* from each other, from one probe: DecideWith, at each play, what of the  *)
(* file must be made anew for the device that asks, and ConvertPlan, once, *)
(* what would make the file play as it is. Between the decision and the    *)
(* job ffmpeg is given, a play that starts in the middle decides again.    *)
(*                                                                         *)
(* Rates are in units of 100 kbps.                                         *)
(***************************************************************************)
EXTENDS Integers, Sequences, FiniteSets

CONSTANTS
    Policy,     \* the server's policy
    None

Video == "video"
Track(codec, channels) == [codec |-> codec, channels |-> channels]
Lesser(a, b) == IF a < b THEN a ELSE b

(* What a probe says of a file that is played: books are read. Soft        *)
(* telecine is looked for in MPEG-2 only, and a film has a picture.        *)
MediaInfo == [medium : {Video, "audio"}, container : STRING, codec : STRING \cup {None},
              width : Nat, lines : Nat, hdr : STRING \cup {None}, telecine : BOOLEAN, rate : Nat,
              tracks : Seq([codec : STRING, channels : Nat]) \ {<<>>}, subs : SUBSET STRING]
File == {m \in MediaInfo : /\ m.telecine => m.codec = "mpeg2video"
                           /\ m.medium = Video => m.codec # None /\ m.lines # 0}

-----------------------------------------------------------------------------
(* A manifest says what it likes; what it does not say is filled in.       *)
Normalize(device) ==
    [device EXCEPT !.width = IF @ = 0 THEN 3840 ELSE @,
                   !.lines = IF @ = 0 THEN 2160 ELSE @,
                   !.channels = IF @ = 0 THEN 8 ELSE @,
                   !.segments = IF @ = {} THEN {"ts"} ELSE @,
                   !.hlsAudio = IF @ = {} THEN {"aac"} ELSE @,
                   !.hlsVideo = IF @ = {} THEN device.videoCodecs ELSE @]

(* A device that can be given what the house makes anew, as every profile  *)
(* of the web client can.                                                  *)
TakesOurs(device) ==
    LET c == Normalize(device)
    IN  /\ "mp4" \in c.containers /\ "ts" \in c.segments
        /\ "h264" \in c.videoCodecs \cap c.hlsVideo /\ "mpeg2video" \notin c.hlsVideo
        /\ "aac" \in c.audioCodecs \cap c.hlsAudio
        /\ c.width \in Nat /\ c.width % 2 = 0 /\ c.lines \in Nat \ {0}
        /\ c.channels \in Nat /\ c.channels >= 2

(* What a play may ask for: one of the file's tracks, an embedded subtitle *)
(* burned into the picture, a start that is not the beginning.             *)
Asks(m) == [track : {None} \cup 1 .. Len(m.tracks), burn : {None} \cup (m.subs \ {"sidecar"}),
            seek : BOOLEAN]
Chosen(ask) == IF ask.track = None THEN 1 ELSE ask.track
Burns(m, ask) == m.medium # "audio" /\ ask.burn # None

SoundFits(m, c, ask) ==
    LET sound == m.tracks[Chosen(ask)]
    IN  sound.codec \in c.audioCodecs /\ sound.channels <= c.channels
RateFits(m, c) == c.rate > 0 => m.rate <= c.rate
SizeFits(m, c) == m.width <= c.width /\ m.lines <= c.lines
HdrFits(m, c) == m.hdr # None => m.hdr \in c.hdr
PictureFits(m, c) ==
    m.codec \in c.videoCodecs /\ SizeFits(m, c) /\ RateFits(m, c) /\ HdrFits(m, c)

(* Direct play: the client takes the file as it is.                        *)
Direct(m, c, ask) ==
    /\ m.container \in c.containers
    /\ SoundFits(m, c, ask)
    /\ m.medium # "audio" => PictureFits(m, c) /\ ask.burn = None
    /\ m.medium = "audio" => RateFits(m, c)

(* What decodes need not stream: HLS players have lists of their own.      *)
NeedsSound(m, c, ask) ==
    \/ ~SoundFits(m, c, ask)
    \/ m.tracks[Chosen(ask)].codec \notin c.hlsAudio
    \/ m.medium = "audio" /\ ~RateFits(m, c)
NeedsPicture_Decodes(m, c, ask) ==     \* a mutation: what the device decodes, it streams
    ~PictureFits(m, c) \/ Burns(m, ask)
NeedsPicture(m, c, ask) ==
    \/ ~PictureFits(m, c) \/ Burns(m, ask)
    \/ m.codec \notin c.hlsVideo

(* The rungs below the first are there only where decoding is paid for.    *)
(* The ladder asks for the device's lines and not for its width.           *)
Rungs(c, first) == {r \in {720, 480} : r < first /\ r <= c.lines}

Copied == [audioOnly |-> FALSE, track |-> 1, video |-> None, audio |-> None, burn |-> None,
           detelecine |-> FALSE, tonemap |-> FALSE, lines |-> 0, segments |-> "ts", rungs |-> {}]

DecideAudio(m, c, ask) ==
    [Copied EXCEPT !.audioOnly = TRUE, !.track = Chosen(ask),
                   !.audio = IF NeedsSound(m, c, ask) THEN Policy.audio ELSE None]

(* The least that has to be done. A picture that is too large either way   *)
(* is given the lines of the device, whatever its width. HEVC rides in no  *)
(* transport stream: a client that takes no fMP4 has it made anew.         *)
DecideVideo(m, c, ask) ==
    LET anew == NeedsPicture(m, c, ask)
        output == IF anew THEN Policy.video ELSE m.codec
        fmp4 == output = "hevc" /\ "fmp4" \in c.segments
        forced == output = "hevc" /\ ~fmp4
        lines == IF anew /\ (~SizeFits(m, c) \/ m.lines > Policy.lines)
                 THEN Lesser(c.lines, Policy.lines) ELSE 0
        video == IF anew \/ forced THEN Policy.video ELSE None
    IN  [Copied EXCEPT
            !.track = Chosen(ask),
            !.audio = IF NeedsSound(m, c, ask) THEN Policy.audio ELSE None,
            !.video = video,
            !.burn = ask.burn,
            !.detelecine = anew /\ m.telecine,
            !.tonemap = anew /\ ~HdrFits(m, c),
            !.lines = lines,
            !.segments = IF fmp4 THEN "fmp4" ELSE "ts",
            !.rungs = IF video = None THEN {}
                      ELSE Rungs(c, IF lines = 0 THEN m.lines ELSE lines)]

(* DecideWith: the method, and the target of a transcode.                  *)
Decide(m, device, ask) ==
    LET c == Normalize(device)
    IN  IF Direct(m, c, ask) THEN [method |-> "direct_play", target |-> None]
        ELSE IF ~Policy.allow THEN [method |-> "deny", target |-> None]
        ELSE [method |-> "transcode",
              target |-> IF m.medium = "audio" THEN DecideAudio(m, c, ask) ELSE DecideVideo(m, c, ask)]

(* A play that starts in the middle decides again: sound that is made anew *)
(* has to be trimmed against a picture that is decoded.                    *)
Started(ask, target) ==
    IF ask.seek /\ target.audio # None /\ target.video = None /\ ~target.audioOnly
    THEN [target EXCEPT !.video = Policy.video] ELSE target

(* What ffmpeg makes of it: BuildArgs, and where there is more than one    *)
(* rung, appendABRArgs, which scales to each. scale=-2:n keeps the shape   *)
(* of the picture and makes its width even. New sound is stereo.           *)
Scaled(m, n) == [width |-> 2 * ((m.width * n + m.lines) \div (2 * m.lines)), lines |-> n]
SentSizes(m, target) ==
    {IF target.lines = 0 THEN [width |-> m.width, lines |-> m.lines] ELSE Scaled(m, target.lines)}
    \cup {Scaled(m, n) : n \in target.rungs}
SentSound(m, target) ==
    IF target.audio = None THEN m.tracks[target.track] ELSE Track(target.audio, 2)

Sent(m, target) ==
    LET anew == target.video # None
    IN  [video |-> IF anew THEN target.video ELSE m.codec,
         sizes |-> SentSizes(m, target),
         hdr |-> IF anew /\ target.tonemap THEN None ELSE m.hdr,
         judder |-> m.telecine /\ anew /\ ~target.detelecine,
         burned |-> IF anew THEN target.burn ELSE None,
         track |-> target.track,
         sound |-> SentSound(m, target),
         segments |-> target.segments]

(* What an HLS player asks of a stream. Its lines always fit; its width    *)
(* does where the file fits anyway or is no wider in shape than the screen. *)
NoWiderInShape(m, c) == m.width * c.lines <= c.width * m.lines

Streams(s, m, c, ask) ==
    /\ s.sound.codec \in c.hlsAudio /\ s.sound.channels <= c.channels
    /\ s.track = Chosen(ask)
    /\ m.medium = Video =>
          /\ s.video \in c.hlsVideo /\ s.segments \in c.segments
          /\ s.video = "hevc" => s.segments = "fmp4"
          /\ \A size \in s.sizes : size.lines <= c.lines
          /\ SizeFits(m, c) \/ NoWiderInShape(m, c) => \A size \in s.sizes : size.width <= c.width
          /\ s.hdr # None => s.hdr \in c.hdr
          /\ s.burned = ask.burn
          /\ ~s.judder

Plays(m, device, ask) ==
    LET d == Decide(m, device, ask)
        c == Normalize(device)
    IN  d.method = "transcode" => Streams(Sent(m, Started(ask, d.target)), m, c, ask)

-----------------------------------------------------------------------------
(* ConvertPlan: MP4, H.264, a stereo track first; surround and the other   *)
(* tracks behind it, as they are where MP4 carries them.                   *)
Mp4Audio == {"aac", "mp3", "ac3", "eac3"}
Stereo(t) == t.codec \in {"aac", "mp3"} /\ t.channels <= 2

Surround(t) == IF t.codec \in Mp4Audio THEN t ELSE Track("eac3", Lesser(t.channels, 6))
FirstTracks(t) ==
    IF Stereo(t) THEN <<t>>
    ELSE IF t.channels > 2 THEN <<Track("aac", 2), Surround(t)>>
    ELSE <<Track("aac", 2)>>
OtherTrack(t) ==
    IF t.codec \in Mp4Audio THEN t
    ELSE IF t.channels > 2 THEN Surround(t)
    ELSE Track("aac", 2)
AudioPlan(tracks) ==
    FirstTracks(Head(tracks)) \o [i \in 1 .. Len(tracks) - 1 |-> OtherTrack(tracks[i + 1])]

(* 4K and HDR stay as they are.                                            *)
Convertible(m) ==
    /\ m.medium = Video /\ m.codec # None
    /\ m.width <= 1920 + 200 /\ m.lines <= 1080 + 200 /\ m.hdr = None

(* Text rides along, pictures in English are read first, others are lost.  *)
ConvertPlan(m) ==
    LET audio == AudioPlan(m.tracks)
    IN  [action |-> IF ~Convertible(m) THEN "skip"
                    ELSE IF m.codec # "h264" THEN "encode"
                    ELSE IF m.container # "mp4" \/ audio # m.tracks THEN "remux"
                    ELSE "skip",
         copy |-> m.codec = "h264",
         detelecine |-> m.codec # "h264" /\ m.telecine,
         audio |-> audio,
         subtitles |-> m.subs \cap {"text"},
         bitmap |-> m.subs \cap {"english"}]

(* The file ConvertArgs makes, as the next scan probes it.                 *)
Converted(m) ==
    LET plan == ConvertPlan(m)
    IN  [m EXCEPT !.container = "mp4", !.codec = "h264", !.tracks = plan.audio,
                  !.telecine = @ /\ ~plan.detelecine,
                  !.subs = plan.subtitles \cup (IF plan.bitmap = {} THEN {} ELSE {"sidecar"})
                           \cup (@ \cap {"sidecar"})]
=============================================================================
