---------------------------- MODULE MCConverter ----------------------------
(***************************************************************************)
(* The converter's library for TLC: the files people have, the profiles of *)
(* web/player.js and what a manifest that says the least leaves open.      *)
(***************************************************************************)
EXTENDS Converter

TheDefault == [allow |-> TRUE, lines |-> 1080, video |-> "h264", audio |-> "aac"]

Sounds == {<<Track("aac", 2)>>, <<Track("mp3", 2)>>, <<Track("ac3", 6)>>,
           <<Track("dts", 8), Track("aac", 2)>>, <<Track("aac", 2), Track("flac", 2)>>}
Texts == {{}, {"text", "sidecar"}, {"english", "foreign"}}
Telecined(codec) == IF codec = "mpeg2video" THEN BOOLEAN ELSE {FALSE}
Pictures(codec) ==
    [medium : {Video}, container : {"mp4", "mkv"}, codec : {codec}, width : {0}, lines : {0},
     hdr : IF codec \in {"hevc", "av1"} THEN {None, "hdr10"} ELSE {None},
     telecine : Telecined(codec), rate : {20, 60}, tracks : Sounds, subs : Texts]
(* Square films, films as wide as a screen, and wider ones.                *)
Sizes == {<<720, 480>>, <<1440, 1080>>, <<1920, 1080>>, <<1920, 800>>, <<3840, 2160>>, <<3840, 1600>>}
Sound ==
    [medium : {"audio"}, container : {"m4b", "flac"}, codec : {None}, width : {0}, lines : {0}, hdr : {None},
     telecine : {FALSE}, rate : {1, 60}, tracks : Sounds, subs : {{}}]
Filmed(m, size) == [m EXCEPT !.width = size[1], !.lines = size[2]]
TheMedia ==
    Sound \cup UNION {{Filmed(m, size) : m \in Pictures(codec), size \in Sizes} :
                         codec \in {"h264", "hevc", "av1", "mpeg2video"}}

(* A manifest that says nothing of HLS, of HDR and of its limits.          *)
Minimal == [containers |-> {"mp4"}, videoCodecs |-> {"h264"}, audioCodecs |-> {"aac"},
            width |-> 0, lines |-> 0, rate |-> 0, hdr |-> {}, channels |-> 0, segments |-> {},
            hlsAudio |-> {}, hlsVideo |-> {}]
Browser == [Minimal EXCEPT !.containers = {"mp4", "m4b", "flac"},
                !.videoCodecs = {"h264", "hevc", "av1"}, !.audioCodecs = {"aac", "mp3", "flac"},
                !.width = 3840, !.lines = 2160, !.channels = 2, !.segments = {"ts", "fmp4"},
                !.hlsAudio = {"aac", "mp3"}]
Chromecast1 == [Minimal EXCEPT !.audioCodecs = {"aac", "mp3"}, !.width = 1920,
                    !.lines = 1080, !.channels = 2, !.segments = {"ts"}, !.hlsAudio = {"aac"}]
Ultra == [Minimal EXCEPT !.videoCodecs = {"h264", "hevc"},
              !.audioCodecs = {"aac", "mp3", "flac", "ac3", "eac3"}, !.width = 3840,
              !.lines = 2160, !.hdr = {"hdr10"}, !.channels = 6, !.segments = {"ts", "fmp4"},
              !.hlsAudio = {"aac"}, !.hlsVideo = {"h264"}]
Tv4k == [Minimal EXCEPT !.containers = {"mp4", "mkv"}, !.videoCodecs = {"h264", "hevc", "av1"},
             !.audioCodecs = {"aac", "ac3", "eac3"}, !.width = 3840, !.lines = 2160,
             !.hdr = {"hdr10"}, !.channels = 8, !.segments = {"ts", "fmp4"}, !.hlsAudio = {"aac", "ac3", "eac3"}]
Cellular == [Minimal EXCEPT !.width = 1280, !.lines = 720, !.rate = 30, !.channels = 2, !.segments = {"ts"},
                 !.hlsAudio = {"aac"}]
(* A television that knows HEVC and no fMP4 segments (decision.go).        *)
TsOnly == [Minimal EXCEPT !.videoCodecs = {"h264", "hevc"}, !.width = 3840, !.lines = 2160,
               !.channels = 6]
TheDevices == {Minimal, Browser, Chromecast1, Ultra, Tv4k, Cellular, TsOnly}

Plain == [medium |-> Video, container |-> "mp4", codec |-> "h264", width |-> 1920, lines |-> 1080,
          hdr |-> None, telecine |-> FALSE, rate |-> 60, tracks |-> <<Track("aac", 2)>>, subs |-> {}]
TheProbe == [plain |-> Plain,
             remux |-> [Plain EXCEPT !.container = "mkv"],
             pictures |-> [Plain EXCEPT !.container = "mkv", !.subs = {"english"}],
             encode |-> [Plain EXCEPT !.container = "mkv", !.codec = "hevc"],
             uhd |-> [Plain EXCEPT !.container = "mkv", !.codec = "hevc", !.width = 3840,
                            !.lines = 2160]]
=============================================================================
