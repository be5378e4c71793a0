---------------------------- MODULE MCTranscode ----------------------------
(* Instances of Transcode for TLC: files that differ from one another in what  *)
(* the policy tells apart, one part of the file at a time.                      *)
EXTENDS Transcode, TLC

Picture ==
    [codec |-> "hevc", profile |-> "Main", level |-> 120, pixFmt |-> "yuv420p",
     order |-> "progressive", pic |-> FALSE, width |-> 1920, height |-> 1080, fps |-> 24,
     refs |-> 4, dv |-> 0, transfer |-> "", content |-> "film", lang |-> "",
     flags |-> {"default"}]
AVC == [Picture EXCEPT !.codec = "h264", !.profile = "High", !.level = 42]
Legacy(codec, order) ==
    [Picture EXCEPT !.codec = codec, !.profile = "", !.level = 0, !.order = order, !.width = 720,
                    !.height = 576]
Sound(codec, channels, lang) ==
    [codec |-> codec, channels |-> channels, content |-> lang, lang |-> lang,
     flags |-> IF lang = "en" THEN {"default"} ELSE {}]
Text(codec, lang) ==
    [codec |-> codec, content |-> lang, lang |-> lang, flags |-> IF lang = "fr" THEN {"forced"} ELSE {}]

File ==
    [format |-> {"matroska"}, ext |-> ".mkv", duration |-> 1000, length |-> 1000, size |-> 9,
     streamRate |-> 6000, bpsTag |-> 0, overallRate |-> 0, audioRate |-> 0, formatRate |-> 0,
     video |-> 1 :> Picture, audio |-> 1 :> Sound("aac", 2, "en"), subtitle |-> <<>>]

\* The copy test, its boundaries, and what no copy test looks at.
Pictures ==
    {Picture, AVC,
     [Picture EXCEPT !.transfer = "arib-std-b67", !.profile = "Rext"],
     [Picture EXCEPT !.transfer = "smpte2084", !.profile = "Main 10", !.pixFmt = "yuv420p10le"],
     [Picture EXCEPT !.codec = "vp9", !.profile = "Profile 0", !.level = 0, !.width = 1280],
     [Picture EXCEPT !.dv = 5, !.profile = "Main 10"], [Picture EXCEPT !.dv = 5, !.order = "tt"],
     [Picture EXCEPT !.dv = 8], [AVC EXCEPT !.dv = 9, !.level = 52],
     [AVC EXCEPT !.level = 51], [AVC EXCEPT !.level = 0], [AVC EXCEPT !.order = "tt"],
     [AVC EXCEPT !.level = 51, !.refs = 5], [AVC EXCEPT !.level = 51, !.height = 1089],
     [AVC EXCEPT !.level = 51, !.width = 1921, !.fps = 60], [AVC EXCEPT !.pixFmt = "yuv422p10le"],
     [AVC EXCEPT !.profile = "High 10", !.level = 51, !.fps = 61, !.width = 3840]}
    \union {Legacy(codec, order) : codec \in {"mpeg2video", "mpeg4"}, order \in {"tt", "unknown"}}
ByPicture ==
    {[File EXCEPT !.video = 1 :> s, !.format = {c}, !.ext = IF c = "mp4" THEN ".mp4" ELSE ".mkv"] :
        s \in Pictures, c \in {"matroska", "mp4"}}

\* Two audio streams, for each container.
Sounds == {<<"aac", 6>>, <<"mp3", 2>>, <<"mp3", 6>>, <<"dts", 8>>, <<"flac", 1>>, <<"truehd", 2>>}
ByAudio ==
    {[File EXCEPT !.audio = 1 :> Sound(a[1], a[2], "en") @@ 2 :> Sound(b[1], b[2], "de"),
                  !.format = {c}, !.ext = IF c = "mp4" THEN ".mp4" ELSE ".mkv"] :
        a \in Sounds, b \in {<<"aac", 6>>, <<"mp3", 6>>, <<"dts", 8>>}, c \in {"matroska", "mp4"}}
    \union {[File EXCEPT !.audio = <<>>, !.format = {c}] : c \in {"matroska", "other"}}

\* Three subtitle streams, with dropped ones between the others.
Subtitles == {"subrip", "ass", "mov_text", "hdmv_pgs"}
BySubtitle ==
    {[File EXCEPT !.subtitle = 1 :> Text(a, "en") @@ 2 :> Text(b, "de") @@ 4 :> Text(d, "fr"),
                  !.format = {c}, !.ext = IF c = "mp4" THEN ".mp4" ELSE ".mkv"] :
        a \in Subtitles, b \in Subtitles, d \in {"subrip"}, c \in {"matroska", "mp4"}}

\* A cover before the film, no film at all, containers and names that disagree,
\* headers that do not know the duration, and where the source's rate is found.
ByRest ==
    {[File EXCEPT !.video = 0 :> [Picture EXCEPT !.pic = TRUE, !.codec = "mjpeg"] @@ 1 :> AVC],
     [File EXCEPT !.video = 0 :> [Picture EXCEPT !.pic = TRUE, !.codec = "mjpeg"]]}
    \union {[File EXCEPT !.format = {c}, !.ext = e, !.duration = d, !.video = 1 :> s] :
        c \in {"matroska", "mp4", "other"}, e \in {".mkv", ".m4v", ".avi"}, d \in {0, 3000},
        s \in {AVC, Legacy("vc1", "unknown")}}
    \union {[File EXCEPT !.video = 1 :> [AVC EXCEPT !.order = "tb", !.width = w], !.streamRate = 0,
                         !.bpsTag = b, !.overallRate = o, !.audioRate = 3500, !.formatRate = 900] :
        w \in {640, 3840}, b \in {0, 9400}, o \in {0, 3000, 30000}}

\* Dolby Vision that is copied while its audio is encoded, in each container.
ByRecord ==
    {[File EXCEPT !.video = 1 :> [Picture EXCEPT !.dv = d, !.order = o],
                  !.audio = 1 :> Sound("dts", 6, "en"),
                  !.format = {c}, !.ext = IF c = "mp4" THEN ".mp4" ELSE ".mkv"] :
        d \in {5, 8}, o \in {"progressive", "tt"}, c \in {"matroska", "mp4"}}

\* Two audio streams and a subtitle.
ByAll ==
    {[File EXCEPT !.audio = 1 :> Sound("dts", 6, "en") @@ 2 :> Sound("aac", 2, "de"),
                  !.subtitle = 1 :> Text("ass", "en")]}

AllFiles == ByPicture \union ByAudio \union BySubtitle \union ByRest \union ByRecord \union ByAll

\* An iGPU without Main 10 on its first backend, one that encodes by VA-API alone and
\* decodes nothing, and none; what the cache says need not be true of it.
SomeWorks ==
    {Entries \ {<<"hevc_qsv", "Main 10">>}, {"hevc_vaapi"} \X Profiles, {}}
Row(version, partial, works) ==
    [ffmpeg |-> version, partial |-> partial, rows |-> "some", works |-> works]
SomeCaches ==
    {[Row("this", FALSE, {}) EXCEPT !.rows = "none"], Row("this", FALSE, Entries),
     Row("other", FALSE, Entries), Row("this", TRUE, Entries)}
=============================================================================
