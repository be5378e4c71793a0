------------------------------- MODULE Decide -------------------------------
(***************************************************************************)
(* The policy (internal/decide over internal/ffprobe): what is to be done  *)
(* with each stream of a probed file, as operators without state.          *)
(*                                                                         *)
(* The streams of one type are a function from their positions in the      *)
(* file, a finite set of naturals, so that leaving one out moves no other. *)
(* Bitrates are in kbit/s.                                                  *)
(***************************************************************************)
EXTENDS Integers, FiniteSets

Labels == {"video", "audio", "subtitles", "remux"}
NoSample == "unsampled"     \* no idet sample was taken

-----------------------------------------------------------------------------
(* What the probe says (ffprobe/result.go). *)

\* How many streams of its type come before the one at position i.
Ordinal(S, i) == Cardinality({k \in S : k < i})

\* level is ffprobe's integer: ten times the level for h264.
LevelKnown(s) == s.level > 0 /\ s.codec \in {"h264", "hevc"}
Interlaced(s) == s.order \in {"tt", "bb", "tb", "bt"}
FieldOrderKnown(s) == s.order \notin {"", "unknown"}
IsHDR(s) == s.transfer \in {"smpte2084", "arib-std-b67"}
DolbyVision(s) == s.dv > 0

Watchable(f) == {i \in DOMAIN f.video : ~f.video[i].pic}
PrimaryVideo(f) == CHOOSE i \in Watchable(f) : \A k \in Watchable(f) : i <= k
Primary(f) == f.video[PrimaryVideo(f)]

\* The demuxer's list of names, cut down to the one the policy knows.
SourceContainer(f) ==
    IF \E c \in {"matroska", "mp4"} : c \in f.format
    THEN CHOOSE c \in {"matroska", "mp4"} : c \in f.format
    ELSE "other"

ChromaOf(pixFmt) ==
    CASE pixFmt \in {"yuv420p", "yuv420p10le", "nv12", "p010le"} -> "4:2:0"
      [] pixFmt \in {"yuv422p", "yuv422p10le"} -> "4:2:2"
      [] pixFmt \in {"yuv444p", "gbrp"} -> "4:4:4"
      [] OTHER -> "unknown"

-----------------------------------------------------------------------------
(* The hard-coded policy (policy.go). *)

VideoCopyCodecs == {"h264", "hevc"}
CopyProfiles(codec) ==
    IF codec = "h264" THEN {"Constrained Baseline", "Baseline", "Main", "High"}
    ELSE {"Main", "Main 10"}
H264MaxLevel == 42
LegacyScanCodecs == {"mpeg2video", "vc1"}
HardwareDecodable(codec) == codec \in {"h264", "hevc", "mpeg2video", "vc1", "vp9"}
NoEncodeProfile == 5

AudioCopyList(channels) ==
    {"aac", "ac3", "eac3"} \union IF channels <= 2 THEN {"mp3"} ELSE {}

ContainerFor(ext) == IF ext \in {".mp4", ".m4v"} THEN "mp4" ELSE "matroska"

AudioEncodeTarget(container, channels) ==
    LET out == IF channels > 6 THEN 6 ELSE channels
    IN  CASE channels <= 1 -> [codec |-> "aac", bitrate |-> 96, channels |-> 1]
          [] channels = 2 -> [codec |-> "aac", bitrate |-> 160, channels |-> 2]
          [] channels > 2 /\ container = "mp4" ->
                [codec |-> "aac", bitrate |-> 64 * out, channels |-> out]
          [] OTHER -> [codec |-> "ac3", bitrate |-> 640, channels |-> out]

TextSubtitles == {"subrip", "ass", "ssa", "webvtt", "mov_text"}
SubtitleTarget(container) == IF container = "mp4" THEN "mov_text" ELSE "subrip"

\* ffmpeg writes subrip with the encoder it calls srt.
SubtitleEncoder(codec) == IF codec = "subrip" THEN "srt" ELSE codec

-----------------------------------------------------------------------------
(* One stream (video.go, audio.go, subtitle.go). *)

\* The scan type, and whether a sample is still owed: a legacy codec that does
\* not say earns one, anything else that does not say is progressive.
ScanOf(s, idet) ==
    CASE idet # NoSample -> idet
      [] idet = NoSample /\ Interlaced(s) -> "interlaced"
      [] OTHER -> "progressive"
IdetPending(s, idet) ==
    idet = NoSample /\ ~FieldOrderKnown(s) /\ s.codec \in LegacyScanCodecs

\* Profile, level and chroma mean nothing off the copy list; the level is only
\* looked at for h264.
CopyFailures(s, scan) ==
    LET onList == s.codec \in VideoCopyCodecs
    IN  {x \in {"codec", "profile", "level", "chroma", "scan"} :
            \/ x = "codec" /\ ~onList
            \/ x = "profile" /\ onList /\ s.profile \notin CopyProfiles(s.codec)
            \/ x = "level" /\ s.codec = "h264" /\ (~LevelKnown(s) \/ s.level > H264MaxLevel)
            \/ x = "chroma" /\ onList /\ ChromaOf(s.pixFmt) # "4:2:0"
            \/ x = "scan" /\ scan = "interlaced"}

\* The content fits level 4.2 although the stream claims more.
LevelRewriteApplies(s) ==
    /\ LevelKnown(s)
    /\ s.width \in 1 .. 1920 /\ s.height \in 1 .. 1088
    /\ s.fps \in 1 .. 60 /\ s.refs \in 1 .. 4

VideoVerdict(decision, levelRewrite, deinterlace, idet) ==
    [decision |-> decision, levelRewrite |-> levelRewrite,
     deinterlace |-> deinterlace, needsIdet |-> idet]

PlanVideo(s, scan, pending) ==
    LET fails == CopyFailures(s, scan)
    IN  CASE fails = {} -> VideoVerdict("copy", FALSE, FALSE, FALSE)
          [] fails # {} /\ s.dv = NoEncodeProfile -> VideoVerdict("copy", FALSE, FALSE, FALSE)
          [] fails = {"level"} /\ s.dv # NoEncodeProfile /\ LevelRewriteApplies(s) ->
                VideoVerdict("copy", TRUE, FALSE, FALSE)
          [] OTHER -> VideoVerdict("encode", FALSE, scan = "interlaced", pending)

\* What every stream's plan says: the stream's language and dispositions, which
\* ffmpeg may lose, what is done with it, and a target where there is one.
NoTarget == [codec |-> "", bitrate |-> 0, channels |-> 0]
StreamPlan(s, decision, target) ==
    [lang |-> s.lang, flags |-> s.flags, decision |-> decision, target |-> target]
HEVC == [NoTarget EXCEPT !.codec = "hevc"]

PlanAudio(s, container) ==
    IF s.codec \in AudioCopyList(s.channels) THEN StreamPlan(s, "copy", NoTarget)
    ELSE StreamPlan(s, "encode", AudioEncodeTarget(container, s.channels))

\* Image, broadcast and unknown formats drop, forced or not.
PlanSubtitle(s, container) ==
    LET target == SubtitleTarget(container)
    IN  CASE s.codec \notin TextSubtitles -> StreamPlan(s, "drop", NoTarget)
          [] s.codec = target -> StreamPlan(s, "copy", NoTarget)
          [] OTHER -> StreamPlan(s, "convert", [NoTarget EXCEPT !.codec = SubtitleEncoder(target)])

-----------------------------------------------------------------------------
(* The whole file (engine.go). *)

VideoPlans(f, verdict) ==
    [i \in DOMAIN f.video |->
        IF i # PrimaryVideo(f) THEN StreamPlan(f.video[i], "drop", NoTarget)
        ELSE StreamPlan(f.video[i], verdict.decision,
                        IF verdict.decision = "encode" THEN HEVC ELSE NoTarget)]
AudioPlans(f, container) == [i \in DOMAIN f.audio |-> PlanAudio(f.audio[i], container)]
SubtitlePlans(f, container) == [i \in DOMAIN f.subtitle |-> PlanSubtitle(f.subtitle[i], container)]

Kept(plans) == {i \in DOMAIN plans : plans[i].decision # "drop"}
HasWork(plans) == \E i \in DOMAIN plans : plans[i].decision # "copy"
EncodesVideo(p) == \E i \in Kept(p.video) : p.video[i].decision = "encode"

\* A dropped video stream is not work: only the primary one is looked at.
DeriveKind(p) ==
    {x \in Labels :
        \/ x = "video" /\ EncodesVideo(p)
        \/ x = "audio" /\ HasWork(p.audio)
        \/ x = "subtitles" /\ HasWork(p.subtitle)
        \/ x = "remux" /\ (p.levelRewrite \/ p.from # p.to)}

\* Where a kept stream lands among those of its type.
OutputIndex(plans, i) == Ordinal(Kept(plans), i)

Verdict(f, idet) ==
    PlanVideo(Primary(f), ScanOf(Primary(f), idet), IdetPending(Primary(f), idet))

Plan(f, idet) ==
    LET verdict == Verdict(f, idet)
        out == ContainerFor(f.ext)
    IN  [from |-> SourceContainer(f), to |-> out,
         video |-> VideoPlans(f, verdict),
         audio |-> AudioPlans(f, out), subtitle |-> SubtitlePlans(f, out),
         levelRewrite |-> verdict.levelRewrite, deinterlace |-> verdict.deinterlace,
         hdr |-> IsHDR(Primary(f)), dv |-> Primary(f).dv]

NeedsIdetSample(f, idet) == Verdict(f, idet).needsIdet
NeedsWrite(p) == DeriveKind(p) # {}

\* Why Plan returns no plan at all.
NoVideoStream(f) == Watchable(f) = {}
NoAudioStreams(f, idet) ==
    NeedsWrite(Plan(f, idet)) /\ Kept(AudioPlans(f, ContainerFor(f.ext))) = {}

\* The space sweep encodes what the copy test passed, never profile 5.
MayForce(p) == p.dv # NoEncodeProfile /\ Kept(p.video) # {}
ForceVideoEncode(p) ==
    [p EXCEPT !.levelRewrite = FALSE,
              !.video = [i \in DOMAIN @ |->
                  IF i \in Kept(@) THEN StreamPlan(@[i], "encode", HEVC) ELSE @[i]]]
=============================================================================
