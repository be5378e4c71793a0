------------------------------ MODULE Command ------------------------------
(***************************************************************************)
(* From a plan to a file (internal/ffmpeg, promote/verify.go,              *)
(* decide/transform.go): the rate control, the command that is built, what *)
(* ffmpeg makes of it, and what is checked of the result before it may     *)
(* replace the source.                                                     *)
(***************************************************************************)
EXTENDS Decide, Sequences

Software == "libx265"
Encoders == {"hevc_qsv", "hevc_vaapi", Software}

Least(a, b) == IF a <= b THEN a ELSE b
Most(a, b) == IF a >= b THEN a ELSE b

-----------------------------------------------------------------------------
(* The target bitrate (bitrate.go, decide/bitrate.go). *)

\* Tiered on width, because letterboxing shrinks height.
ResolutionOf(width) ==
    CASE width >= 3840 -> "2160p"
      [] width \in 2560 .. 3839 -> "1440p"
      [] width \in 1920 .. 2559 -> "1080p"
      [] width \in 1280 .. 1919 -> "720p"
      [] OTHER -> "576p"
Floor == [r \in {"576p", "720p", "1080p", "1440p", "2160p"} |->
    CASE r = "576p" -> 800 [] r = "720p" -> 1500 [] r = "1080p" -> 2500
      [] r = "1440p" -> 4000 [] r = "2160p" -> 8000]
Ceiling == [r \in DOMAIN Floor |->
    CASE r = "576p" -> 2500 [] r = "720p" -> 4000 [] r = "1080p" -> 8000
      [] r = "1440p" -> 12000 [] r = "2160p" -> 20000]
\* Bits per pixel, in thousandths.
BPP(r) == CASE r = "1440p" -> 60 [] r = "2160p" -> 55 [] OTHER -> 65

\* The chain of 8.4: the stream's own rate, the statistics tag, what is left of
\* the file's overall rate without its audio, the container's claim; 0 is absent.
SourceBitrate(f) ==
    LET computed == (f.overallRate * 98) \div 100 - f.audioRate
    IN  CASE f.streamRate > 0 -> f.streamRate
          [] f.streamRate = 0 /\ f.bpsTag > 0 -> f.bpsTag
          [] f.streamRate = 0 /\ f.bpsTag = 0 /\ f.overallRate > 0 /\ computed > 0 -> computed
          [] OTHER -> f.formatRate

\* What the target depends on.
BitrateInput(f) ==
    LET s == Primary(f)
    IN  [width |-> s.width, height |-> s.height, fps |-> s.fps, hdr |-> IsHDR(s),
         source |-> SourceBitrate(f)]

\* The source's ceiling last.
ClampSourceLast(target, in) ==
    LET r == ResolutionOf(in.width)
        band == Least(Most(target, Floor[r]), Ceiling[r])
    IN  IF in.source > 0 THEN Least(band, (in.source * 85) \div 100) ELSE band

\* The source's ceiling first: the resolution's floor is allowed to win over it.
Clamp(target, in) ==
    LET capped == IF in.source > 0 THEN Least(target, (in.source * 85) \div 100) ELSE target
        r == ResolutionOf(in.width)
    IN  Least(Most(capped, Floor[r]), Ceiling[r])

FallbackBitrate(in) ==
    LET flat == (((in.width * in.height) \div 1000) * in.fps * BPP(ResolutionOf(in.width))) \div 1000
        \* fps/24 in twentyfourths, capped at 1.6
        fast == IF in.fps > 30 THEN (flat * Least(in.fps * 10, 384)) \div 240 ELSE flat
    IN  IF in.hdr THEN (fast * 5) \div 4 ELSE fast

\* The windows that are encoded as samples, in seconds: a fifth, half and four
\* fifths of the way through the middle 90%, pulled back to fit.
Samples(duration) ==
    CASE duration <= 0 -> {}
      [] duration \in 1 .. 60 -> {[start |-> 0, seconds |-> duration]}
      [] OTHER -> {[start |-> Least((duration * at) \div 100, duration - 60), seconds |-> 60] :
                      at \in {23, 50, 77}}

\* base is the median of the sample encodes; they measured another encoder.
TargetFromSamples(base, in) == IF base = 0 THEN 0 ELSE Clamp((base * 5) \div 4, in)
TargetFromFallback(in) == Clamp(FallbackBitrate(in), in)

-----------------------------------------------------------------------------
(* The idet sample (idet.go), as the counts of its two summaries; a summary that   *)
(* is missing or cannot be read counts nothing.                                     *)

Frames(counts) == counts.tff + counts.bff + counts.progressive
ParseIdet(multi, single) ==
    LET counts == IF Frames(multi) = 0 THEN single ELSE multi
    IN  IF Frames(counts) = 0 \/ counts.tff + counts.bff <= counts.progressive
        THEN "progressive" ELSE "interlaced"

-----------------------------------------------------------------------------
(* The command (argv.go).  A request is the plan and what it does not say. *)

DecodePath(r) ==
    IF /\ EncodesVideo(r.plan) /\ ~r.forceSoftware
       /\ r.encoder # Software /\ HardwareDecodable(r.codec)
    THEN "hardware" ELSE "software"

\* What Build refuses, in its order.
BuildErrors(r) ==
    {x \in {"nothing", "novideo", "noaudio", "noencoder", "nobitrate", "nodevice"} :
        \/ x = "nothing" /\ ~NeedsWrite(r.plan)
        \/ x = "novideo" /\ Kept(r.plan.video) = {}
        \/ x = "noaudio" /\ Kept(r.plan.audio) = {}
        \/ x = "noencoder" /\ EncodesVideo(r.plan) /\ r.encoder \notin Encoders
        \/ x = "nobitrate" /\ EncodesVideo(r.plan) /\ r.target <= 0
        \/ x = "nodevice" /\ EncodesVideo(r.plan) /\ r.encoder # Software /\ r.device = ""}

\* One -map per kept stream, grouped by type; the options are addressed by the
\* stream's place in the output and name its place in the source.
Mapped(plans) == {OutputIndex(plans, i) : i \in Kept(plans)}
From(plans, n) == CHOOSE i \in Kept(plans) : OutputIndex(plans, i) = n
CodecArg(plan) == IF plan.decision = "copy" THEN "copy" ELSE plan.target.codec
\* A stream sought where it will be instead of where it is.
StreamArgsByOutput(plans) ==
    [n \in Mapped(plans) |->
        LET plan == plans[From(plans, n)]
        IN  [map |-> n, codec |-> CodecArg(plan), channels |-> plan.target.channels,
             lang |-> plan.lang, flags |-> plan.flags]]

StreamArgs(plans) ==
    [n \in Mapped(plans) |->
        LET plan == plans[From(plans, n)]
        IN  [map |-> Ordinal(DOMAIN plans, From(plans, n)), codec |-> CodecArg(plan),
             channels |-> plan.target.channels, lang |-> plan.lang, flags |-> plan.flags]]

\* Software filters see frames in memory and hardware ones frames on the device;
\* an upload takes them from one to the other.
VideoFilters(r) ==
    LET hardware == DecodePath(r) = "hardware"
        deinterlacer == CASE ~hardware -> "bwdif"
                          [] hardware /\ r.encoder = "hevc_vaapi" -> "deinterlace_vaapi"
                          [] OTHER -> "vpp_qsv"
    IN  (IF r.plan.deinterlace THEN <<deinterlacer>> ELSE <<>>)
        \o (IF ~hardware /\ r.encoder # Software THEN <<"hwupload">> ELSE <<>>)

\* Dolby Vision in MP4 takes another sample entry, or its record is lost.
MP4HEVCTag(p) == IF p.dv > 0 THEN "dvh1" ELSE "hvc1"

\* HDRTransfer of the plan is assigned nowhere, so that HDR is always PQ.
HDRTransfer == "smpte2084"
VideoProfile(p) == IF p.hdr THEN "Main 10" ELSE "Main"
RateControl(target) == [target |-> target, max |-> (target * 8) \div 5, buffer |-> target * 2]

CopiedVideoArgs(r) ==
    [filters |-> <<>>, profile |-> "", transfer |-> "",
     tag |-> IF r.plan.to = "mp4" /\ r.codec = "hevc" THEN MP4HEVCTag(r.plan) ELSE "",
     level |-> IF r.plan.levelRewrite THEN H264MaxLevel ELSE 0, rate |-> RateControl(0)]

VideoArgs(r) ==
    IF ~EncodesVideo(r.plan) THEN CopiedVideoArgs(r)
    ELSE [filters |-> VideoFilters(r), profile |-> VideoProfile(r.plan),
          transfer |-> IF r.plan.hdr THEN HDRTransfer ELSE "",
          tag |-> IF r.plan.to = "mp4" THEN MP4HEVCTag(r.plan) ELSE "",
          level |-> 0, rate |-> RateControl(r.target)]

Build(r) ==
    LET v == VideoArgs(r)
    IN  [video |-> StreamArgs(r.plan.video), audio |-> StreamArgs(r.plan.audio),
         subtitle |-> StreamArgs(r.plan.subtitle), container |-> r.plan.to,
         encoder |-> IF EncodesVideo(r.plan) THEN r.encoder ELSE "", decode |-> DecodePath(r),
         filters |-> v.filters, profile |-> v.profile, transfer |-> v.transfer, tag |-> v.tag,
         level |-> v.level, rate |-> v.rate]

-----------------------------------------------------------------------------
(* What ffmpeg does with it (external). *)

\* Where the frames have to be, and where a filter leaves them.
Takes(filter) == CASE filter \in {"bwdif", "hwupload"} -> "memory"
                   [] filter = "vpp_qsv" -> "hevc_qsv"
                   [] filter = "deinterlace_vaapi" -> "hevc_vaapi"
Leaves(filter, encoder) == IF filter = "hwupload" THEN encoder ELSE Takes(filter)
Flows(c) ==
    LET n == Len(c.filters)
        start == IF c.decode = "hardware" THEN c.encoder ELSE "memory"
        reach == IF n = 0 THEN start ELSE Leaves(c.filters[n], c.encoder)
    IN  /\ n > 0 => Takes(c.filters[1]) = start
        /\ \A i \in 2 .. n : Takes(c.filters[i]) = Leaves(c.filters[i - 1], c.encoder)
        /\ reach = IF c.encoder = Software THEN "memory" ELSE c.encoder

\* The stream an argument takes, with the language and the flags it sets.
StreamFor(streams, arg) ==
    [streams[CHOOSE i \in DOMAIN streams : Ordinal(DOMAIN streams, i) = arg.map]
        EXCEPT !.lang = arg.lang, !.flags = arg.flags]

EncodedVideo(s, c) ==
    [s EXCEPT !.codec = "hevc", !.profile = c.profile, !.level = 120,
              !.pixFmt = IF c.profile = "Main 10" THEN "yuv420p10le" ELSE "yuv420p",
              !.order = IF c.filters # <<>> /\ c.filters[1] # "hwupload" THEN "progressive" ELSE @,
              !.transfer = c.transfer, !.dv = 0]
CopiedVideo(s, c) ==
    [s EXCEPT !.level = IF c.level > 0 THEN c.level ELSE @,
              !.dv = IF c.container = "mp4" /\ c.tag # "dvh1" THEN 0 ELSE @]

SubtitleWritten(encoder) == IF encoder = "srt" THEN "subrip" ELSE encoder

FFmpeg(f, c) ==
    [f EXCEPT
        !.format = {c.container}, !.duration = f.length,
        !.video = [n \in DOMAIN c.video |->
            IF c.video[n].codec = "copy" THEN CopiedVideo(StreamFor(@, c.video[n]), c)
            ELSE EncodedVideo(StreamFor(@, c.video[n]), c)],
        !.audio = [n \in DOMAIN c.audio |->
            IF c.audio[n].codec = "copy" THEN StreamFor(@, c.audio[n])
            ELSE [StreamFor(@, c.audio[n]) EXCEPT
                     !.codec = c.audio[n].codec, !.channels = c.audio[n].channels]],
        !.subtitle = [n \in DOMAIN c.subtitle |->
            IF c.subtitle[n].codec = "copy" THEN StreamFor(@, c.subtitle[n])
            ELSE [StreamFor(@, c.subtitle[n]) EXCEPT !.codec = SubtitleWritten(c.subtitle[n].codec)]]]
=============================================================================
