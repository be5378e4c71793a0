------------------------------- MODULE Verify -------------------------------
(***************************************************************************)
(* What is checked of an output before it may replace the source           *)
(* (promote/verify.go) and what is written down of it                      *)
(* (decide/transform.go).                                                  *)
(*                                                                         *)
(* A file says how long it is (duration; legacy headers lie, 0 is unknown) *)
(* and is of some length; sizes are relative.                              *)
(***************************************************************************)
EXTENDS Command

IsLegacyContainer(f) == SourceContainer(f) \notin {"matroska", "mp4"}

\* 1% of what is wanted.
WithinTolerance(got, want) == 100 * (IF got > want THEN got - want ELSE want - got) <= want

\* A legacy header is not trusted: ffmpeg's own final out_time is.
DurationOK(f, out, finalOut) ==
    \/ f.duration > 0 /\ WithinTolerance(out.duration, f.duration)
    \/ IsLegacyContainer(f) /\ finalOut > 0 /\ WithinTolerance(out.duration, finalOut)

\* Streams as pairs of type and index: video, audio and subtitle are 1, 2 and 3.
StreamPairs(video, audio, subtitle) ==
    ({1} \X video) \union ({2} \X audio) \union ({3} \X subtitle)
PlannedStreams(p) == StreamPairs(Mapped(p.video), Mapped(p.audio), Mapped(p.subtitle))
PresentStreams(out) ==
    StreamPairs({i \in DOMAIN out.video : ~out.video[i].pic}, DOMAIN out.audio, DOMAIN out.subtitle)

\* The plan's streams are sorted by output index, which counts within a type;
\* the output's come as they were mapped, one type after the other.
ExpectedPosition(S, s) ==
    Cardinality({t \in S : t[2] < s[2] \/ (t[2] = s[2] /\ t[1] < s[1])})
ActualPosition(S, s) ==
    Cardinality({t \in S : t[1] < s[1] \/ (t[1] = s[1] /\ t[2] < s[2])})
StreamShapeOK(p, out) ==
    LET planned == PlannedStreams(p)
        present == PresentStreams(out)
    IN  /\ Cardinality(planned) = Cardinality(present)
        /\ \A s \in planned, t \in present :
              ExpectedPosition(planned, s) = ActualPosition(present, t) => s[1] = t[1]

Languages(streams, S) == {streams[i].lang : i \in S}
AudioOK(f, p, out) ==
    /\ DOMAIN out.audio # {}
    /\ Languages(f.audio, Kept(p.audio)) \subseteq Languages(out.audio, DOMAIN out.audio)

\* A planned copy keeps codec, profile, size and level; a rewrite ends at 4.2.
FirstVideo(out) == out.video[CHOOSE i \in Watchable(out) : \A k \in Watchable(out) : i <= k]
\* A rewritten level not looked at, or not excused.
LevelUnchecked(p, s, got) == p.levelRewrite \/ ~LevelKnown(s) \/ got.level = s.level
LevelAlwaysSame(p, s, got) == ~LevelKnown(s) \/ got.level = s.level
LevelOK(p, s, got) ==
    IF p.levelRewrite THEN LevelKnown(got) /\ got.level = H264MaxLevel
    ELSE ~LevelKnown(s) \/ got.level = s.level
VideoCopyOK(f, p, out) ==
    ~EncodesVideo(p) =>
        /\ Watchable(out) # {}
        /\ LET s == Primary(f)
               got == FirstVideo(out)
           IN  /\ got.codec = s.codec /\ got.width = s.width /\ got.height = s.height
               /\ s.profile = "" \/ got.profile = s.profile
               /\ LevelOK(p, s, got)

\* Losing the record of profiles 7 and 8 is a warning.
DolbyVisionOK(p, out) ==
    p.dv = NoEncodeProfile => Watchable(out) # {} /\ DolbyVision(FirstVideo(out))
SizeOK(f, p, out) == EncodesVideo(p) => out.size <= f.size

Verified(f, p, out, finalOut) ==
    /\ DurationOK(f, out, finalOut) /\ StreamShapeOK(p, out) /\ AudioOK(f, p, out)
    /\ VideoCopyOK(f, p, out) /\ DolbyVisionOK(p, out) /\ SizeOK(f, p, out)

-----------------------------------------------------------------------------
(* The transform record: what is predicted for each source stream, and then   *)
(* measured at the place the plan says it landed.                             *)

NoAfter == [codec |-> "none", channels |-> 0]
AudioState(s) == [codec |-> s.codec, channels |-> s.channels]

ScanOfStream(s) == IF Interlaced(s) THEN "interlaced" ELSE "progressive"
VideoState(s, scan) ==
    [codec |-> s.codec, profile |-> s.profile, level |-> IF LevelKnown(s) THEN s.level ELSE 0,
     width |-> s.width, height |-> s.height, fps |-> s.fps, pixFmt |-> s.pixFmt,
     hdr |-> IsHDR(s), scan |-> scan]

\* What an encode will be; nobody knows its level yet.
PredictedVideoState(before, p) ==
    LET scanned == [before EXCEPT !.scan = IF p.deinterlace THEN "progressive" ELSE @]
    IN  IF EncodesVideo(p)
        THEN [scanned EXCEPT !.codec = "hevc", !.level = 0,
                             !.profile = IF p.hdr THEN "Main 10" ELSE "Main",
                             !.pixFmt = IF p.hdr THEN "yuv420p10le" ELSE "yuv420p"]
        ELSE [scanned EXCEPT !.level = IF p.levelRewrite THEN H264MaxLevel ELSE @]

\* The engine may have concluded interlaced from a sample, which the probe did not see.
VideoTransform(f, p) ==
    LET scan == IF p.deinterlace THEN "interlaced" ELSE ScanOfStream(Primary(f))
    IN  PredictedVideoState(VideoState(Primary(f), scan), p)

AudioTransform(f, p, i) ==
    CASE p.audio[i].decision = "drop" -> NoAfter
      [] p.audio[i].decision = "copy" -> AudioState(f.audio[i])
      [] OTHER -> [codec |-> p.audio[i].target.codec, channels |-> p.audio[i].target.channels]
SubtitleTransform(f, p, i) ==
    CASE p.subtitle[i].decision = "drop" -> "none"
      [] p.subtitle[i].decision = "copy" -> f.subtitle[i].codec
      [] OTHER -> SubtitleTarget(p.to)

NewTransform(f, p) ==
    [video |-> VideoTransform(f, p),
     audio |-> [i \in DOMAIN f.audio |-> AudioTransform(f, p, i)],
     subtitle |-> [i \in DOMAIN f.subtitle |-> SubtitleTransform(f, p, i)]]

\* A dropped stream has no output index and is left alone.
AtOutputIndex(plans, i, S) ==
    IF i \in Kept(plans) /\ OutputIndex(plans, i) < Cardinality(S)
    THEN {k \in S : Ordinal(S, k) = OutputIndex(plans, i)} ELSE {}

\* What was predicted left standing.
MergePredicted(rec, p, out) == rec
MergeMeasured(rec, p, out) ==
    [video |-> IF Watchable(out) = {} THEN rec.video
               ELSE VideoState(Primary(out), ScanOfStream(Primary(out))),
     audio |-> [i \in DOMAIN rec.audio |->
        LET at == AtOutputIndex(p.audio, i, DOMAIN out.audio)
        IN  IF at = {} THEN rec.audio[i] ELSE AudioState(out.audio[CHOOSE k \in at : TRUE])],
     subtitle |-> [i \in DOMAIN rec.subtitle |->
        LET at == AtOutputIndex(p.subtitle, i, DOMAIN out.subtitle)
        IN  IF at = {} THEN rec.subtitle[i] ELSE out.subtitle[CHOOSE k \in at : TRUE].codec]]
=============================================================================
