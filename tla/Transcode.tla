----------------------------- MODULE Transcode -----------------------------
(***************************************************************************)
(* One job from its claim to its promotion (job/execute.go): the stored    *)
(* probe is planned afresh, the target bitrate and the scan type are       *)
(* resolved, an encoder is chosen, ffmpeg runs until an attempt succeeds   *)
(* or the chain of fallbacks is spent, and the output is verified and      *)
(* takes the place of the source.                                          *)
(*                                                                         *)
(* ffmpeg may fail, and may end well with a damaged output.  Crashes,      *)
(* cancellation and the file system are in JobQueue and Promotion.         *)
(***************************************************************************)
EXTENDS Verify, Hardware

CONSTANTS
    Sources,        \* the files a job may be about
    Caches,         \* the capability caches a job may find
    Works,          \* what a probe of the hardware may find to work
    SampleRates     \* what the sample encodes may measure, in kbit/s

\* What a stored probe says (ffprobe/result.go), in the parts the policy looks at.
VideoStream ==
    [codec : STRING, profile : STRING, level : Int, pixFmt : STRING, order : STRING,
     pic : BOOLEAN, width : Int, height : Int, fps : Int, refs : Int, dv : Int,
     transfer : STRING, content : STRING, lang : STRING, flags : SUBSET STRING]
AudioStream ==
    [codec : STRING, channels : Int, content : STRING, lang : STRING, flags : SUBSET STRING]
SubtitleStream == [codec : STRING, content : STRING, lang : STRING, flags : SUBSET STRING]
AtPositions(streams, S) ==
    /\ DOMAIN streams \subseteq Nat /\ IsFiniteSet(DOMAIN streams)
    /\ streams \in [DOMAIN streams -> S]
ProbedFile(f) ==
    /\ AtPositions(f.video, VideoStream)
    /\ AtPositions(f.audio, AudioStream)
    /\ AtPositions(f.subtitle, SubtitleStream)
    /\ f \in [format : SUBSET STRING, ext : STRING, duration : Int, length : Int, size : Int,
              streamRate : Int, bpsTag : Int, overallRate : Int, audioRate : Int,
              formatRate : Int, video : {f.video}, audio : {f.audio}, subtitle : {f.subtitle}]

ASSUME SourcesAssumption == \A f \in Sources : ProbedFile(f)
\* What a stream carries stands for the stream: no two of one type carry the same.
ToldApart(streams) ==
    \A i, k \in DOMAIN streams : streams[i].content = streams[k].content => i = k
ASSUME ContentAssumption == \A f \in Sources : ToldApart(f.audio) /\ ToldApart(f.subtitle)
\* Every file lasts, and profile 5 of Dolby Vision is a profile of HEVC.
ASSUME PlayableAssumption ==
    \A f \in Sources :
        /\ f.length > 0
        /\ \A n \in DOMAIN f.video : f.video[n].dv = NoEncodeProfile => f.video[n].codec = "hevc"
ASSUME CachesAssumption == Caches \subseteq Cache
ASSUME WorksAssumption == Works \subseteq SUBSET Entries
ASSUME SampleRatesAssumption == SampleRates \subseteq Nat

VARIABLES
    source,         \* the file, as its stored probe describes it
    sweep,          \* the job's origin is the space sweep
    phase, why,     \* where the job is, and what failed it
    plan, owed,     \* the plan, and whether an idet sample is owed
    target,         \* the plan's TargetVideoBitrate
    caps, encoder, fellBack,            \* capabilities and the selection
    decodeRetried, forceSoftware,
    command,        \* what ffmpeg is given
    tried,          \* the attempts that failed
    row,            \* the columns UpdateJobExecution writes
    record,         \* the job's transform record
    output, finalOut,                   \* the staged file and ffmpeg's last out_time
    library         \* the file at the path the users see

planned == <<plan, owed, target>>
selection == <<caps, encoder, fellBack, decodeRetried, forceSoftware>>
ran == <<command, tried, row>>
result == <<output, finalOut>>
vars == <<source, sweep, phase, why, planned, selection, ran, record, result, library>>

NoPlan == [none |-> "plan"]
NoCommand == [none |-> "command"]
NoOutput == [none |-> "output"]
NoRecord == [none |-> "record"]
NoRow == [encoder |-> "", decode |-> "", fellBack |-> FALSE, finalOut |-> 0]
Device == "/dev/dri/renderD128"

Ended == {"done", "failed"}
Fail(reason) == phase' = "failed" /\ why' = reason
Go(next) == phase' = next /\ UNCHANGED why

-----------------------------------------------------------------------------
(* Planning. *)

JobPlan(f, idet) == IF sweep THEN ForceVideoEncode(Plan(f, idet)) ELSE Plan(f, idet)

\* What replan gives up on, in its order.
ReplanErrors(f, idet) ==
    {x \in {"novideo", "noaudio", "unforced", "skip"} :
        \/ x = "novideo" /\ NoVideoStream(f)
        \/ x = "noaudio" /\ ~NoVideoStream(f) /\ NoAudioStreams(f, idet)
        \/ x = "unforced" /\ ~NoVideoStream(f) /\ sweep /\ ~MayForce(Plan(f, idet))
        \/ x = "skip" /\ ~NoVideoStream(f) /\ ~NeedsWrite(JobPlan(f, idet))}

\* The target of an earlier plan survives.
Replan(idet) ==
    /\ ReplanErrors(source, idet) = {}
    /\ plan' = JobPlan(source, idet)
    /\ owed' = NeedsIdetSample(source, idet)
    /\ UNCHANGED target

ReplanFails(idet) ==
    /\ ReplanErrors(source, idet) # {}
    /\ Fail("replan") /\ UNCHANGED planned

Load ==
    /\ phase = "claimed"
    /\ \/ Replan(NoSample) /\ Go("bitrate")
       \/ ReplanFails(NoSample)
    /\ UNCHANGED <<source, sweep, selection, ran, record, result, library>>

\* A sample probe that fails leaves the formula.
ResolveBitrate ==
    /\ phase = "bitrate"
    /\ \/ ~EncodesVideo(plan) /\ UNCHANGED target
       \/ /\ EncodesVideo(plan)
          /\ \/ /\ Samples(source.duration) # {}
                /\ \E base \in SampleRates : target' = TargetFromSamples(base, BitrateInput(source))
             \/ target' = TargetFromFallback(BitrateInput(source))
    /\ Go("scan")
    /\ UNCHANGED <<source, sweep, plan, owed, selection, ran, record, result, library>>

\* A run that fails leaves the plan, which took the source as progressive.
IdetCounts == [tff : 0..1, bff : 0..1, progressive : 0..1]
ResolveScan ==
    /\ phase = "scan"
    /\ \/ ~owed /\ Go("select") /\ UNCHANGED planned
       \/ owed /\ Go("select") /\ UNCHANGED planned
       \/ /\ owed
          /\ \E multi, single \in IdetCounts :
                \/ Replan(ParseIdet(multi, single)) /\ Go("select")
                \/ ReplanFails(ParseIdet(multi, single))
    /\ UNCHANGED <<source, sweep, selection, ran, record, result, library>>

-----------------------------------------------------------------------------
(* The encoder, and the record of what is about to happen. *)

\* The cache answers when it is usable, and a probe of the hardware otherwise.
SelectEncoder ==
    /\ phase = "select"
    /\ \E cache \in Caches, works \in Works, samples \in {{}, DecodeProbes} :
        /\ caps' = Capabilities(cache, works, samples)
        /\ IF EncodesVideo(plan)
           THEN LET chosen == Select(caps', plan.hdr)
                IN  encoder' = chosen.encoder /\ fellBack' = chosen.fellBack
           ELSE UNCHANGED <<encoder, fellBack>>
    /\ record' = NewTransform(source, plan)
    /\ Go("encode")
    /\ UNCHANGED <<source, sweep, planned, decodeRetried, forceSoftware, ran, result, library>>

\* Neither a copy nor an encode starts without them.
CapabilitiesUnread ==
    /\ phase = "select" /\ Fail("capabilities")
    /\ UNCHANGED <<source, sweep, planned, selection, ran, record, result, library>>

Request ==
    [plan |-> plan, codec |-> Primary(source).codec, encoder |-> encoder, device |-> Device,
     target |-> target,
     forceSoftware |-> forceSoftware \/ ~DecodesOn(caps, encoder, Primary(source).codec)]

Execution(decode, out) ==
    [encoder |-> encoder, decode |-> decode, fellBack |-> fellBack, finalOut |-> out]

\* What runs is on the row before it runs.
Attempt ==
    /\ phase = "encode"
    /\ \/ BuildErrors(Request) # {} /\ Fail("build") /\ UNCHANGED <<command, row>>
       \/ /\ BuildErrors(Request) = {}
          /\ command' = Build(Request)
          /\ row' = Execution(command'.decode, finalOut)
          /\ Go("running")
    /\ UNCHANGED <<source, sweep, planned, selection, tried, record, result, library>>

-----------------------------------------------------------------------------
(* ffmpeg (external). *)

\* How an output may be damaged although ffmpeg ended well.
Faults == {"none", "short", "lostaudio", "lostsubtitle", "norecord", "level", "grown", "downmix"}
WithoutLast(streams) ==
    [n \in {i \in DOMAIN streams : i + 1 \in DOMAIN streams} |-> streams[n]]
OfVideo(f, field, value) == [f EXCEPT !.video = [n \in DOMAIN @ |-> [@[n] EXCEPT ![field] = value]]]
Damaged(f, out, fault) ==
    CASE fault = "none" -> out
      [] fault = "short" -> [out EXCEPT !.duration = @ \div 2]
      [] fault = "lostaudio" -> [out EXCEPT !.audio = WithoutLast(@)]
      [] fault = "lostsubtitle" -> [out EXCEPT !.subtitle = WithoutLast(@)]
      [] fault = "norecord" -> OfVideo(out, "dv", 0)
      [] fault = "level" -> OfVideo(out, "level", Primary(f).level)
      [] fault = "downmix" -> [out EXCEPT !.audio = [n \in DOMAIN @ |->
            IF command.audio[n].codec = "copy" THEN @[n] ELSE [@[n] EXCEPT !.channels = 1]]]
      [] fault = "grown" -> [out EXCEPT !.size = f.size + 1]

-----------------------------------------------------------------------------
(* How an attempt ends. *)

EncodeEnds ==
    /\ phase = "running"
    /\ \E fault \in Faults :
        /\ output' = Damaged(source, FFmpeg(source, command), fault)
        /\ finalOut' = source.length
        /\ row' = Execution(command.decode, finalOut')
    /\ Go("verifying")
    /\ UNCHANGED <<source, sweep, planned, selection, command, tried, record, library>>

EncodeFails ==
    /\ phase = "running"
    /\ tried' = Append(tried, <<encoder, command.decode>>)
    /\ Go("stepback")
    /\ UNCHANGED <<source, sweep, planned, selection, command, row, record, result, library>>

\* The end of the chain not noticed.
StepBackForEver ==
    /\ phase = "stepback"
    /\ LET retry == RetryInSoftware(command.decode, decodeRetried)
           next == IF EncodesVideo(plan) THEN NextEncoder(caps, encoder, plan.hdr) ELSE {}
       IN  /\ IF retry
              THEN decodeRetried' = TRUE /\ forceSoftware' = TRUE /\ UNCHANGED encoder
              ELSE /\ encoder' \in next
                   /\ decodeRetried' = FALSE /\ forceSoftware' = FALSE
           /\ fellBack' = TRUE /\ Go("encode")
    /\ UNCHANGED <<source, sweep, planned, caps, ran, record, result, library>>

\* Decoding in software comes before the next encoder, which arms it again.
StepBack ==
    /\ phase = "stepback"
    /\ LET retry == RetryInSoftware(command.decode, decodeRetried)
           next == IF EncodesVideo(plan) THEN NextEncoder(caps, encoder, plan.hdr) ELSE {}
       IN  \/ /\ retry
              /\ decodeRetried' = TRUE /\ forceSoftware' = TRUE /\ fellBack' = TRUE
              /\ UNCHANGED encoder
              /\ Go("encode")
           \/ /\ ~retry /\ encoder' \in next
              /\ decodeRetried' = FALSE /\ forceSoftware' = FALSE /\ fellBack' = TRUE
              /\ Go("encode")
           \/ /\ ~retry /\ next = {}
              /\ Fail("exhausted")
              /\ UNCHANGED <<encoder, fellBack, decodeRetried, forceSoftware>>
    /\ UNCHANGED <<source, sweep, planned, caps, ran, record, result, library>>

\* The output takes the source's place, and the record what was measured of it.
Finalise ==
    /\ phase = "verifying"
    /\ \/ /\ Verified(source, plan, output, finalOut)
          /\ library' = output
          /\ record' = MergeMeasured(record, plan, output)
          /\ Go("done")
       \/ /\ ~Verified(source, plan, output, finalOut)
          /\ Fail("verify")
          /\ UNCHANGED <<library, record>>
    /\ UNCHANGED <<source, sweep, planned, selection, ran, result>>

Init ==
    /\ source \in Sources /\ sweep \in BOOLEAN
    /\ phase = "claimed" /\ why = ""
    /\ plan = NoPlan /\ owed = FALSE /\ target = 0
    /\ caps = {} /\ encoder = "" /\ fellBack = FALSE
    /\ decodeRetried = FALSE /\ forceSoftware = FALSE
    /\ command = NoCommand /\ tried = <<>> /\ row = NoRow
    /\ record = NoRecord
    /\ output = NoOutput /\ finalOut = 0
    /\ library = source

Next ==
    \/ Load \/ ResolveBitrate \/ ResolveScan \/ SelectEncoder \/ CapabilitiesUnread
    \/ Attempt \/ EncodeEnds \/ EncodeFails \/ StepBack \/ Finalise

Spec == Init /\ [][Next]_vars

\* The worker goes on by itself, and every ffmpeg ends.
FairSpec == Spec /\ WF_vars(Next)

-----------------------------------------------------------------------------
(* Properties. *)

Done == phase = "done"

\* The worker's own record of a job is well formed at every step of it.
TypeOK ==
    /\ source \in Sources /\ sweep \in BOOLEAN
    /\ phase \in {"claimed", "bitrate", "scan", "select", "encode", "running", "stepback",
                  "verifying"} \union Ended
    /\ why \in {"", "replan", "capabilities", "build", "exhausted", "verify"} /\ (why # "" <=> phase = "failed")
    /\ owed \in BOOLEAN /\ target \in Int
    /\ caps \subseteq Entries /\ encoder \in Encoders \union {""}
    /\ fellBack \in BOOLEAN /\ decodeRetried \in BOOLEAN /\ forceSoftware \in BOOLEAN
    /\ tried \in Seq((Encoders \union {""}) \X {"hardware", "software"})

\* What a job has written, the next scan passes over: the policy plans nothing
\* for its own output, whatever ffmpeg did wrong on the way (engine.go, the copy
\* tests, the encode targets and verify.go agree; otherwise a file is transcoded
\* at every scan).
OutputComplies ==
    Done => /\ ~NeedsIdetSample(library, NoSample)
            /\ ~NeedsWrite(Plan(library, NoSample))

\* Every stream that is not dropped is in the library afterwards, with its language
\* and its dispositions and in its order: all audio, and the subtitles that are text
\* (argv.go's maps and options, engine.go's output indices, verify.go).  Dolby Vision
\* of profile 5 has no base layer to fall back on: no job loses its record, forced
\* by a sweep or not (video.go, engine.go ForceVideoEncode, argv.go).
Named(s) == <<s.content, s.lang, s.flags>>
Order(streams, S) ==
    {<<Named(streams[x[1]]), Named(streams[x[2]])>> : x \in {y \in S \X S : y[1] <= y[2]}}
Texts(f) == {i \in DOMAIN f.subtitle : f.subtitle[i].codec \in TextSubtitles}
KeepsStreams ==
    Done =>
        /\ Order(library.audio, DOMAIN library.audio) = Order(source.audio, DOMAIN source.audio)
        /\ Order(library.subtitle, DOMAIN library.subtitle) = Order(source.subtitle, Texts(source))
        /\ ~NoVideoStream(source) /\ Primary(source).dv = NoEncodeProfile =>
              Primary(library).dv = NoEncodeProfile

\* The transform record says of every source stream what became of that very
\* stream (transform.go looks it up by its place in the output); and when ffmpeg did
\* as it was told, measuring changes nothing of what was predicted from the plan
\* before it ran, but for the level nobody could know.
CameFrom(streams, s) == {k \in DOMAIN streams : streams[k].content = s.content}
Measured == MergeMeasured(record, plan, output)
RecordNamesOutput ==
    /\ phase = "verifying" /\ output = FFmpeg(source, command) =>
        Measured = IF EncodesVideo(plan)
                   THEN [record EXCEPT !.video.level = Measured.video.level] ELSE record
    /\ Done =>
        /\ record.video = VideoState(Primary(library), ScanOfStream(Primary(library)))
        /\ \A i \in DOMAIN source.audio :
              \A k \in CameFrom(library.audio, source.audio[i]) :
                 record.audio[i] = AudioState(library.audio[k])
        /\ \A i \in DOMAIN source.subtitle :
              LET at == CameFrom(library.subtitle, source.subtitle[i])
              IN  /\ at = {} => record.subtitle[i] = "none"
                  /\ \A k \in at : record.subtitle[i] = library.subtitle[k].codec

\* No pair of encoder and decode path runs twice in a job, and a job that encodes
\* gives up only when the software encoder, which needs no device, has failed as
\* well, whatever a stale cache says of the hardware (execute.go stepBack); and what
\* runs is what the row says, which says it fell back exactly when the first choice
\* was not what ran (recordExecution).
FallbackIsExhaustive ==
    /\ \A i, k \in DOMAIN tried : tried[i] = tried[k] => i = k
    /\ why = "exhausted" /\ EncodesVideo(plan) =>
          \E i \in DOMAIN tried : tried[i] = <<Software, "software">>
    /\ phase \in {"running", "verifying", "done"} =>
          /\ row.decode = command.decode
          /\ EncodesVideo(plan) =>
                /\ row.encoder = command.encoder
                /\ row.fellBack <=> row.encoder # "hevc_qsv" \/ tried # <<>>

\* What ffmpeg is given can be encoded: the frames are where each filter and the
\* encoder need them, on every decode path the fallbacks lead to (argv.go
\* videoFilters), and the target is between the floor and the ceiling of the picture
\* size, and at most 85% of the source's rate unless the floor is above that, also
\* after the second planning of a job (bitrate.go, execute.go resolveScan).
EncoderIsFed ==
    phase \in {"running", "verifying", "done"} /\ EncodesVideo(plan) =>
        LET r == ResolutionOf(Primary(source).width)
            rate == SourceBitrate(source)
        IN  /\ Flows(command)
            /\ command.rate.target \in Floor[r] .. Ceiling[r]
            /\ rate > 0 => command.rate.target <= Most((rate * 85) \div 100, Floor[r])

\* Whatever ffmpeg does, the job ends: the chain of fallbacks is finite.
JobEnds == <>(phase \in Ended)

\* An output ffmpeg wrote as it was told passes verification, but for one case:
\* two audio streams with a subtitle after them.  The engine numbers a kept stream
\* among those of its type, verify.go sorts the numbers of all types together, and
\* expects the subtitle where the second audio stream is.
Mixed(p) == Cardinality(Kept(p.audio)) > 1 /\ Kept(p.subtitle) # {}
TrueHeader(f) == IsLegacyContainer(f) \/ f.duration = f.length
SoundOutputPasses ==
    phase = "verifying" /\ TrueHeader(source) /\ output = FFmpeg(source, command) =>
        (Verified(source, plan, output, finalOut) <=> ~Mixed(plan))
=============================================================================
