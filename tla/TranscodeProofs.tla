-------------------------- MODULE TranscodeProofs --------------------------
(***************************************************************************)
(* A job from its claim to its promotion, for any files the policy may be  *)
(* asked about, any capability caches and any hardware.                    *)
(*                                                                         *)
(* The fallbacks descend: each attempt is of a higher rank than all that   *)
(* failed, and the chain is left only behind the software encoder. So a    *)
(* job has a bound on its steps, and only fairness is missing for it to    *)
(* end. The target is in the band of the picture, whatever sample or       *)
(* formula it comes from, before and after the second planning.            *)
(*                                                                         *)
(* An output complies: what ffmpeg writes for a plan is a file for which   *)
(* the same policy plans nothing, stream by stream and type by type, and   *)
(* what the checks let through of a damaged output is enough for that.     *)
(*                                                                         *)
(* Streams keep their order: an output index and the position a stream     *)
(* came from are inverse to one another, on the streams that are kept, and *)
(* both ascend. The record finds its streams by those indices, and the     *)
(* content of the streams tells that it found the right ones.              *)
(*                                                                         *)
(* An undamaged output passes the checks exactly if the positions the plan *)
(* expects, sorted over all types, are those of the file: if there is one  *)
(* audio stream at most, or no subtitle.                                   *)
(***************************************************************************)
EXTENDS Transcode, FiniteSetTheorems, SequenceTheorems, WellFoundedInduction, TLAPS

-----------------------------------------------------------------------------
(* The positions of streams. *)

LEMMA LeastOf ==
    ASSUME NEW S \in SUBSET Nat, S # {}
    PROVE  \E m \in S : \A n \in S : m <= n
  <1> DEFINE R == {ss \in Nat \X Nat : ss[1] < ss[2]}
  <1>1. IsWellFoundedOn(R, Nat)
    BY NatLessThanWellFounded DEF OpToRel
  <1>2. \A n \in Nat, m \in Nat : <<n, m>> \in R <=> n < m
    OBVIOUS
  <1> HIDE DEF R
  <1>3. PICK m \in S : \A n \in S : <<n, m>> \notin R
    BY <1>1, WFMin
  <1>4. ASSUME NEW n \in S PROVE m <= n
    <2>1. n \in Nat /\ m \in Nat /\ ~(n < m)
      BY <1>2, <1>3
    <2> QED
      BY <2>1
  <1> QED
    BY <1>4

\* The stream the policy looks at is the first that is no cover.
LEMMA PrimaryIsFirst ==
    ASSUME NEW f, ProbedFile(f), ~NoVideoStream(f)
    PROVE  /\ PrimaryVideo(f) \in DOMAIN f.video /\ PrimaryVideo(f) \in Watchable(f)
           /\ \A k \in Watchable(f) : PrimaryVideo(f) <= k
           /\ Primary(f) \in VideoStream
  <1>1. Watchable(f) \in SUBSET Nat /\ Watchable(f) # {}
    BY DEF ProbedFile, AtPositions, Watchable, NoVideoStream
  <1>2. \E i \in Watchable(f) : \A k \in Watchable(f) : i <= k
    BY <1>1, LeastOf
  <1>3. PrimaryVideo(f) \in Watchable(f) /\ \A k \in Watchable(f) : PrimaryVideo(f) <= k
    BY <1>2 DEF PrimaryVideo
  <1>4. PrimaryVideo(f) \in DOMAIN f.video
    BY <1>3 DEF Watchable
  <1> QED
    BY <1>3, <1>4 DEF Primary, ProbedFile, AtPositions

-----------------------------------------------------------------------------
(* The target bitrate. *)

\* What a target may be for a file.
InBand(t, f) ==
    LET r == ResolutionOf(Primary(f).width)
        rate == SourceBitrate(f)
    IN  /\ t \in Floor[r] .. Ceiling[r]
        /\ rate > 0 => t <= Most((rate * 85) \div 100, Floor[r])

LEMMA Tiers ==
    ASSUME NEW w
    PROVE  LET r == ResolutionOf(w)
           IN  Floor[r] \in Nat /\ Ceiling[r] \in Nat /\ 0 < Floor[r] /\ Floor[r] <= Ceiling[r]
  <1>1. ResolutionOf(w) \in {"576p", "720p", "1080p", "1440p", "2160p"}
    BY DEF ResolutionOf
  <1>2. \A r \in {"576p", "720p", "1080p", "1440p", "2160p"} :
           Floor[r] \in Nat /\ Ceiling[r] \in Nat /\ 0 < Floor[r] /\ Floor[r] <= Ceiling[r]
    <2>1. /\ Floor["576p"] = 800 /\ Floor["720p"] = 1500 /\ Floor["1080p"] = 2500
          /\ Floor["1440p"] = 4000 /\ Floor["2160p"] = 8000
      BY DEF Floor
    <2>2. DOMAIN Floor = {"576p", "720p", "1080p", "1440p", "2160p"}
      BY DEF Floor
    <2>3. /\ Ceiling["576p"] = 2500 /\ Ceiling["720p"] = 4000 /\ Ceiling["1080p"] = 8000
          /\ Ceiling["1440p"] = 12000 /\ Ceiling["2160p"] = 20000
      BY <2>2 DEF Ceiling
    <2> QED
      BY <2>1, <2>3
  <1> QED
    BY <1>1, <1>2

LEMMA RateIsInt == ASSUME NEW f, ProbedFile(f) PROVE SourceBitrate(f) \in Int
  <1>1. /\ f.streamRate \in Int /\ f.bpsTag \in Int /\ f.overallRate \in Int
        /\ f.audioRate \in Int /\ f.formatRate \in Int
    BY DEF ProbedFile
  <1>2. (f.overallRate * 98) \div 100 - f.audioRate \in Int
    BY <1>1
  <1> QED
    BY <1>1, <1>2 DEF SourceBitrate

\* Clamping brings any target into the band.
LEMMA Clamped ==
    ASSUME NEW f, ProbedFile(f), NEW t \in Int
    PROVE  Clamp(t, BitrateInput(f)) \in Int /\ InBand(Clamp(t, BitrateInput(f)), f)
  <1>1. PICK rate \in Int : rate = SourceBitrate(f)
    BY RateIsInt
  <1>2. PICK low \in Nat, high \in Nat :
           /\ low = Floor[ResolutionOf(Primary(f).width)]
           /\ high = Ceiling[ResolutionOf(Primary(f).width)] /\ low <= high
    BY Tiers
  <1>3. PICK most \in Int : most = (rate * 85) \div 100
    OBVIOUS
  <1>4. /\ BitrateInput(f).source = rate /\ BitrateInput(f).width = Primary(f).width
    BY <1>1 DEF BitrateInput
  <1>5. Clamp(t, BitrateInput(f)) =
           Least(Most(IF rate > 0 THEN Least(t, most) ELSE t, low), high)
    BY <1>2, <1>3, <1>4 DEF Clamp
  <1>6. PICK c \in Int : c = Clamp(t, BitrateInput(f))
    BY <1>5 DEF Least, Most
  <1>7. c \in low .. high /\ (rate > 0 => c <= Most(most, low))
    BY <1>2, <1>5, <1>6 DEF Least, Most
  <1> QED
    BY <1>1, <1>2, <1>3, <1>6, <1>7 DEF InBand

LEMMA FormulaIsInt ==
    ASSUME NEW f, ProbedFile(f), ~NoVideoStream(f)
    PROVE  FallbackBitrate(BitrateInput(f)) \in Int
  <1> DEFINE in == BitrateInput(f)
  <1>1. /\ in.width \in Int /\ in.height \in Int /\ in.fps \in Int
        /\ BPP(ResolutionOf(in.width)) \in Int
    <2>1. in.width = Primary(f).width /\ in.height = Primary(f).height /\ in.fps = Primary(f).fps
      BY DEF BitrateInput
    <2> QED
      BY <2>1, PrimaryIsFirst DEF VideoStream, BPP
  <1>2. PICK w \in Int, h \in Int, fps \in Int, b \in Int :
           w = in.width /\ h = in.height /\ fps = in.fps /\ b = BPP(ResolutionOf(in.width))
    BY <1>1
  <1> HIDE DEF in
  <1>3. PICK flat \in Int : flat = (((w * h) \div 1000) * fps * b) \div 1000
    <2>1. PICK a \in Int : a = (w * h) \div 1000
      OBVIOUS
    <2> QED
      BY <2>1
  <1>4. PICK fast \in Int :
           fast = IF fps > 30 THEN (flat * Least(fps * 10, 384)) \div 240 ELSE flat
    <2>1. Least(fps * 10, 384) \in Int
      BY DEF Least
    <2>2. PICK l \in Int : l = Least(fps * 10, 384)
      BY <2>1
    <2> QED
      BY <2>2
  <1>5. FallbackBitrate(in) = IF in.hdr THEN (fast * 5) \div 4 ELSE fast
    BY <1>2, <1>3, <1>4 DEF FallbackBitrate
  <1> QED
    BY <1>5 DEF in

-----------------------------------------------------------------------------
(* The command, and where its frames are. *)

\* A request as the worker makes it: a backend decodes on the device or in memory,
\* libx265 in memory.
LEMMA CommandParts ==
    ASSUME NEW r
    PROVE  /\ Build(r).decode = DecodePath(r) /\ DecodePath(r) \in {"hardware", "software"}
           /\ Build(r).encoder = IF EncodesVideo(r.plan) THEN r.encoder ELSE ""
           /\ ~EncodesVideo(r.plan) \/ r.forceSoftware \/ r.encoder = Software =>
                 DecodePath(r) = "software"
           /\ EncodesVideo(r.plan) =>
                 /\ Build(r).rate = RateControl(r.target)
                 /\ Build(r).filters = VideoFilters(r)
  BY DEF Build, VideoArgs, DecodePath

LEMMA Joined == ASSUME NEW a, NEW b PROVE <<a>> \o <<b>> = <<a, b>>
  <1> DEFINE S == {a, b}
             s == <<a>>
             t == <<b>>
  <1>1. s \in Seq(S) /\ t \in Seq(S) /\ <<a, b>> \in Seq(S)
    OBVIOUS
  <1>2. Len(s) = 1 /\ Len(t) = 1 /\ s[1] = a /\ t[1] = b
    OBVIOUS
  <1>3. Len(<<a, b>>) = 2 /\ <<a, b>>[1] = a /\ <<a, b>>[2] = b
    OBVIOUS
  <1> HIDE DEF s, t
  <1>4. /\ s \o t \in Seq(S) /\ Len(s \o t) = 2
        /\ \A i \in 1 .. 2 : (s \o t)[i] = IF i <= 1 THEN s[i] ELSE t[i - 1]
    <2>1. /\ s \o t \in Seq(S) /\ Len(s \o t) = Len(s) + Len(t)
          /\ \A i \in 1 .. (Len(s) + Len(t)) :
                (s \o t)[i] = IF i <= Len(s) THEN s[i] ELSE t[i - Len(s)]
      BY <1>1, ConcatProperties
    <2>2. Len(s) + Len(t) = 2
      BY <1>2
    <2> QED
      BY <1>2, <2>1, <2>2
  <1>5. \A i \in 1 .. 2 : (s \o t)[i] = <<a, b>>[i]
    <2>1. (s \o t)[1] = a /\ (s \o t)[2] = b
      BY <1>2, <1>4
    <2>2. \A i \in 1 .. 2 : i = 1 \/ i = 2
      OBVIOUS
    <2> QED
      BY <1>3, <2>1, <2>2
  <1>6. s \o t = <<a, b>>
    BY <1>1, <1>3, <1>4, <1>5, SeqEqual
  <1> QED
    BY <1>6 DEF s, t

\* Where the frames of a command start and have to end.
Start(c) == IF c.decode = "hardware" THEN c.encoder ELSE "memory"
End(c) == IF c.encoder = Software THEN "memory" ELSE c.encoder

LEMMA FlowsThroughNone ==
    ASSUME NEW c, c.filters = <<>>, Start(c) = End(c)
    PROVE  Flows(c)
  <1>1. Len(c.filters) = 0 /\ 2 .. 0 = {}
    OBVIOUS
  <1> QED
    BY <1>1 DEF Flows, Start, End

LEMMA FlowsThroughOne ==
    ASSUME NEW c, NEW a, c.filters = <<a>>, Takes(a) = Start(c), Leaves(a, c.encoder) = End(c)
    PROVE  Flows(c)
  <1>1. Len(c.filters) = 1 /\ c.filters[1] = a /\ 2 .. 1 = {}
    OBVIOUS
  <1> QED
    BY <1>1 DEF Flows, Start, End

LEMMA FlowsThroughTwo ==
    ASSUME NEW c, NEW a, NEW b, c.filters = <<a, b>>, Takes(a) = Start(c),
           Takes(b) = Leaves(a, c.encoder), Leaves(b, c.encoder) = End(c)
    PROVE  Flows(c)
  <1>1. Len(c.filters) = 2 /\ c.filters[1] = a /\ c.filters[2] = b
    OBVIOUS
  <1>2. \A i \in 2 .. 2 : i = 2 /\ i - 1 = 1
    OBVIOUS
  <1>3. \A i \in 2 .. 2 : Takes(c.filters[i]) = Leaves(c.filters[i - 1], c.encoder)
    BY <1>1, <1>2
  <1> QED
    BY <1>1, <1>3 DEF Flows, Start, End

LEMMA CommandFlows ==
    ASSUME NEW r, EncodesVideo(r.plan), r.encoder \in Encoders
    PROVE  Flows(Build(r))
  <1> DEFINE c == Build(r)
             deinterlacer == IF DecodePath(r) # "hardware" THEN "bwdif"
                             ELSE IF r.encoder = "hevc_vaapi" THEN "deinterlace_vaapi" ELSE "vpp_qsv"
             upload == DecodePath(r) # "hardware" /\ r.encoder # Software
  <1>1. /\ c.decode = DecodePath(r) /\ c.encoder = r.encoder /\ c.filters = VideoFilters(r)
        /\ r.encoder = Software => c.decode = "software"
        /\ c.decode \in {"hardware", "software"}
    BY CommandParts
  <1>2. c.filters = (IF r.plan.deinterlace THEN <<deinterlacer>> ELSE <<>>)
                    \o (IF upload THEN <<"hwupload">> ELSE <<>>)
    BY <1>1 DEF VideoFilters
  <1>3. /\ Takes("bwdif") = "memory" /\ Takes("hwupload") = "memory"
        /\ Takes("vpp_qsv") = "hevc_qsv" /\ Takes("deinterlace_vaapi") = "hevc_vaapi"
    BY DEF Takes
  <1>4. \A e : /\ Leaves("hwupload", e) = e /\ Leaves("bwdif", e) = "memory"
               /\ Leaves("vpp_qsv", e) = "hevc_qsv"
               /\ Leaves("deinterlace_vaapi", e) = "hevc_vaapi"
    BY <1>3 DEF Leaves
  <1>5. /\ <<"bwdif">> \o <<"hwupload">> = <<"bwdif", "hwupload">>
        /\ <<>> \o <<"hwupload">> = <<"hwupload">> /\ <<>> \o <<>> = <<>>
        /\ <<deinterlacer>> \o <<>> = <<deinterlacer>>
    BY Joined
  <1>6. /\ upload => deinterlacer = "bwdif" /\ c.decode # "hardware" /\ c.encoder # Software
        /\ ~upload => IF c.decode = "hardware"
                      THEN /\ c.encoder \in {"hevc_qsv", "hevc_vaapi"} /\ c.encoder # Software
                           /\ Takes(deinterlacer) = c.encoder
                           /\ Leaves(deinterlacer, c.encoder) = c.encoder
                      ELSE c.encoder = Software /\ deinterlacer = "bwdif"
    BY <1>1, <1>3, <1>4 DEF Encoders, Software
  <1> HIDE DEF c, deinterlacer, upload
  <1>7. CASE upload
    <2>1. Start(c) = "memory" /\ End(c) = c.encoder
      BY <1>6, <1>7 DEF Start, End
    <2>2. CASE r.plan.deinterlace
      <3>1. c.filters = <<"bwdif", "hwupload">>
        BY <1>2, <1>5, <1>6, <1>7, <2>2
      <3> QED
        BY <1>3, <1>4, <2>1, <3>1, FlowsThroughTwo DEF c
    <2>3. CASE ~r.plan.deinterlace
      <3>1. c.filters = <<"hwupload">>
        BY <1>2, <1>5, <1>7, <2>3
      <3> QED
        BY <1>3, <1>4, <2>1, <3>1, FlowsThroughOne DEF c
    <2> QED
      BY <2>2, <2>3
  <1>8. CASE ~upload
    <2>1. /\ Start(c) = End(c) /\ Takes(deinterlacer) = Start(c)
          /\ Leaves(deinterlacer, c.encoder) = End(c)
      BY <1>3, <1>4, <1>6, <1>8 DEF Start, End
    <2>2. CASE r.plan.deinterlace
      <3>1. c.filters = <<deinterlacer>>
        BY <1>2, <1>5, <1>8, <2>2
      <3> QED
        BY <2>1, <3>1, FlowsThroughOne DEF c
    <2>3. CASE ~r.plan.deinterlace
      <3>1. c.filters = <<>>
        BY <1>2, <1>5, <1>8, <2>3
      <3> QED
        BY <2>1, <3>1, FlowsThroughNone DEF c
    <2> QED
      BY <2>2, <2>3
  <1> QED
    BY <1>7, <1>8 DEF c

-----------------------------------------------------------------------------
(* The chain of attempts.  Every attempt that fails is followed by one further *)
(* down the chain: the same encoder with the frames in memory, or the next     *)
(* encoder.                                                                     *)

Rank(e, d) ==
    (CASE e = "hevc_qsv" -> 0 [] e = "hevc_vaapi" -> 2 [] OTHER -> 4)
    + (IF d = "software" THEN 1 ELSE 0)

LEMMA RankIsNat == ASSUME NEW e, NEW d PROVE Rank(e, d) \in Nat
  BY DEF Rank

LEMMA MemoryIsFurther ==
    ASSUME NEW e
    PROVE  Rank(e, "hardware") + 1 = Rank(e, "software")
  BY DEF Rank

LEMMA NextIsFurther ==
    ASSUME NEW c, NEW e, NEW hdr, NEW n \in NextEncoder(c, e, hdr), NEW d, NEW k
    PROVE  n \in Encoders /\ Rank(e, d) < Rank(n, k)
  <1>1. \/ e = "hevc_qsv" /\ n = "hevc_vaapi"
        \/ e \in Backends /\ n = Software
    BY DEF NextEncoder
  <1>2. e = "hevc_qsv" \/ (e = "hevc_vaapi" /\ n = Software)
    BY <1>1 DEF Backends
  <1>3. n \in {"hevc_vaapi", Software}
    BY <1>1
  <1> QED
    BY <1>1, <1>2, <1>3 DEF Rank, Encoders, Software

LEMMA NothingBelowSoftware ==
    ASSUME NEW c, NEW e \in Encoders, NEW hdr, NextEncoder(c, e, hdr) = {}
    PROVE  e = Software
  BY DEF NextEncoder, Backends, Encoders, Software

LEMMA SelectedIsEncoder ==
    ASSUME NEW c, NEW hdr
    PROVE  /\ Select(c, hdr).encoder \in Encoders
           /\ Select(c, hdr).fellBack = (Select(c, hdr).encoder # "hevc_qsv")
  BY DEF Select, Selection, Encoders

LEMMA CapabilitiesAreEntries ==
    ASSUME NEW cache \in Caches, NEW works \in Works, NEW samples
    PROVE  Capabilities(cache, works, samples) \subseteq Entries
  <1>1. cache.works \subseteq Entries
    BY CachesAssumption DEF Cache
  <1>2. Probed(works, samples) \subseteq Entries
    BY WorksAssumption DEF Probed
  <1> QED
    BY <1>1, <1>2 DEF Capabilities

-----------------------------------------------------------------------------
(* The invariant. *)

Begun == {"bitrate", "scan", "select", "encode", "running", "stepback", "verifying", "done"}
Chosen == {"encode", "running", "stepback", "verifying", "done"}
Launched == {"running", "stepback", "verifying", "done"}
Shown == {"running", "verifying", "done"}

\* A job goes on only with a picture to look at, and its target fits it.
PictureKnown ==
    /\ phase \in Begun => ~NoVideoStream(source)
    /\ target # 0 => ~NoVideoStream(source) /\ InBand(target, source)

\* What runs is what was asked for, and the row says it.
AsRequested ==
    /\ phase \in Launched => command = Build(Request) /\ BuildErrors(Request) = {}
    /\ phase \in Shown => row = Execution(command.decode, finalOut)

\* Which encoder an attempt is about, and whether it is the first choice.
EncoderKnown ==
    /\ decodeRetried = forceSoftware
    /\ phase \in (Begun \ Chosen) \union {"claimed"} => tried = <<>> /\ ~forceSoftware
    /\ phase \in Chosen /\ EncodesVideo(plan) => encoder \in Encoders
    /\ phase \in Chosen \ {"stepback"} /\ EncodesVideo(plan) =>
          (fellBack <=> encoder # "hevc_qsv" \/ tried # <<>>)

\* What failed is higher in the chain than what comes next.
Above(rank) == \A i \in DOMAIN tried : Rank(tried[i][1], tried[i][2]) < rank
ChainDescends ==
    /\ \A i, k \in DOMAIN tried :
          i < k => Rank(tried[i][1], tried[i][2]) < Rank(tried[k][1], tried[k][2])
    /\ phase = "encode" => Above(Rank(encoder, IF forceSoftware THEN "software" ELSE "hardware"))
    /\ phase = "running" => Above(Rank(encoder, command.decode))
    /\ phase = "stepback" =>
          /\ Above(Rank(encoder, command.decode) + 1)
          /\ \E i \in DOMAIN tried : tried[i] = <<encoder, command.decode>>

\* The end of the chain is the software encoder.
EndReached ==
    why = "exhausted" /\ EncodesVideo(plan) =>
        \E i \in DOMAIN tried : tried[i] = <<Software, "software">>

TInv == TypeOK /\ PictureKnown /\ AsRequested /\ EncoderKnown /\ ChainDescends /\ EndReached

LEMMA SampleIsBoolean == ASSUME NEW f, NEW idet PROVE NeedsIdetSample(f, idet) \in BOOLEAN
  <1>1. IdetPending(Primary(f), idet) \in BOOLEAN
    BY DEF IdetPending
  <1> QED
    BY <1>1 DEF NeedsIdetSample, Verdict, PlanVideo, VideoVerdict

LEMMA ReplanNeedsPicture ==
    ASSUME NEW idet, Replan(idet)
    PROVE  /\ ~NoVideoStream(source) /\ owed' \in BOOLEAN /\ target' = target
           /\ plan' = JobPlan(source, idet) /\ owed' = NeedsIdetSample(source, idet)
           /\ ReplanErrors(source, idet) = {}
  <1>1. ReplanErrors(source, idet) = {}
    BY DEF Replan
  <1>2. ~NoVideoStream(source)
    <2>1. "novideo" \notin ReplanErrors(source, idet)
      BY <1>1
    <2> QED
      BY <2>1 DEF ReplanErrors
  <1> QED
    BY <1>1, <1>2, SampleIsBoolean DEF Replan

LEMMA TInit == Init => TInv
  <1> SUFFICES ASSUME Init PROVE TInv
    OBVIOUS
  <1>1. tried = <<>>
    BY DEF Init
  <1>2. TypeOK
    <2>1. tried \in Seq((Encoders \union {""}) \X {"hardware", "software"})
      BY <1>1, EmptySeq
    <2>2. /\ source \in Sources /\ sweep \in BOOLEAN /\ phase = "claimed" /\ why = ""
          /\ owed = FALSE /\ target = 0 /\ caps = {} /\ encoder = "" /\ fellBack = FALSE
          /\ decodeRetried = FALSE /\ forceSoftware = FALSE
      BY DEF Init
    <2>3. caps \subseteq Entries /\ encoder \in Encoders \union {""}
      BY <2>2
    <2>4. /\ phase \in {"claimed", "bitrate", "scan", "select", "encode", "running", "stepback",
                        "verifying"} \union Ended
          /\ why \in {"", "replan", "capabilities", "build", "exhausted", "verify"}
          /\ (why # "" <=> phase = "failed")
      BY <2>2
    <2>5. /\ source \in Sources /\ sweep \in BOOLEAN /\ owed \in BOOLEAN
          /\ fellBack \in BOOLEAN /\ decodeRetried \in BOOLEAN /\ forceSoftware \in BOOLEAN
      BY <2>2, Zenon
    <2>6. target \in Int
      <3>1. target = 0
        BY <2>2
      <3> QED
        BY <3>1
    <2> QED
      BY <2>1, <2>3, <2>4, <2>5, <2>6 DEF TypeOK
  <1>3. DOMAIN tried = {}
    BY <1>1
  <1> QED
    BY <1>2, <1>3 DEF Init, TInv, PictureKnown, AsRequested, EncoderKnown, ChainDescends,
       EndReached, Begun, Chosen, Launched, Shown

LEMMA TLoad == ASSUME TInv, Load PROVE TInv'
  <1>1. CASE Replan(NoSample) /\ Go("bitrate")
    <2>1. ~NoVideoStream(source) /\ owed' \in BOOLEAN /\ target' = target
      BY <1>1, ReplanNeedsPicture
    <2> QED
      BY <1>1, <2>1 DEF Load, Go, TInv, TypeOK, PictureKnown, AsRequested, EncoderKnown,
         ChainDescends, EndReached, Begun, Chosen, Launched, Shown, selection, ran, result, Ended,
         Above
  <1>2. CASE ReplanFails(NoSample)
    BY <1>2 DEF Load, ReplanFails, Fail, TInv, TypeOK, PictureKnown, AsRequested, EncoderKnown,
       ChainDescends, EndReached, Begun, Chosen, Launched, Shown, selection, ran, result, planned,
       Ended, Above
  <1> QED
    BY <1>1, <1>2 DEF Load

LEMMA TResolveBitrate == ASSUME TInv, ResolveBitrate PROVE TInv'
  <1>1. ~NoVideoStream(source) /\ ProbedFile(source) /\ phase = "bitrate" /\ Go("scan")
        /\ source' = source
    BY SourcesAssumption DEF ResolveBitrate, TInv, TypeOK, PictureKnown, Begun
  <1>2. target' \in Int /\ (target' \in {0, target} \/ InBand(target', source))
    <2>1. CASE UNCHANGED target
      BY <2>1 DEF TInv, TypeOK
    <2>2. ASSUME NEW base \in SampleRates,
                 target' = TargetFromSamples(base, BitrateInput(source))
          PROVE  target' \in Int /\ (target' = 0 \/ InBand(target', source))
      <3>1. PICK t \in Int : t = (base * 5) \div 4
        BY SampleRatesAssumption
      <3>2. target' = 0 \/ target' = Clamp(t, BitrateInput(source))
        BY <2>2, <3>1 DEF TargetFromSamples
      <3> QED
        BY <1>1, <3>2, Clamped
    <2>3. CASE target' = TargetFromFallback(BitrateInput(source))
      BY <1>1, <2>3, FormulaIsInt, Clamped DEF TargetFromFallback
    <2> QED
      BY <2>1, <2>2, <2>3 DEF ResolveBitrate
  <1>3. /\ InBand(target, source)' <=> InBand(target', source)
        /\ NoVideoStream(source)' <=> NoVideoStream(source)
    BY <1>1
  <1> QED
    BY <1>1, <1>2, <1>3 DEF ResolveBitrate, Go, TInv, TypeOK, PictureKnown, AsRequested,
       EncoderKnown, ChainDescends, EndReached, Begun, Chosen, Launched, Shown, selection, ran,
       result, Ended, Above

LEMMA TResolveScan == ASSUME TInv, ResolveScan PROVE TInv'
  <1>1. phase = "scan" /\ ~NoVideoStream(source)
    BY DEF ResolveScan, TInv, PictureKnown, Begun
  <1>2. CASE Go("select") /\ UNCHANGED planned
    BY <1>1, <1>2 DEF ResolveScan, Go, TInv, TypeOK, PictureKnown, AsRequested,
       EncoderKnown, ChainDescends, EndReached, Begun, Chosen, Launched, Shown, selection, ran,
       result, planned, Ended, Above
  <1>3. ASSUME NEW idet, Replan(idet), Go("select") PROVE TInv'
    <2>1. owed' \in BOOLEAN /\ target' = target
      BY <1>3, ReplanNeedsPicture
    <2> QED
      BY <1>1, <1>3, <2>1 DEF ResolveScan, Go, TInv, TypeOK, PictureKnown, AsRequested,
         EncoderKnown, ChainDescends, EndReached, Begun, Chosen, Launched, Shown, selection, ran,
         result, Ended, Above
  <1>4. ASSUME NEW idet, ReplanFails(idet) PROVE TInv'
    BY <1>1, <1>4 DEF ResolveScan, ReplanFails, Fail, TInv, TypeOK, PictureKnown, AsRequested,
       EncoderKnown, ChainDescends, EndReached, Begun, Chosen, Launched, Shown, selection, ran,
       result, planned, Ended, Above
  <1> QED
    BY <1>2, <1>3, <1>4 DEF ResolveScan

LEMMA TSelect == ASSUME TInv, SelectEncoder \/ CapabilitiesUnread PROVE TInv'
  <1>1. CASE SelectEncoder
    <2>1. caps' \subseteq Entries
      BY <1>1, CapabilitiesAreEntries DEF SelectEncoder
    <2>2. /\ EncodesVideo(plan) => encoder' \in Encoders /\ fellBack' = (encoder' # "hevc_qsv")
          /\ ~EncodesVideo(plan) => UNCHANGED <<encoder, fellBack>>
      BY <1>1, SelectedIsEncoder DEF SelectEncoder
    <2>3. /\ encoder' \in Encoders \union {""} /\ fellBack' \in BOOLEAN
      BY <2>2 DEF TInv, TypeOK
    <2>4. tried = <<>> /\ ~forceSoftware /\ DOMAIN tried = {} /\ phase' = "encode"
      BY <1>1 DEF SelectEncoder, TInv, EncoderKnown, Begun, Chosen, Go
    <2>5. TypeOK'
      BY <1>1, <2>1, <2>3 DEF SelectEncoder, Go, TInv, TypeOK, planned, ran, result, Ended
    <2>6. PictureKnown' /\ AsRequested' /\ EndReached' /\ EncoderKnown'
      BY <1>1, <2>2, <2>4 DEF SelectEncoder, Go, TInv, PictureKnown, AsRequested, EncoderKnown,
         EndReached, Begun, Chosen, Launched, Shown, ran, result, planned
    <2>7. ChainDescends'
      BY <1>1, <2>4 DEF SelectEncoder, ran, ChainDescends, Above
    <2> QED
      BY <2>5, <2>6, <2>7 DEF TInv
  <1>2. CASE CapabilitiesUnread
    BY <1>2 DEF CapabilitiesUnread, Fail, TInv, TypeOK, PictureKnown, AsRequested, EncoderKnown,
       ChainDescends, EndReached, Begun, Chosen, Launched, Shown, selection, ran, result, planned,
       Ended, Above
  <1> QED
    BY <1>1, <1>2

LEMMA TAttempt == ASSUME TInv, Attempt PROVE TInv'
  <1>1. phase = "encode" /\ UNCHANGED <<source, sweep, planned, selection, tried, record, result, library>>
    BY DEF Attempt
  <1>2. CASE BuildErrors(Request) # {} /\ Fail("build") /\ UNCHANGED <<command, row>>
    BY <1>1, <1>2 DEF Fail, TInv, TypeOK, PictureKnown, AsRequested, EncoderKnown, ChainDescends,
       EndReached, Begun, Chosen, Launched, Shown, selection, result, planned, Ended, Above
  <1>3. ASSUME BuildErrors(Request) = {}, command' = Build(Request),
               row' = Execution(command'.decode, finalOut), Go("running")
        PROVE  TInv'
    <2>1. Request' = Request /\ finalOut' = finalOut /\ phase' = "running" /\ why' = why
      BY <1>1, <1>3 DEF Request, planned, selection, result, Go
    <2>2. TypeOK' /\ PictureKnown' /\ EncoderKnown' /\ EndReached'
      BY <1>1, <2>1 DEF TInv, TypeOK, PictureKnown, EncoderKnown,
         EndReached, Begun, Chosen, Launched, Shown, selection, planned, Ended
    <2>3. AsRequested'
      <3>1. command' = Build(Request') /\ BuildErrors(Request') = {}
        BY <1>3, <2>1
      <3>2. row' = Execution(command'.decode, finalOut')
        BY <1>3, <2>1
      <3>3. Execution(command.decode, finalOut)' = Execution(command'.decode, finalOut)
        BY <1>1, <2>1 DEF Execution, selection
      <3> QED
        BY <1>3, <2>1, <3>1, <3>3 DEF AsRequested, Launched, Shown
    <2>4. ChainDescends'
      <3>1. command' = Build(Request) /\ command'.decode \in {"hardware", "software"}
            /\ (Request.forceSoftware => command'.decode = "software")
        BY <1>3, CommandParts
      <3>2. forceSoftware => command'.decode = "software"
        BY <3>1 DEF Request
      <3>3. PICK low \in Nat, high \in Nat :
               /\ low = Rank(encoder, IF forceSoftware THEN "software" ELSE "hardware")
               /\ high = Rank(encoder, command'.decode)
        BY RankIsNat
      <3>4. low <= high
        BY <3>1, <3>2, <3>3, MemoryIsFurther
      <3>5. \A i \in DOMAIN tried : Rank(tried[i][1], tried[i][2]) < low
        BY <1>1, <3>3 DEF TInv, ChainDescends, Above
      <3>6. \A i \in DOMAIN tried : Rank(tried[i][1], tried[i][2]) < high
        BY <3>4, <3>5, RankIsNat
      <3> QED
        BY <1>1, <2>1, <3>3, <3>6 DEF TInv, ChainDescends, Above, selection
    <2> QED
      BY <2>2, <2>3, <2>4 DEF TInv
  <1> QED
    BY <1>1, <1>2, <1>3 DEF Attempt

LEMMA TEncodeEnds == ASSUME TInv, EncodeEnds PROVE TInv'
  <1>1. /\ phase = "running" /\ phase' = "verifying" /\ why' = why
        /\ UNCHANGED <<source, sweep, planned, selection, command, tried, record, library>>
        /\ row' = Execution(command.decode, finalOut')
    BY DEF EncodeEnds, Go
  <1>2. Request' = Request /\ Execution(command.decode, finalOut)' = Execution(command.decode, finalOut')
    BY <1>1 DEF Request, Execution, planned, selection
  <1>3. TypeOK' /\ PictureKnown' /\ EncoderKnown' /\ EndReached' /\ ChainDescends'
    BY <1>1 DEF TInv, TypeOK, PictureKnown, EncoderKnown, ChainDescends, EndReached, Begun, Chosen,
       selection, planned, Ended, Above
  <1>4. AsRequested'
    BY <1>1, <1>2 DEF TInv, AsRequested, Launched, Shown
  <1> QED
    BY <1>3, <1>4 DEF TInv

LEMMA TEncodeFails == ASSUME TInv, EncodeFails PROVE TInv'
  <1>1. /\ phase = "running" /\ phase' = "stepback" /\ why' = why
        /\ tried' = Append(tried, <<encoder, command.decode>>)
        /\ UNCHANGED <<source, sweep, planned, selection, command, row, record, result, library>>
    BY DEF EncodeFails, Go
  <1> DEFINE T == (Encoders \union {""}) \X {"hardware", "software"}
             x == <<encoder, command.decode>>
  <1>2. tried \in Seq(T) /\ x \in T
    <2>1. command = Build(Request)
      BY <1>1 DEF TInv, AsRequested, Launched
    <2>2. command.decode \in {"hardware", "software"}
      BY <2>1, CommandParts
    <2> QED
      BY <2>2 DEF TInv, TypeOK
  <1>3. PICK n \in Nat : n = Len(tried) /\ DOMAIN tried = 1 .. n
    <2> HIDE DEF T
    <2>1. Len(tried) \in Nat /\ DOMAIN tried = 1 .. Len(tried)
      BY <1>2, LenProperties
    <2> QED
      BY <2>1
  <1>4. /\ tried' \in Seq(T) /\ tried' # <<>> /\ DOMAIN tried' = 1 .. n + 1 /\ tried'[n + 1] = x
        /\ \A i \in 1 .. n : tried'[i] = tried[i]
    <2> HIDE DEF T, x
    <2> QED
      BY <1>1, <1>2, <1>3, AppendProperties DEF x
  <1>5. TypeOK'
    BY <1>1, <1>4 DEF TInv, TypeOK, selection, planned, Ended
  <1>6. PictureKnown' /\ EncoderKnown' /\ AsRequested'
    <2>1. Request' = Request
      BY <1>1 DEF Request, planned, selection
    <2> QED
      BY <1>1, <1>4, <2>1 DEF TInv, PictureKnown, EncoderKnown, AsRequested, Begun, Chosen,
         Launched, Shown, selection, planned
  <1>7. EndReached'
    BY <1>1 DEF TInv, TypeOK, EndReached
  <1>8. ChainDescends'
    <2> DEFINE R(s) == Rank(s[1], s[2])
    <2>1. R(x) \in Nat /\ \A i \in 1 .. n : R(tried[i]) \in Nat
      BY RankIsNat
    <2>2. \A i \in 1 .. n : R(tried[i]) < R(x)
      BY <1>1, <1>3 DEF TInv, ChainDescends, Above
    <2>3. \A i, k \in 1 .. n : i < k => R(tried[i]) < R(tried[k])
      BY <1>3 DEF TInv, ChainDescends
    <2>4. /\ \A i \in 1 .. n : R(tried'[i]) = R(tried[i])
          /\ R(tried'[n + 1]) = R(x)
      BY <1>4
    <2> HIDE DEF x
    <2> HIDE DEF R
    <2>5. \A i, k \in 1 .. n + 1 : i < k => R(tried'[i]) < R(tried'[k])
      BY <2>2, <2>3, <2>4
    <2>6. \A i \in 1 .. n + 1 : R(tried'[i]) < R(x) + 1
      <3> TAKE i \in 1 .. n + 1
      <3>1. CASE i \in 1 .. n
        BY <2>1, <2>2, <2>4, <3>1
      <3>2. CASE i = n + 1
        BY <2>1, <2>4, <3>2
      <3> QED
        BY <3>1, <3>2
    <2>7. x' = x /\ R(x) = Rank(encoder, command.decode)
      BY <1>1 DEF x, R, selection
    <2>8. Rank(encoder, command.decode)' = Rank(encoder, command.decode)
      BY <1>1 DEF selection
    <2>9. \A i, k \in DOMAIN tried' :
             i < k => Rank(tried'[i][1], tried'[i][2]) < Rank(tried'[k][1], tried'[k][2])
      BY <1>4, <2>5 DEF R
    <2>10. \A i \in DOMAIN tried' :
              Rank(tried'[i][1], tried'[i][2]) < Rank(encoder, command.decode) + 1
      BY <1>4, <2>6, <2>7 DEF R
    <2>11. \E i \in DOMAIN tried' : tried'[i] = <<encoder, command.decode>>'
      <3>1. n + 1 \in DOMAIN tried'
        <4>1. n + 1 \in 1 .. n + 1
          OBVIOUS
        <4>2. DOMAIN tried' = 1 .. n + 1
          BY <1>4
        <4> QED
          BY <4>1, <4>2
      <3>2. tried'[n + 1] = x /\ x' = <<encoder, command.decode>>'
        BY <1>4 DEF x
      <3> QED
        BY <2>7, <3>1, <3>2
    <2> QED
      BY <1>1, <2>8, <2>9, <2>10, <2>11 DEF ChainDescends, Above
  <1> QED
    BY <1>5, <1>6, <1>7, <1>8 DEF TInv

LEMMA Below ==
    ASSUME NEW r \in Nat, NEW at \in Nat, NEW high \in Nat, r < at + 1, at < high
    PROVE  r < high
  OBVIOUS

LEMMA TStepBack == ASSUME TInv, StepBack PROVE TInv'
  <1>1. /\ phase = "stepback" /\ UNCHANGED <<source, sweep, planned, caps, ran, record, result, library>>
        /\ tried' = tried /\ command' = command
    BY DEF StepBack, ran
  <1>2. /\ command = Build(Request) /\ DOMAIN tried # {} /\ tried # <<>>
        /\ Above(Rank(encoder, command.decode) + 1) /\ decodeRetried = forceSoftware
        /\ EncodesVideo(plan) => encoder \in Encoders
    BY <1>1 DEF TInv, AsRequested, ChainDescends, EncoderKnown, Launched, Chosen
  <1>3. /\ command.decode \in {"hardware", "software"}
        /\ forceSoftware \/ encoder = Software => command.decode = "software"
    <2>1. /\ Request.forceSoftware \/ Request.encoder = Software => command.decode = "software"
          /\ command.decode \in {"hardware", "software"}
      BY <1>2, CommandParts
    <2> QED
      BY <2>1 DEF Request
  <1>4. PICK at \in Nat : at = Rank(encoder, command.decode)
    BY RankIsNat
  <1>5. ASSUME NEW e \in Encoders \union {""}, NEW forced \in BOOLEAN,
               EncodesVideo(plan) => e \in Encoders,
               at < Rank(e, IF forced THEN "software" ELSE "hardware"),
               encoder' = e, decodeRetried' = forced, forceSoftware' = forced, fellBack' = TRUE,
               phase' = "encode", why' = why
        PROVE  TInv'
    <2>1. TypeOK'
      BY <1>1, <1>5 DEF TInv, TypeOK, planned, ran, Ended
    <2>2. PictureKnown' /\ AsRequested' /\ EncoderKnown' /\ EndReached'
      BY <1>1, <1>2, <1>5 DEF TInv, TypeOK, PictureKnown, AsRequested, EncoderKnown, EndReached,
         Begun, Chosen, Launched, Shown, planned
    <2>3. PICK high \in Nat : high = Rank(e, IF forced THEN "software" ELSE "hardware")
      BY RankIsNat
    <2>4. \A i \in DOMAIN tried : Rank(tried[i][1], tried[i][2]) < high
      <3> TAKE i \in DOMAIN tried
      <3>1. PICK r \in Nat : r = Rank(tried[i][1], tried[i][2])
        BY RankIsNat
      <3>2. r < at + 1
        BY <1>2, <1>4, <3>1 DEF Above
      <3>3. at < high
        BY <1>5, <2>3
      <3>4. r < high
        BY <3>2, <3>3, Below
      <3> QED
        BY <3>1, <3>4
    <2>5. ChainDescends'
      BY <1>1, <1>5, <2>3, <2>4 DEF TInv, ChainDescends, Above
    <2> QED
      BY <2>1, <2>2, <2>5 DEF TInv
  <1>6. CASE /\ RetryInSoftware(command.decode, decodeRetried)
             /\ decodeRetried' = TRUE /\ forceSoftware' = TRUE /\ fellBack' = TRUE
             /\ UNCHANGED encoder /\ Go("encode")
    <2>1. at < Rank(encoder, "software")
      <3>1. command.decode = "hardware"
        BY <1>6 DEF RetryInSoftware
      <3>2. Rank(encoder, "hardware") = at /\ Rank(encoder, "hardware") + 1 = Rank(encoder, "software")
        BY <1>4, <3>1, MemoryIsFurther
      <3> QED
        BY <3>2
    <2>2. encoder \in Encoders \union {""}
      BY DEF TInv, TypeOK
    <2>3. at < Rank(encoder, IF TRUE THEN "software" ELSE "hardware")
      BY <2>1
    <2> QED
      BY <1>2, <1>5, <1>6, <2>2, <2>3 DEF Go
  <1>7. ASSUME EncodesVideo(plan), encoder' \in NextEncoder(caps, encoder, plan.hdr),
               decodeRetried' = FALSE, forceSoftware' = FALSE, fellBack' = TRUE, Go("encode")
        PROVE  TInv'
    <2>1. encoder' \in Encoders /\ at < Rank(encoder', "hardware")
      BY <1>4, <1>7, NextIsFurther
    <2>2. at < Rank(encoder', IF FALSE THEN "software" ELSE "hardware")
      BY <2>1
    <2> QED
      BY <1>5, <1>7, <2>1, <2>2 DEF Go
  <1>8. ASSUME ~RetryInSoftware(command.decode, decodeRetried), Fail("exhausted"),
               EncodesVideo(plan) => NextEncoder(caps, encoder, plan.hdr) = {},
               UNCHANGED <<encoder, fellBack, decodeRetried, forceSoftware>>
        PROVE  TInv'
    <2>1. EndReached'
      <3>1. ASSUME EncodesVideo(plan)
            PROVE  \E i \in DOMAIN tried : tried[i] = <<Software, "software">>
        <4>1. encoder = Software
          BY <1>2, <1>8, <3>1, NothingBelowSoftware
        <4>2. command.decode = "software"
          BY <1>3, <4>1
        <4> QED
          BY <1>1, <4>1, <4>2 DEF TInv, ChainDescends
      <3> QED
        BY <1>1, <3>1 DEF EndReached, planned
    <2>2. TypeOK' /\ PictureKnown' /\ AsRequested' /\ EncoderKnown' /\ ChainDescends'
      BY <1>1, <1>8 DEF Fail, TInv, TypeOK, PictureKnown, AsRequested, EncoderKnown, ChainDescends,
         Begun, Chosen, Launched, Shown, planned, ran, Ended, Above
    <2> QED
      BY <2>1, <2>2 DEF TInv
  <1> QED
    <2> DEFINE retry == RetryInSoftware(command.decode, decodeRetried)
               next == IF EncodesVideo(plan) THEN NextEncoder(caps, encoder, plan.hdr) ELSE {}
    <2>1. \/ /\ retry
             /\ decodeRetried' = TRUE /\ forceSoftware' = TRUE /\ fellBack' = TRUE
             /\ UNCHANGED encoder /\ Go("encode")
          \/ /\ ~retry /\ encoder' \in next
             /\ decodeRetried' = FALSE /\ forceSoftware' = FALSE /\ fellBack' = TRUE
             /\ Go("encode")
          \/ /\ ~retry /\ next = {}
             /\ Fail("exhausted")
             /\ UNCHANGED <<encoder, fellBack, decodeRetried, forceSoftware>>
      BY DEF StepBack
    <2>2. (encoder' \in next) => EncodesVideo(plan) /\ encoder' \in NextEncoder(caps, encoder, plan.hdr)
      OBVIOUS
    <2>3. next = {} => (EncodesVideo(plan) => NextEncoder(caps, encoder, plan.hdr) = {})
      OBVIOUS
    <2> QED
      BY <1>6, <1>7, <1>8, <2>1, <2>2, <2>3

LEMMA TFinalise == ASSUME TInv, Finalise PROVE TInv'
  <1>1. /\ phase = "verifying" /\ UNCHANGED <<source, sweep, planned, selection, ran, result>>
        /\ (phase' = "done" /\ why' = why) \/ (phase' = "failed" /\ why' = "verify")
    BY DEF Finalise, Go, Fail
  <1>2. Request' = Request /\ Execution(command.decode, finalOut)' = Execution(command.decode, finalOut)
    BY <1>1 DEF Request, Execution, planned, selection, ran, result
  <1>3. TypeOK' /\ PictureKnown' /\ EncoderKnown' /\ EndReached' /\ ChainDescends'
    BY <1>1 DEF TInv, TypeOK, PictureKnown, EncoderKnown, ChainDescends, EndReached, Begun, Chosen,
       selection, planned, ran, Ended, Above
  <1>4. AsRequested'
    BY <1>1, <1>2 DEF TInv, AsRequested, Launched, Shown, ran
  <1> QED
    BY <1>3, <1>4 DEF TInv

LEMMA TStutter == ASSUME TInv, UNCHANGED vars PROVE TInv'
  <1>1. /\ UNCHANGED <<source, sweep, phase, why, plan, owed, target, caps, encoder, fellBack,
                       decodeRetried, forceSoftware, command, tried, row, finalOut>>
    BY DEF vars, planned, selection, ran, result
  <1>2. Request' = Request /\ Execution(command.decode, finalOut)' = Execution(command.decode, finalOut)
    BY <1>1 DEF Request, Execution
  <1>3. PictureKnown' /\ EncoderKnown' /\ EndReached' /\ ChainDescends' /\ TypeOK'
    <2>1. TypeOK'
      BY <1>1 DEF TInv, TypeOK
    <2>2. PictureKnown' /\ EndReached'
      BY <1>1 DEF TInv, PictureKnown, EndReached
    <2>3. EncoderKnown'
      BY <1>1 DEF TInv, EncoderKnown
    <2>4. ChainDescends'
      BY <1>1 DEF TInv, ChainDescends, Above
    <2> QED
      BY <2>1, <2>2, <2>3, <2>4
  <1>4. AsRequested'
    BY <1>1, <1>2 DEF TInv, AsRequested
  <1> QED
    BY <1>3, <1>4 DEF TInv

LEMMA TInvHolds == Spec => []TInv
  <1>1. TInv /\ [Next]_vars => TInv'
    BY TLoad, TResolveBitrate, TResolveScan, TSelect, TAttempt, TEncodeEnds, TEncodeFails,
       TStepBack, TFinalise, TStutter DEF Next
  <1> QED
    BY <1>1, TInit, PTL DEF Spec

-----------------------------------------------------------------------------
(* A job has a bound on its steps: the half of JobEnds that is not fairness. *)

\* How many steps a job has before it at most.  An attempt, its failure and the step
\* back are three, and the chain has six ranks.
StepsLeft ==
    LET ahead(rank) == 3 * (5 - rank)
    IN  CASE phase = "claimed" -> 24 [] phase = "bitrate" -> 23
          [] phase = "scan" -> 22 [] phase = "select" -> 21
          [] phase = "encode" ->
                ahead(Rank(encoder, IF forceSoftware THEN "software" ELSE "hardware")) + 5
          [] phase = "running" -> ahead(Rank(encoder, command.decode)) + 4
          [] phase = "stepback" -> ahead(Rank(encoder, command.decode)) + 3
          [] phase = "verifying" -> 1
          [] OTHER -> 0
StepsRunOut == [][StepsLeft' < StepsLeft]_vars

LEMMA RankIsSmall == ASSUME NEW e, NEW d PROVE Rank(e, d) \in 0 .. 5
  BY DEF Rank

LEMMA StepsAreFew == TypeOK => StepsLeft \in 0 .. 24 /\ (StepsLeft = 0 <=> phase \in Ended)
  <1> SUFFICES ASSUME TypeOK
               PROVE  StepsLeft \in 0 .. 24 /\ (StepsLeft = 0 <=> phase \in Ended)
    OBVIOUS
  <1>1. PICK a \in 0 .. 5 : a = Rank(encoder, IF forceSoftware THEN "software" ELSE "hardware")
    BY RankIsSmall
  <1>2. PICK b \in 0 .. 5 : b = Rank(encoder, command.decode)
    BY RankIsSmall
  <1>3. phase \in {"claimed", "bitrate", "scan", "select", "encode", "running", "stepback",
                   "verifying", "done", "failed"}
    BY DEF TypeOK, Ended
  <1>4. /\ phase = "encode" => StepsLeft = 3 * (5 - a) + 5
        /\ phase = "running" => StepsLeft = 3 * (5 - b) + 4
        /\ phase = "stepback" => StepsLeft = 3 * (5 - b) + 3
    BY <1>1, <1>2 DEF StepsLeft
  <1>5. phase \notin {"encode", "running", "stepback"} =>
           StepsLeft \in 0 .. 24 /\ (StepsLeft = 0 <=> phase \in {"done", "failed"})
    BY <1>3 DEF StepsLeft
  <1> QED
    BY <1>3, <1>4, <1>5 DEF Ended

\* A step back that leads to another attempt leads further down.
LEMMA FurtherDown ==
    ASSUME TInv, StepBack, phase' \notin Ended
    PROVE  Rank(encoder, command.decode)
           < Rank(encoder', IF forceSoftware' THEN "software" ELSE "hardware")
  <1>1. PICK at \in Nat : at = Rank(encoder, command.decode)
    BY RankIsNat
  <1>2. CASE /\ RetryInSoftware(command.decode, decodeRetried)
             /\ forceSoftware' = TRUE /\ UNCHANGED encoder
    <2>1. command.decode = "hardware"
      BY <1>2 DEF RetryInSoftware
    <2>2. PICK h \in Nat, m \in Nat :
             h = Rank(encoder, "hardware") /\ m = Rank(encoder, "software")
      BY RankIsNat
    <2>3. h + 1 = m
      BY <2>2, MemoryIsFurther
    <2>4. /\ Rank(encoder, command.decode) = h
          /\ Rank(encoder', IF forceSoftware' THEN "software" ELSE "hardware") = m
      BY <1>2, <2>1, <2>2
    <2> QED
      BY <2>3, <2>4
  <1>3. CASE /\ EncodesVideo(plan) /\ encoder' \in NextEncoder(caps, encoder, plan.hdr)
             /\ forceSoftware' = FALSE
    BY <1>3, NextIsFurther
  <1> QED
    <2>1. ~Fail("exhausted")
      BY DEF Fail, Ended
    <2> QED
      BY <1>2, <1>3, <2>1 DEF StepBack

LEMMA EachStepCounts == ASSUME TInv, Next PROVE StepsLeft' < StepsLeft
  <1>1. ASSUME phase' \in Ended, phase \notin Ended PROVE StepsLeft' < StepsLeft
    <2>1. StepsLeft \in 0 .. 24 /\ StepsLeft # 0
      BY <1>1, StepsAreFew DEF TInv
    <2>2. StepsLeft' = 0
      BY <1>1 DEF StepsLeft, Ended
    <2> QED
      BY <2>1, <2>2
  <1>2. CASE Load \/ ResolveBitrate \/ ResolveScan \/ CapabilitiesUnread
    <2>1. \/ phase = "claimed" /\ phase' = "bitrate"
          \/ phase = "bitrate" /\ phase' = "scan"
          \/ phase = "scan" /\ phase' = "select"
          \/ phase \notin Ended /\ phase' \in Ended
      <3>1. CASE Load
        BY <3>1 DEF Load, ReplanFails, Go, Fail, Ended
      <3>2. CASE ResolveBitrate
        BY <3>2 DEF ResolveBitrate, Go
      <3>3. CASE ResolveScan
        BY <3>3 DEF ResolveScan, ReplanFails, Go, Fail, Ended
      <3>4. CASE CapabilitiesUnread
        BY <3>4 DEF CapabilitiesUnread, Fail, Ended
      <3> QED
        BY <1>2, <3>1, <3>2, <3>3, <3>4
    <2>2. CASE phase \notin Ended /\ phase' \in Ended
      BY <1>1, <2>2
    <2> QED
      BY <2>1, <2>2 DEF StepsLeft
  <1>3. CASE SelectEncoder
    <2>1. phase = "select" /\ phase' = "encode"
      BY <1>3 DEF SelectEncoder, Go
    <2>2. PICK a \in 0 .. 5 :
             a = Rank(encoder', IF forceSoftware' THEN "software" ELSE "hardware")
      BY RankIsSmall
    <2>3. StepsLeft = 21 /\ StepsLeft' = 3 * (5 - a) + 5
      BY <2>1, <2>2 DEF StepsLeft
    <2> QED
      BY <2>3
  <1>4. CASE Attempt
    <2>1. CASE Fail("build")
      BY <1>1, <1>4, <2>1 DEF Attempt, Fail, Ended
    <2>2. CASE ~Fail("build")
      <3>1. /\ phase = "encode" /\ phase' = "running" /\ command' = Build(Request)
            /\ encoder' = encoder
        BY <1>4, <2>2 DEF Attempt, Go, selection
      <3>2. /\ Request.forceSoftware => command'.decode = "software"
            /\ command'.decode \in {"hardware", "software"}
        BY <3>1, CommandParts
      <3>3. forceSoftware => command'.decode = "software"
        BY <3>2 DEF Request
      <3>4. PICK a \in 0 .. 5 :
               a = Rank(encoder, IF forceSoftware THEN "software" ELSE "hardware")
        BY RankIsSmall
      <3>5. PICK b \in 0 .. 5 : b = Rank(encoder, command'.decode)
        BY RankIsSmall
      <3>6. a <= b
        <4>1. PICK h \in 0 .. 5 : h = Rank(encoder, "hardware")
          BY RankIsSmall
        <4>2. PICK m \in 0 .. 5 : m = Rank(encoder, "software")
          BY RankIsSmall
        <4>3. h + 1 = m
          BY <4>1, <4>2, MemoryIsFurther
        <4>4. (a = h \/ a = m) /\ (b = h \/ b = m) /\ (a = m => b = m)
          <5>1. CASE forceSoftware
            BY <3>3, <3>4, <3>5, <4>2, <5>1
          <5>2. CASE ~forceSoftware
            <6>1. a = h
              BY <3>4, <4>1, <5>2
            <6>2. b = h \/ b = m
              BY <3>2, <3>5, <4>1, <4>2
            <6> QED
              BY <4>3, <6>1, <6>2
          <5> QED
            BY <5>1, <5>2
        <4> QED
          BY <4>3, <4>4
      <3>7. StepsLeft = 3 * (5 - a) + 5 /\ StepsLeft' = 3 * (5 - b) + 4
        BY <3>1, <3>4, <3>5 DEF StepsLeft
      <3> QED
        BY <3>6, <3>7
    <2> QED
      BY <2>1, <2>2
  <1>5. CASE EncodeEnds \/ EncodeFails
    <2>1. PICK b \in 0 .. 5 : b = Rank(encoder, command.decode)
      BY RankIsSmall
    <2>2. /\ phase = "running" /\ phase' \in {"verifying", "stepback"}
          /\ encoder' = encoder /\ command' = command
      BY <1>5 DEF EncodeEnds, EncodeFails, Go, selection
    <2>3. /\ StepsLeft = 3 * (5 - b) + 4
          /\ phase' = "stepback" => StepsLeft' = 3 * (5 - b) + 3
          /\ phase' = "verifying" => StepsLeft' = 1
      BY <2>1, <2>2 DEF StepsLeft
    <2> QED
      BY <2>2, <2>3
  <1>6. CASE StepBack
    <2>1. CASE phase' \in Ended
      BY <1>1, <1>6, <2>1 DEF StepBack, Ended
    <2>2. CASE phase' \notin Ended
      <3>1. phase = "stepback" /\ phase' = "encode"
        BY <1>6, <2>2 DEF StepBack, Go, Fail, Ended
      <3>2. PICK b \in 0 .. 5 : b = Rank(encoder, command.decode)
        BY RankIsSmall
      <3>3. PICK a \in 0 .. 5 :
               a = Rank(encoder', IF forceSoftware' THEN "software" ELSE "hardware")
        BY RankIsSmall
      <3>4. b < a
        BY <1>6, <2>2, <3>2, <3>3, FurtherDown DEF Ended
      <3>5. StepsLeft = 3 * (5 - b) + 3 /\ StepsLeft' = 3 * (5 - a) + 5
        BY <3>1, <3>2, <3>3 DEF StepsLeft
      <3> QED
        BY <3>4, <3>5
    <2> QED
      BY <2>1, <2>2
  <1>7. CASE Finalise
    BY <1>1, <1>7 DEF Finalise, Go, Fail, Ended
  <1> QED
    BY <1>2, <1>3, <1>4, <1>5, <1>6, <1>7 DEF Next

\* Whatever ffmpeg, the hardware and the caches do, a job has at most 24 steps from its
\* claim to its end, and every step it takes leaves fewer; it has none left only when it
\* has ended (execute.go stepBack cannot go round).
THEOREM JobRunsDown ==
    Spec => /\ [](StepsLeft \in 0 .. 24 /\ (StepsLeft = 0 <=> phase \in Ended))
            /\ StepsRunOut
  <1>1. TInv => StepsLeft \in 0 .. 24 /\ (StepsLeft = 0 <=> phase \in Ended)
    BY StepsAreFew DEF TInv
  <1>2. TInv /\ [Next]_vars => [StepsLeft' < StepsLeft]_vars
    BY EachStepCounts
  <1> QED
    BY <1>1, <1>2, TInvHolds, PTL DEF Spec, StepsRunOut

-----------------------------------------------------------------------------
(* What follows from it. *)

\* The worker's record of a job is well formed at every step (execute.go).
THEOREM Typed == Spec => []TypeOK
  <1>1. TInv => TypeOK
    BY DEF TInv
  <1> QED
    BY <1>1, TInvHolds, PTL

\* No attempt is made twice, a job that encodes gives up only after the software
\* encoder has failed on frames in memory, and the row says what runs and whether
\* it is the first choice (execute.go stepBack, recordExecution).
THEOREM FallbackHolds == Spec => []FallbackIsExhaustive
  <1>1. ASSUME TInv PROVE FallbackIsExhaustive
    <2>1. \A i, k \in DOMAIN tried : tried[i] = tried[k] => i = k
      <3> TAKE i, k \in DOMAIN tried
      <3>1. i \in Nat /\ k \in Nat
        <4>1. DOMAIN tried = 1 .. Len(tried) /\ Len(tried) \in Nat
          <5>1. tried \in Seq((Encoders \union {""}) \X {"hardware", "software"})
            BY <1>1 DEF TInv, TypeOK
          <5> QED
            BY <5>1, LenProperties
        <4> QED
          BY <4>1
      <3>2. PICK a \in Nat, b \in Nat :
               a = Rank(tried[i][1], tried[i][2]) /\ b = Rank(tried[k][1], tried[k][2])
        BY RankIsNat
      <3>3. (i < k => a < b) /\ (k < i => b < a)
        BY <1>1, <3>2 DEF TInv, ChainDescends
      <3>4. tried[i] = tried[k] => a = b
        BY <3>2
      <3>5. a = b => ~(i < k) /\ ~(k < i)
        BY <3>3
      <3> QED
        BY <3>1, <3>4, <3>5
    <2>2. ASSUME phase \in {"running", "verifying", "done"}
          PROVE  /\ row.decode = command.decode
                 /\ EncodesVideo(plan) =>
                       /\ row.encoder = command.encoder
                       /\ row.fellBack <=> row.encoder # "hevc_qsv" \/ tried # <<>>
      <3>1. command = Build(Request) /\ row = Execution(command.decode, finalOut)
        BY <1>1, <2>2 DEF TInv, AsRequested, Launched, Shown
      <3>2. row.decode = command.decode /\ row.encoder = encoder /\ row.fellBack = fellBack
        BY <3>1 DEF Execution
      <3>3. EncodesVideo(plan) => command.encoder = encoder
        <4>1. Request.plan = plan /\ Request.encoder = encoder
          BY DEF Request
        <4>2. EncodesVideo(Request.plan) => command.encoder = Request.encoder
          BY <3>1, CommandParts
        <4> QED
          BY <4>1, <4>2
      <3>4. EncodesVideo(plan) => (fellBack <=> encoder # "hevc_qsv" \/ tried # <<>>)
        BY <1>1, <2>2 DEF TInv, EncoderKnown, Chosen
      <3> QED
        BY <3>2, <3>3, <3>4
    <2> QED
      BY <1>1, <2>1, <2>2 DEF TInv, EndReached, FallbackIsExhaustive
  <1> QED
    BY <1>1, TInvHolds, PTL

\* What ffmpeg is given can be encoded, on every path through the fallbacks, and its
\* target is in the band of the picture (argv.go videoFilters, bitrate.go).
THEOREM FedHolds == Spec => []EncoderIsFed
  <1>1. ASSUME TInv PROVE EncoderIsFed
    <2> SUFFICES ASSUME phase \in {"running", "verifying", "done"}, EncodesVideo(plan)
                 PROVE  Flows(command) /\ InBand(command.rate.target, source)
      BY DEF EncoderIsFed, InBand
    <2>1. /\ command = Build(Request) /\ BuildErrors(Request) = {} /\ encoder \in Encoders
      BY <1>1 DEF TInv, AsRequested, EncoderKnown, Launched, Chosen
    <2>2. Request.plan = plan /\ Request.encoder = encoder /\ Request.target = target
      BY DEF Request
    <2>3. Flows(command)
      BY <2>1, <2>2, CommandFlows
    <2>4. target # 0
      <3>1. "nobitrate" \notin BuildErrors(Request)
        BY <2>1
      <3>2. ~(target <= 0)
        BY <2>2, <3>1 DEF BuildErrors
      <3> QED
        BY <3>2
    <2>5. command.rate.target = target
      <3>1. command.rate = RateControl(target)
        <4>1. EncodesVideo(Request.plan) => command.rate = RateControl(Request.target)
          BY <2>1, CommandParts
        <4> QED
          BY <2>2, <4>1
      <3> QED
        BY <3>1 DEF RateControl
    <2> QED
      BY <1>1, <2>3, <2>4, <2>5 DEF TInv, PictureKnown
  <1> QED
    BY <1>1, TInvHolds, PTL

-----------------------------------------------------------------------------
(* The places of streams. *)

LEMMA OrdinalOrders ==
    ASSUME NEW S \in SUBSET Nat, IsFiniteSet(S), NEW i \in S, NEW k \in S, i < k
    PROVE  Ordinal(S, i) \in Nat /\ Ordinal(S, k) \in Nat /\ Ordinal(S, i) < Ordinal(S, k)
  <1> DEFINE A == {x \in S : x < i}
             B == {x \in S : x < k}
  <1>1. A \in SUBSET B /\ B \in SUBSET S /\ i \in B /\ i \notin A
    <2>1. \A x \in S : x < i => x < k
      OBVIOUS
    <2>2. B \in SUBSET S /\ i \in B /\ i \notin A
      OBVIOUS
    <2> QED
      BY <2>1, <2>2
  <1> HIDE DEF A, B
  <1>2. IsFiniteSet(B)
    BY <1>1, FS_Subset
  <1>3. /\ IsFiniteSet(A) /\ Cardinality(A) <= Cardinality(B)
        /\ Cardinality(A) = Cardinality(B) => A = B
    BY <1>1, <1>2, FS_Subset
  <1>4. Cardinality(A) \in Nat /\ Cardinality(B) \in Nat /\ A # B
    BY <1>1, <1>2, <1>3, FS_CardinalityType
  <1>5. Cardinality(A) < Cardinality(B)
    BY <1>3, <1>4
  <1>6. Ordinal(S, i) = Cardinality(A) /\ Ordinal(S, k) = Cardinality(B)
    BY DEF Ordinal, A, B
  <1> QED
    BY <1>4, <1>5, <1>6

LEMMA OrdinalTells ==
    ASSUME NEW S \in SUBSET Nat, IsFiniteSet(S), NEW i \in S, NEW k \in S,
           Ordinal(S, i) = Ordinal(S, k)
    PROVE  i = k
  <1>1. i < k \/ k < i \/ i = k
    OBVIOUS
  <1>2. CASE i < k
    <2>1. Ordinal(S, i) \in Nat /\ Ordinal(S, k) \in Nat /\ Ordinal(S, i) < Ordinal(S, k)
      BY <1>2, OrdinalOrders
    <2> QED
      BY <2>1
  <1>3. CASE k < i
    <2>1. Ordinal(S, i) \in Nat /\ Ordinal(S, k) \in Nat /\ Ordinal(S, k) < Ordinal(S, i)
      BY <1>3, OrdinalOrders
    <2> QED
      BY <2>1
  <1> QED
    BY <1>1, <1>2, <1>3

\* The plans of the streams of one type.
PlansAt(plans) == DOMAIN plans \in SUBSET Nat /\ IsFiniteSet(DOMAIN plans)

LEMMA KeptIsFinite ==
    ASSUME NEW plans, PlansAt(plans)
    PROVE  Kept(plans) \in SUBSET Nat /\ IsFiniteSet(Kept(plans)) /\ Kept(plans) \subseteq DOMAIN plans
  <1>1. Kept(plans) \in SUBSET DOMAIN plans
    BY DEF Kept
  <1> QED
    BY <1>1, FS_Subset DEF PlansAt

LEMMA FromFinds ==
    ASSUME NEW plans, PlansAt(plans), NEW i \in Kept(plans)
    PROVE  From(plans, OutputIndex(plans, i)) = i
  <1> DEFINE n == OutputIndex(plans, i)
  <1>1. From(plans, n) \in Kept(plans) /\ OutputIndex(plans, From(plans, n)) = n
    BY DEF From
  <1> QED
    BY <1>1, KeptIsFinite, OrdinalTells DEF OutputIndex

\* Where a stream of the output comes from.
LEMMA FromIsKept ==
    ASSUME NEW plans, NEW n \in Mapped(plans)
    PROVE  From(plans, n) \in Kept(plans) /\ OutputIndex(plans, From(plans, n)) = n
  BY DEF Mapped, From

\* A stream with the language and the flags its plan says.
Retagged(s, p) == [s EXCEPT !.lang = p.lang, !.flags = p.flags]

\* A plan that keeps the language and the flags leaves the stream as it was.
LEMMA RetaggedAsItWas ==
    ASSUME NEW s, s \in AudioStream \/ s \in SubtitleStream, NEW p,
           p.lang = s.lang, p.flags = s.flags
    PROVE  Retagged(s, p) = s
  <1>1. CASE s \in AudioStream
    BY <1>1 DEF Retagged, AudioStream
  <1>2. CASE s \in SubtitleStream
    BY <1>2 DEF Retagged, SubtitleStream
  <1> QED
    BY <1>1, <1>2

\* The argument for a place in the output names the very stream the plan keeps there.
LEMMA StreamIsTheOne ==
    ASSUME NEW streams, NEW plans, PlansAt(plans), DOMAIN streams = DOMAIN plans,
           NEW n \in Mapped(plans), NEW i, i = From(plans, n), NEW arg, arg = StreamArgs(plans)[n]
    PROVE  /\ i \in Kept(plans) /\ i \in DOMAIN streams
           /\ StreamFor(streams, arg) = Retagged(streams[i], plans[i])
           /\ arg.codec = CodecArg(plans[i]) /\ arg.channels = plans[i].target.channels
  <1>1. i \in Kept(plans) /\ i \in DOMAIN plans
    BY FromIsKept, KeptIsFinite
  <1>2. arg = [map |-> Ordinal(DOMAIN plans, i), codec |-> CodecArg(plans[i]),
               channels |-> plans[i].target.channels, lang |-> plans[i].lang, flags |-> plans[i].flags]
    BY DEF StreamArgs
  <1> DEFINE k == CHOOSE x \in DOMAIN streams : Ordinal(DOMAIN streams, x) = arg.map
  <1>3. k \in DOMAIN streams /\ Ordinal(DOMAIN streams, k) = arg.map
    BY <1>1, <1>2
  <1>4. k = i
    BY <1>1, <1>2, <1>3, OrdinalTells DEF PlansAt
  <1>5. StreamFor(streams, arg) = [streams[k] EXCEPT !.lang = arg.lang, !.flags = arg.flags]
    BY DEF StreamFor
  <1> HIDE DEF k
  <1>6. arg.lang = plans[i].lang /\ arg.flags = plans[i].flags
    BY <1>2
  <1>7. arg.codec = CodecArg(plans[i]) /\ arg.channels = plans[i].target.channels
    BY <1>2
  <1> QED
    BY <1>1, <1>4, <1>5, <1>6, <1>7 DEF Retagged

-----------------------------------------------------------------------------
(* What the policy plans. *)

\* The plan of a job, forced by a sweep or not.
Made(f, idet, forced) == IF forced THEN ForceVideoEncode(Plan(f, idet)) ELSE Plan(f, idet)

LEMMA PlanParts ==
    ASSUME NEW f, NEW idet, NEW p, p = Plan(f, idet)
    PROVE  /\ p.from = SourceContainer(f) /\ p.to = ContainerFor(f.ext)
           /\ p.video = VideoPlans(f, Verdict(f, idet))
           /\ p.audio = AudioPlans(f, p.to) /\ p.subtitle = SubtitlePlans(f, p.to)
           /\ p.levelRewrite = Verdict(f, idet).levelRewrite
           /\ p.deinterlace = Verdict(f, idet).deinterlace
           /\ p.hdr = IsHDR(Primary(f)) /\ p.dv = Primary(f).dv
  BY DEF Plan

LEMMA ForcedParts ==
    ASSUME NEW f, NEW idet, NEW q, q = Plan(f, idet), NEW p, p = ForceVideoEncode(q)
    PROVE  /\ p.from = q.from /\ p.to = q.to /\ p.audio = q.audio /\ p.subtitle = q.subtitle
           /\ ~p.levelRewrite /\ p.deinterlace = q.deinterlace /\ p.hdr = q.hdr /\ p.dv = q.dv
           /\ DOMAIN p.video = DOMAIN q.video
           /\ \A i \in DOMAIN q.video : p.video[i] =
                 IF i \in Kept(q.video) THEN StreamPlan(q.video[i], "encode", HEVC) ELSE q.video[i]
  BY DEF Plan, ForceVideoEncode

LEMMA VerdictDecides ==
    ASSUME NEW f, NEW idet
    PROVE  Verdict(f, idet).decision \in {"copy", "encode"}
  BY DEF Verdict, PlanVideo, VideoVerdict

\* Only the first picture is kept, and it is copied or encoded as a whole.
LEMMA PlannedPicture ==
    ASSUME NEW f, ProbedFile(f), ~NoVideoStream(f), NEW idet,
           NEW p, p = Plan(f, idet), NEW P, P = PrimaryVideo(f)
    PROVE  /\ P \in DOMAIN f.video /\ DOMAIN p.video = DOMAIN f.video /\ Kept(p.video) = {P}
           /\ p.video[P].lang = f.video[P].lang /\ p.video[P].flags = f.video[P].flags
           /\ p.video[P].decision = Verdict(f, idet).decision
           /\ p.video[P].decision = "encode" => p.video[P].target = HEVC
           /\ EncodesVideo(p) <=> Verdict(f, idet).decision = "encode"
  <1>1. P \in DOMAIN f.video
    BY PrimaryIsFirst
  <1>2. p.video = VideoPlans(f, Verdict(f, idet))
    BY PlanParts
  <1>3. DOMAIN p.video = DOMAIN f.video
    BY <1>2 DEF VideoPlans
  <1>4. \A i \in DOMAIN f.video : i # P => p.video[i].decision = "drop"
    BY <1>2 DEF VideoPlans, StreamPlan
  <1>5. /\ p.video[P].lang = f.video[P].lang /\ p.video[P].flags = f.video[P].flags
        /\ p.video[P].decision = Verdict(f, idet).decision
        /\ p.video[P].decision = "encode" => p.video[P].target = HEVC
    BY <1>1, <1>2 DEF VideoPlans, StreamPlan
  <1>6. p.video[P].decision # "drop"
    BY <1>5, VerdictDecides
  <1>7. Kept(p.video) = {P}
    BY <1>1, <1>3, <1>4, <1>6 DEF Kept
  <1>8. EncodesVideo(p) <=> Verdict(f, idet).decision = "encode"
    BY <1>5, <1>7 DEF EncodesVideo
  <1> QED
    BY <1>1, <1>3, <1>5, <1>7, <1>8

LEMMA MadePicture ==
    ASSUME NEW f, ProbedFile(f), ~NoVideoStream(f), NEW idet, NEW forced \in BOOLEAN,
           NEW p, p = Made(f, idet, forced), NEW P, P = PrimaryVideo(f)
    PROVE  /\ P \in DOMAIN f.video /\ DOMAIN p.video = DOMAIN f.video /\ Kept(p.video) = {P}
           /\ p.video[P].lang = f.video[P].lang /\ p.video[P].flags = f.video[P].flags
           /\ p.video[P].decision \in {"copy", "encode"}
           /\ EncodesVideo(p) <=> p.video[P].decision = "encode"
           /\ p.video[P].decision = "encode" => p.video[P].target = HEVC
           /\ EncodesVideo(p) <=> forced \/ Verdict(f, idet).decision = "encode"
           /\ p.to = ContainerFor(f.ext)
           /\ p.audio = AudioPlans(f, p.to) /\ p.subtitle = SubtitlePlans(f, p.to)
           /\ p.deinterlace = Verdict(f, idet).deinterlace
           /\ p.levelRewrite <=> ~forced /\ Verdict(f, idet).levelRewrite
           /\ p.hdr = IsHDR(Primary(f)) /\ p.dv = Primary(f).dv
  <1>0. PICK q : q = Plan(f, idet)
    OBVIOUS
  <1>1. /\ P \in DOMAIN f.video /\ DOMAIN q.video = DOMAIN f.video /\ Kept(q.video) = {P}
        /\ q.video[P].lang = f.video[P].lang /\ q.video[P].flags = f.video[P].flags
        /\ q.video[P].decision = Verdict(f, idet).decision
        /\ q.video[P].decision = "encode" => q.video[P].target = HEVC
        /\ EncodesVideo(q) <=> Verdict(f, idet).decision = "encode"
    BY <1>0, PlannedPicture
  <1>2. /\ q.from = SourceContainer(f) /\ q.to = ContainerFor(f.ext)
        /\ q.audio = AudioPlans(f, q.to) /\ q.subtitle = SubtitlePlans(f, q.to)
        /\ q.levelRewrite = Verdict(f, idet).levelRewrite
        /\ q.deinterlace = Verdict(f, idet).deinterlace
        /\ q.hdr = IsHDR(Primary(f)) /\ q.dv = Primary(f).dv
    BY <1>0, PlanParts
  <1>3. Verdict(f, idet).decision \in {"copy", "encode"} /\ Verdict(f, idet).levelRewrite \in BOOLEAN
    BY VerdictDecides DEF Verdict, PlanVideo, VideoVerdict
  <1>4. CASE ~forced
    <2>1. p = q
      BY <1>0, <1>4 DEF Made
    <2> QED
      BY <1>1, <1>2, <1>3, <1>4, <2>1
  <1>5. CASE forced
    <2>1. p = ForceVideoEncode(q)
      BY <1>0, <1>5 DEF Made
    <2>2. /\ p.from = q.from /\ p.to = q.to /\ p.audio = q.audio /\ p.subtitle = q.subtitle
          /\ ~p.levelRewrite /\ p.deinterlace = q.deinterlace /\ p.hdr = q.hdr /\ p.dv = q.dv
          /\ DOMAIN p.video = DOMAIN q.video
          /\ \A i \in DOMAIN q.video : p.video[i] =
                IF i \in Kept(q.video) THEN StreamPlan(q.video[i], "encode", HEVC) ELSE q.video[i]
      BY <1>0, <2>1, ForcedParts
    <2>3. DOMAIN p.video = DOMAIN f.video
      BY <1>1, <2>2
    <2>4. p.video[P] = StreamPlan(q.video[P], "encode", HEVC)
      BY <1>1, <2>2
    <2>5. /\ p.video[P].decision = "encode" /\ p.video[P].target = HEVC
          /\ p.video[P].lang = f.video[P].lang /\ p.video[P].flags = f.video[P].flags
      BY <1>1, <2>4 DEF StreamPlan
    <2>6. \A i \in DOMAIN f.video : i # P => p.video[i] = q.video[i] /\ q.video[i].decision = "drop"
      <3>1. \A i \in DOMAIN q.video : i # P => q.video[i].decision = "drop"
        BY <1>1 DEF Kept
      <3> QED
        BY <1>1, <2>2, <3>1
    <2>7. Kept(p.video) = {P}
      BY <1>1, <2>3, <2>5, <2>6 DEF Kept
    <2>8. EncodesVideo(p)
      BY <2>5, <2>7 DEF EncodesVideo
    <2> QED
      BY <1>1, <1>2, <1>5, <2>2, <2>3, <2>5, <2>7, <2>8
  <1> QED
    BY <1>4, <1>5

-----------------------------------------------------------------------------
(* What ffmpeg writes, and how it may be damaged. *)

\* The fields of a file.
Shaped(o) ==
    o = [format |-> o.format, ext |-> o.ext, duration |-> o.duration, length |-> o.length,
         size |-> o.size, streamRate |-> o.streamRate, bpsTag |-> o.bpsTag,
         overallRate |-> o.overallRate, audioRate |-> o.audioRate, formatRate |-> o.formatRate,
         video |-> o.video, audio |-> o.audio, subtitle |-> o.subtitle]

LEMMA ProbedIsShaped == ASSUME NEW f, ProbedFile(f) PROVE Shaped(f)
  <1>1. f \in [format : SUBSET STRING, ext : STRING, duration : Int, length : Int, size : Int,
              streamRate : Int, bpsTag : Int, overallRate : Int, audioRate : Int,
              formatRate : Int, video : {f.video}, audio : {f.audio}, subtitle : {f.subtitle}]
    BY DEF ProbedFile
  <1> QED
    BY <1>1 DEF Shaped

SoundWritten(s, arg) ==
    IF arg.codec = "copy" THEN s ELSE [s EXCEPT !.codec = arg.codec, !.channels = arg.channels]
TextWritten(s, arg) ==
    IF arg.codec = "copy" THEN s ELSE [s EXCEPT !.codec = SubtitleWritten(arg.codec)]

\* What damage leaves of a picture, and of a sound that is encoded.
Marred(v, w, f) ==
    v = w \/ v = [w EXCEPT !.dv = 0] \/ v = [w EXCEPT !.level = Primary(f).level]
Downmixed(s) == [s EXCEPT !.channels = 1]

WrittenAs(f, c, out) ==
    /\ Shaped(out)
    /\ out.format = {c.container} /\ out.ext = f.ext
    /\ DOMAIN out.video = DOMAIN c.video
    /\ \A n \in DOMAIN c.video : out.video[n] =
          IF c.video[n].codec = "copy" THEN CopiedVideo(StreamFor(f.video, c.video[n]), c)
          ELSE EncodedVideo(StreamFor(f.video, c.video[n]), c)
    /\ DOMAIN out.audio = DOMAIN c.audio
    /\ \A n \in DOMAIN c.audio :
          out.audio[n] = SoundWritten(StreamFor(f.audio, c.audio[n]), c.audio[n])
    /\ DOMAIN out.subtitle = DOMAIN c.subtitle
    /\ \A n \in DOMAIN c.subtitle :
          out.subtitle[n] = TextWritten(StreamFor(f.subtitle, c.subtitle[n]), c.subtitle[n])

LEMMA WrittenParts ==
    ASSUME NEW f, Shaped(f), NEW c, NEW out, out = FFmpeg(f, c)
    PROVE  WrittenAs(f, c, out)
  <1> DEFINE V == [n \in DOMAIN c.video |->
                     IF c.video[n].codec = "copy" THEN CopiedVideo(StreamFor(f.video, c.video[n]), c)
                     ELSE EncodedVideo(StreamFor(f.video, c.video[n]), c)]
             A == [n \in DOMAIN c.audio |->
                     IF c.audio[n].codec = "copy" THEN StreamFor(f.audio, c.audio[n])
                     ELSE [StreamFor(f.audio, c.audio[n]) EXCEPT
                              !.codec = c.audio[n].codec, !.channels = c.audio[n].channels]]
             S == [n \in DOMAIN c.subtitle |->
                     IF c.subtitle[n].codec = "copy" THEN StreamFor(f.subtitle, c.subtitle[n])
                     ELSE [StreamFor(f.subtitle, c.subtitle[n]) EXCEPT
                              !.codec = SubtitleWritten(c.subtitle[n].codec)]]
  <1>1. out = [f EXCEPT !.format = {c.container}, !.duration = f.length,
                        !.video = V, !.audio = A, !.subtitle = S]
    BY DEF FFmpeg
  <1>2. /\ DOMAIN V = DOMAIN c.video /\ DOMAIN A = DOMAIN c.audio
        /\ DOMAIN S = DOMAIN c.subtitle
        /\ \A n \in DOMAIN c.video : V[n] =
                 IF c.video[n].codec = "copy" THEN CopiedVideo(StreamFor(f.video, c.video[n]), c)
                 ELSE EncodedVideo(StreamFor(f.video, c.video[n]), c)
        /\ \A n \in DOMAIN c.audio :
              A[n] = SoundWritten(StreamFor(f.audio, c.audio[n]), c.audio[n])
        /\ \A n \in DOMAIN c.subtitle :
              S[n] = TextWritten(StreamFor(f.subtitle, c.subtitle[n]), c.subtitle[n])
    BY DEF SoundWritten, TextWritten
  <1> HIDE DEF V, A, S
  <1>3. /\ Shaped(out) /\ out.format = {c.container} /\ out.ext = f.ext
        /\ out.video = V /\ out.audio = A /\ out.subtitle = S
    BY <1>1 DEF Shaped
  <1> QED
    BY <1>2, <1>3 DEF WrittenAs

\* A stream that is copied keeps what the policy looks at, but for the record and the
\* level; nothing is added by any damage.
DamagedAs(f, out, o) ==
    /\ Shaped(o) /\ o.format = out.format /\ o.ext = out.ext
    /\ DOMAIN o.video = DOMAIN out.video
    /\ \A n \in DOMAIN out.video : Marred(o.video[n], out.video[n], f)
    /\ DOMAIN o.audio = DOMAIN out.audio \/ o.audio = WithoutLast(out.audio)
    /\ \A n \in DOMAIN o.audio :
          \/ o.audio[n] = out.audio[n]
          \/ command.audio[n].codec # "copy" /\ o.audio[n] = Downmixed(out.audio[n])
    /\ o.subtitle = out.subtitle \/ o.subtitle = WithoutLast(out.subtitle)

LEMMA DamagedParts ==
    ASSUME NEW f, NEW out, Shaped(out), NEW fault \in Faults, NEW o, o = Damaged(f, out, fault)
    PROVE  DamagedAs(f, out, o)
  <1>1. CASE fault = "none"
    <2>1. o = out
      BY <1>1 DEF Damaged
    <2> QED
      BY <2>1 DEF Marred, DamagedAs
  <1>2. CASE fault = "short"
    <2>1. o = [out EXCEPT !.duration = @ \div 2]
      BY <1>2 DEF Damaged
    <2> QED
      BY <2>1 DEF Shaped, Marred, DamagedAs
  <1>3. CASE fault = "grown"
    <2>1. o = [out EXCEPT !.size = f.size + 1]
      BY <1>3 DEF Damaged
    <2> QED
      BY <2>1 DEF Shaped, Marred, DamagedAs
  <1>4. CASE fault = "lostaudio"
    <2>1. o = [out EXCEPT !.audio = WithoutLast(out.audio)]
      BY <1>4 DEF Damaged
    <2>2. /\ Shaped(o) /\ o.format = out.format /\ o.ext = out.ext /\ o.video = out.video
          /\ o.subtitle = out.subtitle /\ o.audio = WithoutLast(out.audio)
      BY <2>1 DEF Shaped
    <2>3. \A n \in DOMAIN o.audio : o.audio[n] = out.audio[n]
      BY <2>2 DEF WithoutLast
    <2> QED
      BY <2>2, <2>3 DEF Marred, DamagedAs
  <1>5. CASE fault = "lostsubtitle"
    <2>1. o = [out EXCEPT !.subtitle = WithoutLast(out.subtitle)]
      BY <1>5 DEF Damaged
    <2> QED
      BY <2>1 DEF Shaped, Marred, DamagedAs
  <1>6. CASE fault \in {"norecord", "level"}
    <2> DEFINE V == [n \in DOMAIN out.video |->
                       IF fault = "norecord" THEN [out.video[n] EXCEPT !["dv"] = 0]
                       ELSE [out.video[n] EXCEPT !["level"] = Primary(f).level]]
    <2>1. o = [out EXCEPT !.video = V]
      <3>1. CASE fault = "norecord"
        <4>1. o = OfVideo(out, "dv", 0)
          BY <3>1 DEF Damaged
        <4> QED
          BY <3>1, <4>1 DEF OfVideo
      <3>2. CASE fault = "level"
        <4>1. o = OfVideo(out, "level", Primary(f).level)
          BY <3>2 DEF Damaged
        <4> QED
          BY <3>2, <4>1 DEF OfVideo
      <3> QED
        BY <1>6, <3>1, <3>2
    <2>2. DOMAIN V = DOMAIN out.video /\ \A n \in DOMAIN out.video :
             Marred(V[n], out.video[n], f)
      BY DEF Marred
    <2> HIDE DEF V
    <2>3. /\ Shaped(o) /\ o.format = out.format /\ o.ext = out.ext /\ o.video = V
          /\ o.subtitle = out.subtitle /\ o.audio = out.audio
      BY <2>1 DEF Shaped
    <2> QED
      BY <2>2, <2>3 DEF DamagedAs
  <1>7. CASE fault = "downmix"
    <2> DEFINE A == [n \in DOMAIN out.audio |->
                       IF command.audio[n].codec = "copy" THEN out.audio[n]
                       ELSE [out.audio[n] EXCEPT !.channels = 1]]
    <2>1. o = [out EXCEPT !.audio = A]
      BY <1>7 DEF Damaged
    <2>2. DOMAIN A = DOMAIN out.audio /\ \A n \in DOMAIN out.audio :
             \/ A[n] = out.audio[n]
             \/ command.audio[n].codec # "copy" /\ A[n] = Downmixed(out.audio[n])
      BY DEF Downmixed
    <2> HIDE DEF A
    <2>3. /\ Shaped(o) /\ o.format = out.format /\ o.ext = out.ext /\ o.video = out.video
          /\ o.subtitle = out.subtitle /\ o.audio = A
      BY <2>1 DEF Shaped
    <2> QED
      BY <2>2, <2>3 DEF Marred, DamagedAs
  <1> QED
    BY <1>1, <1>2, <1>3, <1>4, <1>5, <1>6, <1>7 DEF Faults

-----------------------------------------------------------------------------
(* What becomes of each stream. *)

LEMMA SoundArrives ==
    ASSUME NEW f, ProbedFile(f), NEW to, NEW plans, plans = AudioPlans(f, to),
           NEW n \in Mapped(plans), NEW i, i = From(plans, n), NEW arg, arg = StreamArgs(plans)[n]
    PROVE  /\ i \in Kept(plans) /\ i \in DOMAIN f.audio /\ f.audio[i] \in AudioStream
           /\ StreamFor(f.audio, arg) = f.audio[i]
           /\ f.audio[i].codec \in AudioCopyList(f.audio[i].channels) => arg.codec = "copy"
           /\ f.audio[i].codec \notin AudioCopyList(f.audio[i].channels) =>
                 /\ arg.codec = AudioEncodeTarget(to, f.audio[i].channels).codec
                 /\ arg.channels = AudioEncodeTarget(to, f.audio[i].channels).channels
                 /\ arg.codec \in {"aac", "ac3"}
  <1>1. DOMAIN plans = DOMAIN f.audio /\ PlansAt(plans)
    BY DEF AudioPlans, ProbedFile, AtPositions, PlansAt
  <1>2. /\ i \in Kept(plans) /\ i \in DOMAIN f.audio
        /\ StreamFor(f.audio, arg) = Retagged(f.audio[i], plans[i])
        /\ arg.codec = CodecArg(plans[i]) /\ arg.channels = plans[i].target.channels
    BY <1>1, StreamIsTheOne
  <1>3. PICK s : s = f.audio[i] /\ s \in AudioStream
    BY <1>2 DEF ProbedFile, AtPositions
  <1>4. plans[i] = PlanAudio(s, to)
    BY <1>2, <1>3 DEF AudioPlans
  <1>5. plans[i].lang = s.lang /\ plans[i].flags = s.flags
    BY <1>4 DEF PlanAudio, StreamPlan
  <1>6. Retagged(s, plans[i]) = s
    BY <1>3, <1>5, RetaggedAsItWas
  <1>7. s.codec \in AudioCopyList(s.channels) => arg.codec = "copy"
    BY <1>2, <1>4 DEF PlanAudio, StreamPlan, CodecArg
  <1>8. ASSUME s.codec \notin AudioCopyList(s.channels)
        PROVE  /\ arg.codec = AudioEncodeTarget(to, s.channels).codec
               /\ arg.channels = AudioEncodeTarget(to, s.channels).channels
    <2>1. plans[i] = StreamPlan(s, "encode", AudioEncodeTarget(to, s.channels))
      BY <1>4, <1>8 DEF PlanAudio
    <2> QED
      BY <1>2, <2>1 DEF StreamPlan, CodecArg
  <1>9. AudioEncodeTarget(to, s.channels).codec \in {"aac", "ac3"}
    BY DEF AudioEncodeTarget
  <1> QED
    BY <1>2, <1>3, <1>5, <1>6, <1>7, <1>8, <1>9

LEMMA TextArrives ==
    ASSUME NEW f, ProbedFile(f), NEW to, NEW plans, plans = SubtitlePlans(f, to),
           NEW n \in Mapped(plans), NEW i, i = From(plans, n), NEW arg, arg = StreamArgs(plans)[n]
    PROVE  /\ i \in Kept(plans) /\ i \in DOMAIN f.subtitle /\ f.subtitle[i] \in SubtitleStream
           /\ StreamFor(f.subtitle, arg) = f.subtitle[i]
           /\ f.subtitle[i].codec \in TextSubtitles
           /\ f.subtitle[i].codec = SubtitleTarget(to) => arg.codec = "copy"
           /\ f.subtitle[i].codec # SubtitleTarget(to) =>
                 arg.codec = SubtitleEncoder(SubtitleTarget(to)) /\ arg.codec # "copy"
  <1>1. DOMAIN plans = DOMAIN f.subtitle /\ PlansAt(plans)
    BY DEF SubtitlePlans, ProbedFile, AtPositions, PlansAt
  <1>2. /\ i \in Kept(plans) /\ i \in DOMAIN f.subtitle
        /\ StreamFor(f.subtitle, arg) = Retagged(f.subtitle[i], plans[i])
        /\ arg.codec = CodecArg(plans[i])
    BY <1>1, StreamIsTheOne
  <1>3. PICK s : s = f.subtitle[i] /\ s \in SubtitleStream
    BY <1>2 DEF ProbedFile, AtPositions
  <1>4. plans[i] = PlanSubtitle(s, to)
    BY <1>2, <1>3 DEF SubtitlePlans
  <1>5. plans[i].lang = s.lang /\ plans[i].flags = s.flags
    BY <1>4 DEF PlanSubtitle, StreamPlan
  <1>6. Retagged(s, plans[i]) = s
    BY <1>3, <1>5, RetaggedAsItWas
  <1>7. s.codec \in TextSubtitles
    <2>1. plans[i].decision # "drop"
      BY <1>2 DEF Kept
    <2>2. s.codec \notin TextSubtitles => plans[i] = StreamPlan(s, "drop", NoTarget)
      <3>1. SubtitleTarget(to) \in TextSubtitles
        BY DEF SubtitleTarget, TextSubtitles
      <3> QED
        BY <1>4, <3>1 DEF PlanSubtitle
    <2>3. StreamPlan(s, "drop", NoTarget).decision = "drop"
      BY DEF StreamPlan
    <2> QED
      BY <2>1, <2>2, <2>3
  <1>8. s.codec = SubtitleTarget(to) => arg.codec = "copy"
    <2>1. ASSUME s.codec = SubtitleTarget(to) PROVE plans[i] = StreamPlan(s, "copy", NoTarget)
      BY <1>4, <1>7, <2>1 DEF PlanSubtitle
    <2> QED
      BY <1>2, <2>1 DEF StreamPlan, CodecArg
  <1>9. ASSUME s.codec # SubtitleTarget(to)
        PROVE  arg.codec = SubtitleEncoder(SubtitleTarget(to)) /\ arg.codec # "copy"
    <2>1. plans[i] = StreamPlan(s, "convert",
                                [NoTarget EXCEPT !.codec = SubtitleEncoder(SubtitleTarget(to))])
      BY <1>4, <1>7, <1>9 DEF PlanSubtitle
    <2>2. plans[i].decision = "convert"
          /\ plans[i].target.codec = SubtitleEncoder(SubtitleTarget(to))
      <3>1. PICK x : x = SubtitleEncoder(SubtitleTarget(to))
        OBVIOUS
      <3>2. plans[i] = StreamPlan(s, "convert", [NoTarget EXCEPT !.codec = x])
        BY <2>1, <3>1
      <3>3. [NoTarget EXCEPT !.codec = x].codec = x
        BY DEF NoTarget
      <3>4. /\ plans[i].decision = "convert"
            /\ plans[i].target = [NoTarget EXCEPT !.codec = x]
        BY <3>2 DEF StreamPlan
      <3> QED
        BY <3>1, <3>3, <3>4
    <2>3. arg.codec = SubtitleEncoder(SubtitleTarget(to))
      BY <1>2, <2>2 DEF CodecArg
    <2> QED
      BY <2>3 DEF SubtitleEncoder, SubtitleTarget
  <1> QED
    BY <1>2, <1>3, <1>5, <1>6, <1>7, <1>8, <1>9

LEMMA PictureArrives ==
    ASSUME NEW f, ProbedFile(f), ~NoVideoStream(f), NEW idet, NEW forced \in BOOLEAN,
           NEW p, p = Made(f, idet, forced), NEW arg, arg = StreamArgs(p.video)[0]
    PROVE  /\ Mapped(p.video) = {0} /\ StreamFor(f.video, arg) = Primary(f)
           /\ EncodesVideo(p) => arg.codec = "hevc"
           /\ ~EncodesVideo(p) => arg.codec = "copy"
  <1>1. PICK P : P = PrimaryVideo(f)
    OBVIOUS
  <1>2. /\ P \in DOMAIN f.video /\ DOMAIN p.video = DOMAIN f.video /\ Kept(p.video) = {P}
        /\ p.video[P].lang = f.video[P].lang /\ p.video[P].flags = f.video[P].flags
        /\ p.video[P].decision \in {"copy", "encode"}
        /\ EncodesVideo(p) <=> p.video[P].decision = "encode"
        /\ p.video[P].decision = "encode" => p.video[P].target = HEVC
    BY <1>1, MadePicture
  <1>3. PlansAt(p.video) /\ P \in Nat
    BY <1>2 DEF ProbedFile, AtPositions, PlansAt
  <1>4. OutputIndex(p.video, P) = 0
    <2>1. {k \in {P} : k < P} = {}
      BY <1>3
    <2> QED
      BY <1>2, <2>1, FS_EmptySet DEF OutputIndex, Ordinal
  <1>5. Mapped(p.video) = {0}
    BY <1>2, <1>4 DEF Mapped
  <1>6. From(p.video, 0) = P
    BY <1>2, <1>3, <1>4, FromFinds
  <1>7. /\ StreamFor(f.video, arg) = Retagged(f.video[P], p.video[P])
        /\ arg.codec = CodecArg(p.video[P])
    BY <1>2, <1>3, <1>5, <1>6, StreamIsTheOne
  <1>8. PICK s : s = f.video[P] /\ s \in VideoStream /\ s = Primary(f)
    BY <1>1, PrimaryIsFirst DEF Primary
  <1>9. Retagged(s, p.video[P]) = s
    BY <1>2, <1>8 DEF Retagged, VideoStream
  <1>10. StreamFor(f.video, arg) = Primary(f)
    BY <1>2, <1>7, <1>8, <1>9
  <1>11. EncodesVideo(p) => arg.codec = "hevc"
    BY <1>2, <1>7 DEF CodecArg, HEVC, NoTarget
  <1>12. ~EncodesVideo(p) => arg.codec = "copy"
    BY <1>2, <1>7 DEF CodecArg
  <1> QED
    BY <1>5, <1>10, <1>11, <1>12

LEMMA BuildParts ==
    ASSUME NEW r, NEW c, c = Build(r)
    PROVE  /\ c.video = StreamArgs(r.plan.video) /\ c.audio = StreamArgs(r.plan.audio)
           /\ c.subtitle = StreamArgs(r.plan.subtitle) /\ c.container = r.plan.to
           /\ EncodesVideo(r.plan) =>
                 /\ c.filters = VideoFilters(r) /\ c.profile = VideoProfile(r.plan)
                 /\ c.transfer = IF r.plan.hdr THEN HDRTransfer ELSE ""
           /\ ~EncodesVideo(r.plan) =>
                 /\ c.level = IF r.plan.levelRewrite THEN H264MaxLevel ELSE 0
                 /\ c.tag = IF r.plan.to = "mp4" /\ r.codec = "hevc" THEN MP4HEVCTag(r.plan) ELSE ""
  BY DEF Build, VideoArgs, CopiedVideoArgs

\* The picture as ffmpeg writes it, for the plan p of the file f.
Picture(f, p, c) == IF EncodesVideo(p) THEN EncodedVideo(Primary(f), c) ELSE CopiedVideo(Primary(f), c)

LEMMA PictureWritten ==
    ASSUME NEW f, ProbedFile(f), ~NoVideoStream(f), NEW idet, NEW forced \in BOOLEAN,
           NEW p, p = Made(f, idet, forced), NEW r, r.plan = p, NEW c, c = Build(r),
           NEW out, out = FFmpeg(f, c)
    PROVE  DOMAIN out.video = {0} /\ out.video[0] = Picture(f, p, c)
  <1>1. PICK arg : arg = StreamArgs(p.video)[0]
    OBVIOUS
  <1>2. /\ Mapped(p.video) = {0} /\ StreamFor(f.video, arg) = Primary(f)
        /\ EncodesVideo(p) => arg.codec = "hevc"
        /\ ~EncodesVideo(p) => arg.codec = "copy"
    BY <1>1, PictureArrives
  <1>3. c.video = StreamArgs(p.video)
    BY BuildParts
  <1>4. DOMAIN c.video = {0} /\ c.video[0] = arg
    BY <1>1, <1>2, <1>3 DEF StreamArgs
  <1>5. /\ DOMAIN out.video = DOMAIN c.video
        /\ \A n \in DOMAIN c.video : out.video[n] =
              IF c.video[n].codec = "copy" THEN CopiedVideo(StreamFor(f.video, c.video[n]), c)
              ELSE EncodedVideo(StreamFor(f.video, c.video[n]), c)
    <2>1. WrittenAs(f, c, out)
      BY ProbedIsShaped, WrittenParts
    <2> QED
      BY <2>1 DEF WrittenAs
  <1>6. out.video[0] = IF arg.codec = "copy" THEN CopiedVideo(Primary(f), c)
                       ELSE EncodedVideo(Primary(f), c)
    BY <1>2, <1>4, <1>5
  <1> QED
    BY <1>2, <1>4, <1>5, <1>6 DEF Picture

LEMMA MarredPicture ==
    ASSUME NEW f, NEW w, NEW v, Marred(v, w, f),
           w = [codec |-> w.codec, profile |-> w.profile, level |-> w.level, pixFmt |-> w.pixFmt,
                order |-> w.order, pic |-> w.pic, width |-> w.width, height |-> w.height,
                fps |-> w.fps, refs |-> w.refs, dv |-> w.dv, transfer |-> w.transfer,
                content |-> w.content, lang |-> w.lang, flags |-> w.flags]
    PROVE  /\ v.codec = w.codec /\ v.profile = w.profile /\ v.pixFmt = w.pixFmt
           /\ v.order = w.order /\ v.pic = w.pic /\ v.width = w.width /\ v.height = w.height
           /\ v.fps = w.fps /\ v.refs = w.refs /\ v.transfer = w.transfer
           /\ v.content = w.content /\ v.lang = w.lang /\ v.flags = w.flags
           /\ v.level \in {w.level, Primary(f).level} /\ v.dv \in {0, w.dv}
  <1>1. CASE v = w
    BY <1>1
  <1>2. CASE v = [w EXCEPT !.dv = 0]
    BY <1>2
  <1>3. CASE v = [w EXCEPT !.level = Primary(f).level]
    BY <1>3
  <1> QED
    BY <1>1, <1>2, <1>3 DEF Marred

LEMMA CopiedPicture ==
    ASSUME NEW f, NEW s, s \in VideoStream, s = Primary(f), NEW c,
           NEW v, Marred(v, CopiedVideo(s, c), f)
    PROVE  /\ v.codec = s.codec /\ v.profile = s.profile /\ v.pixFmt = s.pixFmt
           /\ v.order = s.order /\ v.pic = s.pic /\ v.width = s.width /\ v.height = s.height
           /\ v.fps = s.fps /\ v.refs = s.refs /\ v.transfer = s.transfer
           /\ v.content = s.content /\ v.lang = s.lang /\ v.flags = s.flags
           /\ v.level = s.level \/ (c.level > 0 /\ v.level = c.level)
           /\ v.dv \in {0, s.dv}
  <1>1. PICK w : w = CopiedVideo(s, c)
    OBVIOUS
  <1>2. w = [s EXCEPT !.level = IF c.level > 0 THEN c.level ELSE s.level,
                      !.dv = IF c.container = "mp4" /\ c.tag # "dvh1" THEN 0 ELSE s.dv]
    BY <1>1 DEF CopiedVideo
  <1>3. PICK l, d : /\ w = [s EXCEPT !.level = l, !.dv = d]
                    /\ l = s.level \/ (c.level > 0 /\ l = c.level)
                    /\ d \in {0, s.dv}
    BY <1>2
  <1>4. /\ w = [codec |-> s.codec, profile |-> s.profile, level |-> l, pixFmt |-> s.pixFmt,
                order |-> s.order, pic |-> s.pic, width |-> s.width, height |-> s.height,
                fps |-> s.fps, refs |-> s.refs, dv |-> d, transfer |-> s.transfer,
                content |-> s.content, lang |-> s.lang, flags |-> s.flags]
    BY <1>3 DEF VideoStream
  <1>5. v = w \/ v = [w EXCEPT !.dv = 0] \/ v = [w EXCEPT !.level = s.level]
    BY <1>1 DEF Marred
  <1>6. CASE v = w
    BY <1>3, <1>4, <1>6
  <1>7. CASE v = [w EXCEPT !.dv = 0]
    BY <1>3, <1>4, <1>7
  <1>8. CASE v = [w EXCEPT !.level = s.level]
    BY <1>3, <1>4, <1>8
  <1> QED
    BY <1>5, <1>6, <1>7, <1>8

EncodedAs(v, s, c) ==
    /\ v.codec = "hevc" /\ v.profile = c.profile /\ v.pic = s.pic
    /\ v.pixFmt = IF c.profile = "Main 10" THEN "yuv420p10le" ELSE "yuv420p"
    /\ v.order = IF c.filters # <<>> /\ c.filters[1] # "hwupload" THEN "progressive" ELSE s.order
    /\ v.width = s.width /\ v.height = s.height /\ v.fps = s.fps /\ v.refs = s.refs
    /\ v.content = s.content /\ v.lang = s.lang /\ v.flags = s.flags
    /\ v.transfer = c.transfer /\ v.dv = 0

LEMMA EncodedPicture ==
    ASSUME NEW f, NEW s, s \in VideoStream, s = Primary(f), NEW c,
           NEW v, Marred(v, EncodedVideo(s, c), f)
    PROVE  EncodedAs(v, s, c)
  <1>1. PICK w : w = EncodedVideo(s, c)
    OBVIOUS
  <1>2. PICK pf, o : /\ pf = IF c.profile = "Main 10" THEN "yuv420p10le" ELSE "yuv420p"
                     /\ o = IF c.filters # <<>> /\ c.filters[1] # "hwupload"
                            THEN "progressive" ELSE s.order
    OBVIOUS
  <1>3. w = [s EXCEPT !.codec = "hevc", !.profile = c.profile, !.level = 120, !.pixFmt = pf,
                      !.order = o, !.transfer = c.transfer, !.dv = 0]
    BY <1>1, <1>2 DEF EncodedVideo
  <1>4. /\ w = [codec |-> "hevc", profile |-> c.profile, level |-> 120, pixFmt |-> pf,
                order |-> o, pic |-> s.pic, width |-> s.width, height |-> s.height,
                fps |-> s.fps, refs |-> s.refs, dv |-> 0, transfer |-> c.transfer,
                content |-> s.content, lang |-> s.lang, flags |-> s.flags]
    <2>1. s = [codec |-> s.codec, profile |-> s.profile, level |-> s.level, pixFmt |-> s.pixFmt,
               order |-> s.order, pic |-> s.pic, width |-> s.width, height |-> s.height,
               fps |-> s.fps, refs |-> s.refs, dv |-> s.dv, transfer |-> s.transfer,
               content |-> s.content, lang |-> s.lang, flags |-> s.flags]
      BY DEF VideoStream
    <2> QED
      BY ONLY <1>3, <2>1
  <1>5. Marred(v, w, f)
    BY <1>1
  <1>6. /\ w.codec = "hevc" /\ w.profile = c.profile /\ w.pixFmt = pf /\ w.order = o
        /\ w.pic = s.pic /\ w.width = s.width /\ w.height = s.height /\ w.fps = s.fps
        /\ w.refs = s.refs /\ w.dv = 0 /\ w.transfer = c.transfer /\ w.content = s.content
        /\ w.lang = s.lang /\ w.flags = s.flags /\ w.level = 120
    BY <1>4
  <1>7. w = [codec |-> w.codec, profile |-> w.profile, level |-> w.level, pixFmt |-> w.pixFmt,
             order |-> w.order, pic |-> w.pic, width |-> w.width, height |-> w.height,
             fps |-> w.fps, refs |-> w.refs, dv |-> w.dv, transfer |-> w.transfer,
             content |-> w.content, lang |-> w.lang, flags |-> w.flags]
    BY <1>4, <1>6
  <1>8. /\ v.codec = w.codec /\ v.profile = w.profile /\ v.pixFmt = w.pixFmt
        /\ v.order = w.order /\ v.pic = w.pic /\ v.width = w.width /\ v.height = w.height
        /\ v.fps = w.fps /\ v.refs = w.refs /\ v.transfer = w.transfer
        /\ v.content = w.content /\ v.lang = w.lang /\ v.flags = w.flags /\ v.dv \in {0, w.dv}
    BY ONLY <1>5, <1>7, MarredPicture
  <1>9. v.dv = 0
    BY <1>6, <1>8
  <1> QED
    BY <1>2, <1>6, <1>8, <1>9 DEF EncodedAs

-----------------------------------------------------------------------------
(* What is written, the policy passes over. *)

Scans == {NoSample, "progressive", "interlaced"}

\* A sample is taken only of a stream that does not say how it is scanned.
LEMMA SampledIsUnknown ==
    ASSUME NEW f, NeedsIdetSample(f, NoSample)
    PROVE  ~Interlaced(Primary(f))
  <1>1. IdetPending(Primary(f), NoSample)
    BY DEF NeedsIdetSample, Verdict, PlanVideo, VideoVerdict
  <1> QED
    BY <1>1 DEF IdetPending, FieldOrderKnown, Interlaced

LEMMA ScanTells ==
    ASSUME NEW f, NEW idet \in Scans, idet # NoSample => NeedsIdetSample(f, NoSample),
           ScanOf(Primary(f), idet) # "interlaced"
    PROVE  ~Interlaced(Primary(f))
  BY SampledIsUnknown DEF ScanOf, Scans

\* The verdicts one by one.
CopiesAsItIs(v) == v.decision = "copy" /\ ~v.levelRewrite /\ ~v.deinterlace /\ ~v.needsIdet

LEMMA VerdictCases ==
    ASSUME NEW s, NEW scan, NEW pending, NEW v, v = PlanVideo(s, scan, pending)
    PROVE  \/ CopyFailures(s, scan) = {} /\ CopiesAsItIs(v)
           \/ CopyFailures(s, scan) # {} /\ s.dv = NoEncodeProfile /\ CopiesAsItIs(v)
           \/ /\ CopyFailures(s, scan) = {"level"} /\ s.dv # NoEncodeProfile
              /\ v.decision = "copy" /\ v.levelRewrite /\ ~v.deinterlace /\ ~v.needsIdet
           \/ /\ s.dv # NoEncodeProfile /\ v.decision = "encode" /\ ~v.levelRewrite
              /\ v.deinterlace <=> scan = "interlaced"
  <1>1. CASE CopyFailures(s, scan) = {}
    BY <1>1 DEF PlanVideo, VideoVerdict, CopiesAsItIs
  <1>2. CASE CopyFailures(s, scan) # {} /\ s.dv = NoEncodeProfile
    BY <1>2 DEF PlanVideo, VideoVerdict, CopiesAsItIs
  <1>3. CASE CopyFailures(s, scan) = {"level"} /\ s.dv # NoEncodeProfile /\ LevelRewriteApplies(s)
    BY <1>3 DEF PlanVideo, VideoVerdict
  <1>4. CASE /\ CopyFailures(s, scan) # {} /\ s.dv # NoEncodeProfile
             /\ ~(CopyFailures(s, scan) = {"level"} /\ LevelRewriteApplies(s))
    <2>1. PICK di \in BOOLEAN : di = (scan = "interlaced")
      OBVIOUS
    <2>2. v = VideoVerdict("encode", FALSE, di, pending)
      BY <1>4, <2>1 DEF PlanVideo
    <2>3. v.decision = "encode" /\ v.levelRewrite = FALSE /\ v.deinterlace = di
      BY <2>2 DEF VideoVerdict
    <2> QED
      BY <1>4, <2>1, <2>3
  <1> QED
    BY <1>1, <1>2, <1>3, <1>4

LEMMA NothingFails ==
    ASSUME NEW s, NEW scan, CopyFailures(s, scan) = {}, NEW pending
    PROVE  CopiesAsItIs(PlanVideo(s, scan, pending))
  BY DEF PlanVideo, VideoVerdict, CopiesAsItIs

\* A video that is to be encoded although it need not be is progressive.
LEMMA EncodedScan ==
    ASSUME NEW f, NEW idet, NEW v, v = Verdict(f, idet),
           v.decision = "encode" \/ Primary(f).dv # NoEncodeProfile, ~v.deinterlace
    PROVE  ScanOf(Primary(f), idet) # "interlaced"
  <1>1. PICK s, scan, pending : /\ s = Primary(f) /\ scan = ScanOf(Primary(f), idet)
                                /\ pending = IdetPending(Primary(f), idet)
    OBVIOUS
  <1>2. v = PlanVideo(s, scan, pending)
    BY <1>1 DEF Verdict
  <1>3. scan = "interlaced" => "scan" \in CopyFailures(s, scan)
    BY DEF CopyFailures
  <1>4. scan # "interlaced"
    BY <1>1, <1>2, <1>3, VerdictCases DEF CopiesAsItIs
  <1> QED
    BY <1>1, <1>4

LEMMA FirstFilter ==
    ASSUME NEW r, EncodesVideo(r.plan), r.plan.deinterlace
    PROVE  VideoFilters(r) # <<>> /\ VideoFilters(r)[1] # "hwupload"
  <1> DEFINE d == IF DecodePath(r) # "hardware" THEN "bwdif"
                  ELSE IF r.encoder = "hevc_vaapi" THEN "deinterlace_vaapi" ELSE "vpp_qsv"
  <1>1. VideoFilters(r) = <<d>>
                    \o (IF DecodePath(r) # "hardware" /\ r.encoder # Software
                        THEN <<"hwupload">> ELSE <<>>)
    BY DEF VideoFilters
  <1>2. d # "hwupload"
    OBVIOUS
  <1> HIDE DEF d
  <1>3. <<d>> \o <<"hwupload">> = <<d, "hwupload">> /\ <<d>> \o <<>> = <<d>>
    BY Joined
  <1>4. VideoFilters(r) = <<d, "hwupload">> \/ VideoFilters(r) = <<d>>
    BY <1>1, <1>3
  <1>5. <<d>>[1] = d /\ <<d, "hwupload">>[1] = d /\ <<d>> # <<>> /\ <<d, "hwupload">> # <<>>
    OBVIOUS
  <1> QED
    BY <1>2, <1>4, <1>5

\* The plan and the command of a job.
Job(f, idet, forced, p, r, c) ==
    /\ ProbedFile(f) /\ ~NoVideoStream(f) /\ forced \in BOOLEAN
    /\ idet \in Scans /\ (idet # NoSample => NeedsIdetSample(f, NoSample))
    /\ forced => Primary(f).dv # NoEncodeProfile
    /\ p = Made(f, idet, forced) /\ r.plan = p /\ r.codec = Primary(f).codec /\ c = Build(r)

LEMMA EncodedComplies ==
    ASSUME NEW f, NEW idet, NEW forced, NEW p, NEW r, NEW c, Job(f, idet, forced, p, r, c),
           EncodesVideo(p), NEW v, Marred(v, Picture(f, p, c), f)
    PROVE  CopyFailures(v, ScanOf(v, NoSample)) = {}
  <1>1. PICK s \in VideoStream : s = Primary(f)
    BY PrimaryIsFirst DEF Job
  <1>2. /\ c.filters = VideoFilters(r) /\ c.profile = VideoProfile(p)
    <2>1. c = Build(r) /\ r.plan = p
      BY DEF Job
    <2> QED
      BY <2>1, BuildParts
  <1>3. Marred(v, EncodedVideo(s, c), f)
    BY <1>1 DEF Picture
  <1>4. /\ v.codec = "hevc" /\ v.profile = c.profile
        /\ v.pixFmt = IF c.profile = "Main 10" THEN "yuv420p10le" ELSE "yuv420p"
        /\ v.order = IF c.filters # <<>> /\ c.filters[1] # "hwupload" THEN "progressive" ELSE s.order
    <2>1. EncodedAs(v, s, c)
      BY <1>1, <1>3, EncodedPicture
    <2> QED
      BY <2>1 DEF EncodedAs
  <1>5. p.deinterlace = Verdict(f, idet).deinterlace
        /\ (EncodesVideo(p) <=> forced \/ Verdict(f, idet).decision = "encode")
    BY MadePicture DEF Job
  <1>6. ~Interlaced(v)
    <2>1. CASE p.deinterlace
      <3>1. v.order = "progressive"
        BY <1>2, <1>4, <2>1, FirstFilter DEF Job
      <3> QED
        BY <3>1 DEF Interlaced
    <2>2. CASE ~p.deinterlace
      <3>1. ScanOf(Primary(f), idet) # "interlaced"
        BY <1>5, <2>2, EncodedScan DEF Job
      <3>2. ~Interlaced(s)
        BY <1>1, <3>1, ScanTells DEF Job
      <3>3. v.order \in {"progressive", s.order}
        BY <1>4
      <3> QED
        BY <3>2, <3>3 DEF Interlaced
    <2> QED
      BY <2>1, <2>2
  <1>7. ScanOf(v, NoSample) = "progressive"
    BY <1>6 DEF ScanOf
  <1>8. v.profile \in {"Main", "Main 10"}
    BY <1>2, <1>4 DEF VideoProfile
  <1>9. ChromaOf(v.pixFmt) = "4:2:0"
    BY <1>4 DEF ChromaOf
  <1> QED
    BY <1>4, <1>7, <1>8, <1>9 DEF CopyFailures, CopyProfiles, VideoCopyCodecs

\* What the checks of an output say of a copy.
Excused(p, v) ==
    /\ p.levelRewrite => LevelKnown(v) /\ v.level = H264MaxLevel
    /\ p.dv = NoEncodeProfile => v.dv > 0

LEMMA CopyComplies ==
    ASSUME NEW f, NEW idet, NEW forced, NEW p, NEW r, NEW c, Job(f, idet, forced, p, r, c),
           ~EncodesVideo(p), NEW v, Marred(v, Picture(f, p, c), f), Excused(p, v)
    PROVE  \/ CopyFailures(v, ScanOf(v, NoSample)) = {}
           \/ v.dv = NoEncodeProfile
  <1>1. PICK s \in VideoStream : s = Primary(f)
    BY PrimaryIsFirst DEF Job
  <1>2. PICK scan, pending : scan = ScanOf(s, idet) /\ pending = IdetPending(s, idet)
    OBVIOUS
  <1>3. PICK d : d = Verdict(f, idet) /\ d = PlanVideo(s, scan, pending)
    BY <1>1, <1>2 DEF Verdict
  <1>4. /\ EncodesVideo(p) <=> forced \/ Verdict(f, idet).decision = "encode"
        /\ p.levelRewrite <=> ~forced /\ Verdict(f, idet).levelRewrite
        /\ p.dv = Primary(f).dv
    BY MadePicture DEF Job
  <1>5. ~forced /\ d.decision # "encode" /\ (p.levelRewrite <=> d.levelRewrite) /\ p.dv = s.dv
    BY <1>1, <1>3, <1>4
  <1>6. c.level = IF p.levelRewrite THEN H264MaxLevel ELSE 0
    BY BuildParts DEF Job
  <1>7. /\ v.codec = s.codec /\ v.profile = s.profile /\ v.pixFmt = s.pixFmt
        /\ v.order = s.order /\ (v.level = s.level \/ (c.level > 0 /\ v.level = c.level))
        /\ v.dv \in {0, s.dv}
    <2>1. Marred(v, CopiedVideo(s, c), f)
      BY <1>1 DEF Picture
    <2> QED
      BY <1>1, <2>1, CopiedPicture
  <1>8. scan # "interlaced" => ScanOf(v, NoSample) = "progressive"
    <2>1. ASSUME scan # "interlaced" PROVE ~Interlaced(s)
      BY <1>1, <1>2, <2>1, ScanTells DEF Job
    <2> QED
      BY <1>7, <2>1 DEF ScanOf, Interlaced
  <1>9. scan = "interlaced" => "scan" \in CopyFailures(s, scan)
    BY DEF CopyFailures
  <1>10. CASE CopyFailures(s, scan) = {} /\ CopiesAsItIs(d)
    <2>1. ~p.levelRewrite /\ ~(c.level > 0) /\ scan # "interlaced"
      BY <1>5, <1>6, <1>9, <1>10 DEF CopiesAsItIs
    <2>2. v.level = s.level /\ ScanOf(v, NoSample) = "progressive"
      BY <1>7, <1>8, <2>1
    <2>3. \A x \in {"codec", "profile", "level", "chroma", "scan"} :
             x \in CopyFailures(v, "progressive") => x \in CopyFailures(s, scan)
      BY <1>7, <2>2 DEF CopyFailures, LevelKnown
    <2>4. CopyFailures(v, "progressive") \subseteq {"codec", "profile", "level", "chroma", "scan"}
      BY DEF CopyFailures
    <2> QED
      BY <1>10, <2>2, <2>3, <2>4
  <1>11. CASE CopyFailures(s, scan) # {} /\ s.dv = NoEncodeProfile /\ CopiesAsItIs(d)
    <2>1. v.dv > 0
      BY <1>5, <1>11 DEF Excused
    <2> QED
      BY <1>7, <1>11, <2>1 DEF NoEncodeProfile
  <1>12. CASE CopyFailures(s, scan) = {"level"} /\ d.levelRewrite
    <2>1. p.levelRewrite /\ LevelKnown(v) /\ v.level = H264MaxLevel
      BY <1>5, <1>12 DEF Excused
    <2>2. ScanOf(v, NoSample) = "progressive"
      BY <1>8, <1>9, <1>12
    <2>3. \A x \in {"codec", "profile", "chroma", "scan"} :
             x \in CopyFailures(v, "progressive") => x \in CopyFailures(s, scan)
      BY <1>7 DEF CopyFailures
    <2>4. "level" \notin CopyFailures(v, "progressive")
      BY <2>1 DEF CopyFailures, H264MaxLevel
    <2>5. CopyFailures(v, "progressive") \subseteq {"codec", "profile", "level", "chroma", "scan"}
      BY DEF CopyFailures
    <2> QED
      BY <1>12, <2>2, <2>3, <2>4, <2>5
  <1> QED
    BY <1>3, <1>5, <1>10, <1>11, <1>12, VerdictCases

\* The streams of the output, one by one.
LEMMA StreamsWritten ==
    ASSUME NEW f, NEW idet, NEW forced, NEW p, NEW r, NEW c, Job(f, idet, forced, p, r, c),
           NEW out, out = FFmpeg(f, c)
    PROVE  /\ Shaped(out) /\ out.format = {p.to} /\ out.ext = f.ext
           /\ DOMAIN out.video = {0} /\ out.video[0] = Picture(f, p, c)
           /\ DOMAIN out.audio = Mapped(p.audio) /\ DOMAIN out.subtitle = Mapped(p.subtitle)
           /\ \A n \in Mapped(p.audio) :
                 out.audio[n] = SoundWritten(f.audio[From(p.audio, n)], c.audio[n])
           /\ \A n \in Mapped(p.subtitle) :
                 out.subtitle[n] = TextWritten(f.subtitle[From(p.subtitle, n)], c.subtitle[n])
           /\ c.audio = StreamArgs(p.audio) /\ c.subtitle = StreamArgs(p.subtitle)
           /\ p.audio = AudioPlans(f, p.to) /\ p.subtitle = SubtitlePlans(f, p.to)
  <1>1. /\ c.audio = StreamArgs(p.audio) /\ c.subtitle = StreamArgs(p.subtitle)
        /\ c.container = p.to
    <2>1. c = Build(r) /\ r.plan = p
      BY DEF Job
    <2> QED
      BY <2>1, BuildParts
  <1>2. p.audio = AudioPlans(f, p.to) /\ p.subtitle = SubtitlePlans(f, p.to)
    BY MadePicture DEF Job
  <1>3. DOMAIN out.video = {0} /\ out.video[0] = Picture(f, p, c)
    BY PictureWritten DEF Job
  <1>4. WrittenAs(f, c, out)
    BY ProbedIsShaped, WrittenParts DEF Job
  <1>5. DOMAIN c.audio = Mapped(p.audio) /\ DOMAIN c.subtitle = Mapped(p.subtitle)
    BY <1>1 DEF StreamArgs
  <1>6. /\ Shaped(out) /\ out.format = {p.to} /\ out.ext = f.ext
        /\ DOMAIN out.audio = Mapped(p.audio) /\ DOMAIN out.subtitle = Mapped(p.subtitle)
        /\ \A n \in Mapped(p.audio) :
              out.audio[n] = SoundWritten(StreamFor(f.audio, c.audio[n]), c.audio[n])
        /\ \A n \in Mapped(p.subtitle) :
              out.subtitle[n] = TextWritten(StreamFor(f.subtitle, c.subtitle[n]), c.subtitle[n])
    BY <1>1, <1>4, <1>5 DEF WrittenAs
  <1>7. \A n \in Mapped(p.audio) : StreamFor(f.audio, c.audio[n]) = f.audio[From(p.audio, n)]
    BY <1>1, <1>2, SoundArrives DEF Job
  <1>8. \A n \in Mapped(p.subtitle) :
           StreamFor(f.subtitle, c.subtitle[n]) = f.subtitle[From(p.subtitle, n)]
    BY <1>1, <1>2, TextArrives DEF Job
  <1> QED
    BY <1>1, <1>2, <1>3, <1>6, <1>7, <1>8

LEMMA SoundComplies ==
    ASSUME NEW f, NEW idet, NEW forced, NEW p, NEW r, Job(f, idet, forced, p, r, command),
           NEW out, out = FFmpeg(f, command), NEW o, DamagedAs(f, out, o),
           NEW n \in DOMAIN o.audio
    PROVE  o.audio[n].codec \in AudioCopyList(o.audio[n].channels)
  <1>1. /\ DOMAIN out.audio = Mapped(p.audio) /\ command.audio = StreamArgs(p.audio)
        /\ p.audio = AudioPlans(f, p.to)
        /\ \A k \in Mapped(p.audio) :
              out.audio[k] = SoundWritten(f.audio[From(p.audio, k)], command.audio[k])
    BY StreamsWritten
  <1>2. n \in Mapped(p.audio)
    BY <1>1 DEF DamagedAs, WithoutLast
  <1>3. PICK i, arg : i = From(p.audio, n) /\ arg = command.audio[n]
    OBVIOUS
  <1>4. /\ f.audio[i] \in AudioStream
        /\ f.audio[i].codec \in AudioCopyList(f.audio[i].channels) => arg.codec = "copy"
        /\ f.audio[i].codec \notin AudioCopyList(f.audio[i].channels) => arg.codec \in {"aac", "ac3"}
    BY <1>1, <1>2, <1>3, SoundArrives DEF Job
  <1>5. PICK s \in AudioStream : s = f.audio[i]
    BY <1>4
  <1>6. out.audio[n] = SoundWritten(s, arg)
    BY <1>1, <1>2, <1>3, <1>5
  <1>7. o.audio[n] = out.audio[n] \/ (arg.codec # "copy" /\ o.audio[n] = Downmixed(out.audio[n]))
    BY <1>3 DEF DamagedAs
  <1>8. \A ch : "aac" \in AudioCopyList(ch) /\ "ac3" \in AudioCopyList(ch)
    BY DEF AudioCopyList
  <1>9. CASE s.codec \in AudioCopyList(s.channels)
    BY <1>4, <1>5, <1>6, <1>7, <1>9 DEF SoundWritten
  <1>10. CASE s.codec \notin AudioCopyList(s.channels)
    <2>1. arg.codec \in {"aac", "ac3"} /\ arg.codec # "copy"
      BY <1>4, <1>5, <1>10
    <2>2. out.audio[n] = [s EXCEPT !.codec = arg.codec, !.channels = arg.channels]
      BY <1>6, <2>1 DEF SoundWritten
    <2>3. out.audio[n] = [codec |-> arg.codec, channels |-> arg.channels, content |-> s.content,
                          lang |-> s.lang, flags |-> s.flags]
      BY <2>2 DEF AudioStream
    <2>4. o.audio[n].codec = arg.codec
      BY <1>7, <2>3 DEF Downmixed
    <2> QED
      BY <1>8, <2>1, <2>4
  <1> QED
    BY <1>9, <1>10

LEMMA TextComplies ==
    ASSUME NEW f, NEW idet, NEW forced, NEW p, NEW r, Job(f, idet, forced, p, r, command),
           NEW out, out = FFmpeg(f, command), NEW o, DamagedAs(f, out, o),
           NEW n \in DOMAIN o.subtitle
    PROVE  o.subtitle[n].codec = SubtitleTarget(p.to)
  <1>1. /\ DOMAIN out.subtitle = Mapped(p.subtitle) /\ command.subtitle = StreamArgs(p.subtitle)
        /\ p.subtitle = SubtitlePlans(f, p.to)
        /\ \A k \in Mapped(p.subtitle) :
              out.subtitle[k] = TextWritten(f.subtitle[From(p.subtitle, k)], command.subtitle[k])
    BY StreamsWritten
  <1>2. n \in Mapped(p.subtitle) /\ o.subtitle[n] = out.subtitle[n]
    BY <1>1 DEF DamagedAs, WithoutLast
  <1>3. PICK i, arg : i = From(p.subtitle, n) /\ arg = command.subtitle[n]
    OBVIOUS
  <1>4. /\ f.subtitle[i] \in SubtitleStream
        /\ f.subtitle[i].codec = SubtitleTarget(p.to) => arg.codec = "copy"
        /\ f.subtitle[i].codec # SubtitleTarget(p.to) =>
              arg.codec = SubtitleEncoder(SubtitleTarget(p.to)) /\ arg.codec # "copy"
    BY <1>1, <1>2, <1>3, TextArrives DEF Job
  <1>5. PICK s \in SubtitleStream : s = f.subtitle[i]
    BY <1>4
  <1>6. o.subtitle[n] = TextWritten(s, arg)
    BY <1>1, <1>2, <1>3, <1>5
  <1>7. SubtitleWritten(SubtitleEncoder(SubtitleTarget(p.to))) = SubtitleTarget(p.to)
    BY DEF SubtitleWritten, SubtitleEncoder, SubtitleTarget
  <1>8. CASE s.codec = SubtitleTarget(p.to)
    BY <1>4, <1>5, <1>6, <1>8 DEF TextWritten
  <1>9. CASE s.codec # SubtitleTarget(p.to)
    <2>1. /\ o.subtitle[n] = [s EXCEPT !.codec = SubtitleWritten(arg.codec)]
          /\ arg.codec = SubtitleEncoder(SubtitleTarget(p.to))
      BY <1>4, <1>5, <1>6, <1>9 DEF TextWritten
    <2>2. o.subtitle[n].codec = SubtitleWritten(arg.codec)
      BY <2>1 DEF SubtitleStream
    <2> QED
      BY <1>7, <2>1, <2>2
  <1> QED
    BY <1>8, <1>9

\* The one picture of an output.
LEMMA PictureOfOutput ==
    ASSUME NEW f, NEW idet, NEW forced, NEW p, NEW r, Job(f, idet, forced, p, r, command),
           NEW out, out = FFmpeg(f, command), NEW o, DamagedAs(f, out, o),
           NEW v, v = o.video[0]
    PROVE  /\ DOMAIN o.video = {0} /\ Marred(v, Picture(f, p, command), f)
           /\ Watchable(o) = {0} /\ Primary(o) = v /\ FirstVideo(o) = v
  <1>1. DOMAIN o.video = {0} /\ Marred(v, Picture(f, p, command), f)
    <2>1. DOMAIN out.video = {0} /\ out.video[0] = Picture(f, p, command)
      BY StreamsWritten
    <2> QED
      BY <2>1 DEF DamagedAs
  <1>2. PICK s \in VideoStream : s = Primary(f) /\ ~s.pic
    <2>1. Primary(f) \in VideoStream /\ PrimaryVideo(f) \in Watchable(f)
      BY PrimaryIsFirst DEF Job
    <2> QED
      BY <2>1 DEF Watchable, Primary
  <1>3. ~v.pic
    <2>1. CASE EncodesVideo(p)
      <3>1. Marred(v, EncodedVideo(s, command), f)
        BY <1>1, <1>2, <2>1 DEF Picture
      <3>2. EncodedAs(v, s, command)
        BY <1>2, <3>1, EncodedPicture
      <3> QED
        BY <1>2, <3>2 DEF EncodedAs
    <2>2. CASE ~EncodesVideo(p)
      <3>1. Marred(v, CopiedVideo(s, command), f)
        BY <1>1, <1>2, <2>2 DEF Picture
      <3> QED
        BY <1>2, <3>1, CopiedPicture
    <2> QED
      BY <2>1, <2>2
  <1>4. Watchable(o) = {0}
    BY <1>1, <1>3 DEF Watchable
  <1>5. (CHOOSE i \in {0} : \A k \in {0} : i <= k) = 0
    OBVIOUS
  <1> QED
    BY <1>1, <1>4, <1>5 DEF Primary, PrimaryVideo, FirstVideo

LEMMA PicturePassedOver ==
    ASSUME NEW f, NEW idet, NEW forced, NEW p, NEW r, Job(f, idet, forced, p, r, command),
           NEW out, out = FFmpeg(f, command), NEW o, DamagedAs(f, out, o),
           NEW fo, Verified(f, p, o, fo)
    PROVE  CopiesAsItIs(Verdict(o, NoSample))
  <1>1. PICK v : v = o.video[0]
    OBVIOUS
  <1>2. /\ Marred(v, Picture(f, p, command), f)
        /\ Watchable(o) = {0} /\ Primary(o) = v /\ FirstVideo(o) = v
    BY <1>1, PictureOfOutput
  <1>3. ~EncodesVideo(p) => Excused(p, v)
    <2>1. VideoCopyOK(f, p, o) /\ DolbyVisionOK(p, o)
      BY DEF Verified
    <2>2. p.dv = NoEncodeProfile => v.dv > 0
      BY <1>2, <2>1 DEF DolbyVisionOK, DolbyVision
    <2>3. ASSUME ~EncodesVideo(p), p.levelRewrite PROVE LevelKnown(v) /\ v.level = H264MaxLevel
      <3>1. LevelOK(p, Primary(f), v)
        BY <1>2, <2>1, <2>3 DEF VideoCopyOK
      <3> QED
        BY <2>3, <3>1 DEF LevelOK
    <2> QED
      BY <2>2, <2>3 DEF Excused
  <1>4. PICK scan, pending : scan = ScanOf(v, NoSample) /\ pending = IdetPending(v, NoSample)
    OBVIOUS
  <1>5. CopyFailures(v, scan) = {} \/ v.dv = NoEncodeProfile
    BY <1>2, <1>3, <1>4, EncodedComplies, CopyComplies
  <1>6. PICK d : d = PlanVideo(v, scan, pending)
    OBVIOUS
  <1>7. CopiesAsItIs(d)
    BY <1>5, <1>6, VerdictCases, NothingFails
  <1> QED
    BY <1>2, <1>4, <1>6, <1>7 DEF Verdict

LEMMA PassedOver ==
    ASSUME NEW f, NEW idet, NEW forced, NEW p, NEW r, Job(f, idet, forced, p, r, command),
           NEW out, out = FFmpeg(f, command), NEW o, DamagedAs(f, out, o),
           NEW fo, Verified(f, p, o, fo)
    PROVE  ~NeedsIdetSample(o, NoSample) /\ ~NeedsWrite(Plan(o, NoSample))
  <1>1. CopiesAsItIs(Verdict(o, NoSample))
    BY PicturePassedOver
  <1>2. ~NeedsIdetSample(o, NoSample)
    BY <1>1 DEF NeedsIdetSample, CopiesAsItIs
  <1>3. PICK q : q = Plan(o, NoSample)
    OBVIOUS
  <1>4. /\ q.from = SourceContainer(o) /\ q.to = ContainerFor(o.ext)
        /\ q.video = VideoPlans(o, Verdict(o, NoSample))
        /\ q.audio = AudioPlans(o, q.to) /\ q.subtitle = SubtitlePlans(o, q.to)
        /\ q.levelRewrite = Verdict(o, NoSample).levelRewrite
    BY <1>3, PlanParts
  <1>5. o.format = {p.to} /\ o.ext = f.ext /\ p.to = ContainerFor(f.ext)
    <2>1. out.format = {p.to} /\ out.ext = f.ext
      BY StreamsWritten
    <2>2. p.to = ContainerFor(f.ext)
      BY MadePicture DEF Job
    <2> QED
      BY <2>1, <2>2 DEF DamagedAs
  <1>6. q.to = p.to /\ q.from = p.to
    <2>1. p.to \in {"matroska", "mp4"}
      BY <1>5 DEF ContainerFor
    <2>2. (CHOOSE c \in {"matroska", "mp4"} : c \in {p.to}) = p.to
      BY <2>1
    <2> QED
      BY <1>4, <1>5, <2>1, <2>2 DEF SourceContainer
  <1>7. ~EncodesVideo(q)
    <2>1. \A i \in DOMAIN q.video : q.video[i].decision \in {"drop", "copy"}
      BY <1>1, <1>4 DEF VideoPlans, StreamPlan, CopiesAsItIs
    <2> QED
      BY <2>1 DEF EncodesVideo, Kept
  <1>8. ~HasWork(q.audio)
    <2>1. ASSUME NEW n \in DOMAIN o.audio PROVE PlanAudio(o.audio[n], q.to).decision = "copy"
      <3>1. o.audio[n].codec \in AudioCopyList(o.audio[n].channels)
        BY SoundComplies
      <3> QED
        BY <3>1 DEF PlanAudio, StreamPlan
    <2> QED
      BY <1>4, <2>1 DEF HasWork, AudioPlans
  <1>9. ~HasWork(q.subtitle)
    <2>1. ASSUME NEW n \in DOMAIN o.subtitle PROVE PlanSubtitle(o.subtitle[n], q.to).decision = "copy"
      <3>1. o.subtitle[n].codec = SubtitleTarget(q.to)
        BY <1>6, TextComplies
      <3>2. SubtitleTarget(q.to) \in TextSubtitles
        BY DEF SubtitleTarget, TextSubtitles
      <3>3. PlanSubtitle(o.subtitle[n], q.to) = StreamPlan(o.subtitle[n], "copy", NoTarget)
        BY <3>1, <3>2 DEF PlanSubtitle
      <3> QED
        BY <3>3 DEF StreamPlan
    <2> QED
      BY <1>4, <2>1 DEF HasWork, SubtitlePlans
  <1>10. DeriveKind(q) = {}
    BY <1>1, <1>4, <1>6, <1>7, <1>8, <1>9 DEF DeriveKind, CopiesAsItIs
  <1> QED
    BY <1>2, <1>3, <1>10 DEF NeedsWrite

-----------------------------------------------------------------------------
(* The plan, the output and the record of a job. *)

\* The plan is the policy's, made from the probe alone or from a sample that was owed;
\* a sweep forces it only where the picture may be encoded.
PlanIsMade ==
    /\ phase \in Begun => \E idet \in Scans :
          /\ plan = Made(source, idet, sweep)
          /\ idet # NoSample => NeedsIdetSample(source, NoSample)
          /\ sweep => Primary(source).dv # NoEncodeProfile
    /\ phase \in {"bitrate", "scan"} => owed = NeedsIdetSample(source, NoSample)

\* What is staged is what the command writes, whole or damaged, and what the users see
\* passed the checks.
OutputIsWritten ==
    /\ phase \in {"verifying", "done"} =>
          DamagedAs(source, FFmpeg(source, command), output) /\ finalOut = source.length
    /\ phase = "done" => library = output /\ Verified(source, plan, output, finalOut)

RecordIsMade ==
    /\ phase \in {"encode", "running", "stepback", "verifying"} => record = NewTransform(source, plan)
    /\ phase = "done" => record = MergeMeasured(NewTransform(source, plan), plan, output)

PInv == TInv /\ PlanIsMade /\ OutputIsWritten /\ RecordIsMade

LEMMA ReplanMakes ==
    ASSUME NEW idet \in Scans, Replan(idet), idet # NoSample => NeedsIdetSample(source, NoSample)
    PROVE  /\ plan' = Made(source, idet, sweep) /\ owed' = NeedsIdetSample(source, idet)
           /\ sweep => Primary(source).dv # NoEncodeProfile
  <1>1. plan' = JobPlan(source, idet) /\ owed' = NeedsIdetSample(source, idet)
        /\ ReplanErrors(source, idet) = {} /\ ~NoVideoStream(source)
    BY ReplanNeedsPicture
  <1>2. JobPlan(source, idet) = Made(source, idet, sweep)
    BY DEF JobPlan, Made
  <1>3. sweep => MayForce(Plan(source, idet))
    <2>1. "unforced" \notin ReplanErrors(source, idet)
      BY <1>1
    <2> QED
      BY <1>1, <2>1 DEF ReplanErrors
  <1>4. PICK q : q = Plan(source, idet)
    OBVIOUS
  <1>5. q.dv = Primary(source).dv
    BY <1>4, PlanParts
  <1> QED
    BY <1>1, <1>2, <1>3, <1>4, <1>5 DEF MayForce

LEMMA PStep == ASSUME PInv, TInv', Next PROVE PInv'
  <1> USE DEF PInv
  <1>1. CASE Load
    <2>1. CASE Replan(NoSample) /\ Go("bitrate")
      <3>1. /\ plan' = Made(source, NoSample, sweep) /\ owed' = NeedsIdetSample(source, NoSample)
            /\ sweep => Primary(source).dv # NoEncodeProfile
        BY <2>1, ReplanMakes DEF Scans
      <3>2. phase' = "bitrate" /\ UNCHANGED <<source, sweep>>
        BY <1>1, <2>1 DEF Load, Go
      <3>3. PlanIsMade'
        BY <3>1, <3>2 DEF PlanIsMade, Scans
      <3> QED
        BY <3>2, <3>3 DEF OutputIsWritten, RecordIsMade
    <2>2. CASE ReplanFails(NoSample)
      BY <2>2 DEF ReplanFails, Fail, PlanIsMade, OutputIsWritten, RecordIsMade, Begun
    <2> QED
      BY <1>1, <2>1, <2>2 DEF Load
  <1>2. CASE ResolveBitrate
    <2>1. phase = "bitrate" /\ phase' = "scan" /\ UNCHANGED <<source, sweep, plan, owed>>
      BY <1>2 DEF ResolveBitrate, Go
    <2> QED
      BY <2>1 DEF PlanIsMade, OutputIsWritten, RecordIsMade, Begun
  <1>3. CASE ResolveScan
    <2>1. phase = "scan" /\ UNCHANGED <<source, sweep>>
      BY <1>3 DEF ResolveScan
    <2>2. CASE Go("select") /\ UNCHANGED planned
      BY <2>1, <2>2 DEF Go, planned, PlanIsMade, OutputIsWritten, RecordIsMade, Begun
    <2>3. ASSUME owed, NEW multi \in IdetCounts, NEW single \in IdetCounts,
                 Replan(ParseIdet(multi, single)) /\ Go("select")
          PROVE  PInv'
      <3>1. PICK idet \in Scans : idet = ParseIdet(multi, single)
        BY DEF ParseIdet, Scans
      <3>2. NeedsIdetSample(source, NoSample)
        BY <2>1, <2>3 DEF PlanIsMade
      <3>3. /\ plan' = Made(source, idet, sweep)
            /\ sweep => Primary(source).dv # NoEncodeProfile
        BY <2>3, <3>1, <3>2, ReplanMakes
      <3>4. phase' = "select"
        BY <2>3 DEF Go
      <3>5. PlanIsMade'
        BY <2>1, <3>2, <3>3, <3>4 DEF PlanIsMade
      <3> QED
        BY <3>4, <3>5 DEF OutputIsWritten, RecordIsMade
    <2>4. ASSUME NEW idet, ReplanFails(idet) PROVE PInv'
      BY <2>4 DEF ReplanFails, Fail, PlanIsMade, OutputIsWritten, RecordIsMade, Begun
    <2> QED
      BY <1>3, <2>2, <2>3, <2>4 DEF ResolveScan
  <1>4. CASE SelectEncoder
    <2>1. /\ phase = "select" /\ phase' = "encode" /\ UNCHANGED <<source, sweep, plan>>
          /\ record' = NewTransform(source, plan)
      BY <1>4 DEF SelectEncoder, Go, planned
    <2> QED
      BY <2>1 DEF PlanIsMade, OutputIsWritten, RecordIsMade, Begun
  <1>5. CASE CapabilitiesUnread
    BY <1>5 DEF CapabilitiesUnread, Fail, PlanIsMade, OutputIsWritten, RecordIsMade, Begun
  <1>6. CASE Attempt
    <2>1. phase = "encode" /\ phase' \in {"failed", "running"} /\ UNCHANGED <<source, sweep, plan, record>>
      BY <1>6 DEF Attempt, Fail, Go, planned
    <2> QED
      BY <2>1 DEF PlanIsMade, OutputIsWritten, RecordIsMade, Begun
  <1>7. CASE EncodeEnds
    <2>1. /\ phase = "running" /\ phase' = "verifying"
          /\ UNCHANGED <<source, sweep, plan, record, command, selection>>
          /\ finalOut' = source.length
      BY <1>7 DEF EncodeEnds, Go, planned
    <2>2. PICK fault \in Faults : output' = Damaged(source, FFmpeg(source, command), fault)
      BY <1>7 DEF EncodeEnds
    <2>3. Shaped(FFmpeg(source, command))
      <3>1. ProbedFile(source)
        BY SourcesAssumption DEF TInv, TypeOK
      <3>2. PICK out : out = FFmpeg(source, command)
        OBVIOUS
      <3> QED
        BY <3>1, <3>2, ProbedIsShaped, WrittenParts DEF WrittenAs
    <2>4. DamagedAs(source, FFmpeg(source, command), output')
      BY <2>2, <2>3, DamagedParts
    <2>5. DamagedAs(source, FFmpeg(source, command), output)'
      BY <2>1, <2>4 DEF DamagedAs, Shaped, Marred
    <2>6. OutputIsWritten'
      BY <2>1, <2>5 DEF OutputIsWritten
    <2> QED
      BY <2>1, <2>6 DEF PlanIsMade, RecordIsMade, Begun
  <1>8. CASE EncodeFails
    <2>1. phase = "running" /\ phase' = "stepback" /\ UNCHANGED <<source, sweep, plan, record>>
      BY <1>8 DEF EncodeFails, Go, planned
    <2> QED
      BY <2>1 DEF PlanIsMade, OutputIsWritten, RecordIsMade, Begun
  <1>9. CASE StepBack
    <2>1. phase = "stepback" /\ phase' \in {"encode", "failed"} /\ UNCHANGED <<source, sweep, plan, record>>
      BY <1>9 DEF StepBack, Go, Fail, planned
    <2> QED
      BY <2>1 DEF PlanIsMade, OutputIsWritten, RecordIsMade, Begun
  <1>10. CASE Finalise
    <2>1. /\ phase = "verifying"
          /\ UNCHANGED <<source, sweep, plan, command, output, finalOut>>
      BY <1>10 DEF Finalise, planned, ran, result
    <2>2. CASE /\ Verified(source, plan, output, finalOut) /\ library' = output
               /\ record' = MergeMeasured(record, plan, output) /\ Go("done")
      <3>1. phase' = "done"
        BY <2>2 DEF Go
      <3>2. DamagedAs(source, FFmpeg(source, command), output)' <=>
               DamagedAs(source, FFmpeg(source, command), output)
        BY <2>1 DEF DamagedAs, Shaped, Marred
      <3> QED
        BY <2>1, <2>2, <3>1, <3>2 DEF PlanIsMade, OutputIsWritten, RecordIsMade, Begun
    <2>3. CASE Fail("verify")
      BY <2>3 DEF Fail, PlanIsMade, OutputIsWritten, RecordIsMade, Begun
    <2> QED
      BY <1>10, <2>2, <2>3 DEF Finalise
  <1> QED
    BY <1>1, <1>2, <1>3, <1>4, <1>5, <1>6, <1>7, <1>8, <1>9, <1>10 DEF Next

LEMMA PStutter == ASSUME PInv, TInv', UNCHANGED vars PROVE PInv'
  <1>1. UNCHANGED <<source, sweep, phase, plan, owed, command, record, output, finalOut, library>>
    BY DEF vars, planned, selection, ran, result
  <1>2. DamagedAs(source, FFmpeg(source, command), output)' <=>
           DamagedAs(source, FFmpeg(source, command), output)
    BY <1>1 DEF DamagedAs, Shaped, Marred
  <1> QED
    BY <1>1, <1>2 DEF PInv, PlanIsMade, OutputIsWritten, RecordIsMade

LEMMA PInvHolds == Spec => []PInv
  <1>1. Init => PInv
    BY TInit DEF Init, PInv, PlanIsMade, OutputIsWritten, RecordIsMade, Begun
  <1>2. PInv /\ TInv' /\ [Next]_vars => PInv'
    BY PStep, PStutter
  <1> QED
    BY <1>1, <1>2, TInvHolds, PTL DEF Spec

\* A job with an output, as the lemmas about one job take it.
JobIs(idet) == Job(source, idet, sweep, plan, Request, command)

LEMMA OutputIsOfJob ==
    ASSUME PInv, phase \in {"verifying", "done"}
    PROVE  /\ \E idet \in Scans : JobIs(idet)
           /\ DamagedAs(source, FFmpeg(source, command), output) /\ finalOut = source.length
           /\ Done => library = output /\ Verified(source, plan, library, finalOut)
  <1>1. phase \in Begun /\ phase \in Launched
    BY DEF Begun, Launched
  <1>2. PICK idet \in Scans :
           /\ plan = Made(source, idet, sweep)
           /\ idet # NoSample => NeedsIdetSample(source, NoSample)
           /\ sweep => Primary(source).dv # NoEncodeProfile
    BY <1>1 DEF PInv, PlanIsMade
  <1>3. ProbedFile(source) /\ sweep \in BOOLEAN /\ ~NoVideoStream(source)
    BY <1>1, SourcesAssumption DEF PInv, TInv, TypeOK, PictureKnown
  <1>4. command = Build(Request)
    BY <1>1 DEF PInv, TInv, AsRequested
  <1>5. Request.plan = plan /\ Request.codec = Primary(source).codec
    BY DEF Request
  <1>6. JobIs(idet)
    BY <1>2, <1>3, <1>4, <1>5 DEF Job, JobIs
  <1>7. /\ DamagedAs(source, FFmpeg(source, command), output) /\ finalOut = source.length
        /\ Done => library = output /\ Verified(source, plan, output, finalOut)
    BY DEF PInv, OutputIsWritten, Done
  <1> QED
    BY <1>6, <1>7

\* What a job has written, the next scan passes over, whatever ffmpeg did wrong on
\* the way (engine.go, the copy tests, the encode targets and verify.go agree).
THEOREM LibraryComplies == Spec => []OutputComplies
  <1>1. ASSUME PInv, Done
        PROVE  ~NeedsIdetSample(library, NoSample) /\ ~NeedsWrite(Plan(library, NoSample))
    <2>1. PICK idet \in Scans : JobIs(idet)
      BY <1>1, OutputIsOfJob DEF Done
    <2>0. /\ DamagedAs(source, FFmpeg(source, command), library)
          /\ Verified(source, plan, library, finalOut)
      BY <1>1, OutputIsOfJob DEF Done
    <2>2. PICK out, r : out = FFmpeg(source, command) /\ r = Request
      OBVIOUS
    <2> QED
      BY <2>0, <2>1, <2>2, PassedOver DEF JobIs
  <1>2. PInv => OutputComplies
    BY <1>1 DEF OutputComplies
  <1> QED
    BY <1>2, PInvHolds, PTL

-----------------------------------------------------------------------------
(* The streams a job keeps. *)

LEMMA PlaceOrders ==
    ASSUME NEW plans, PlansAt(plans), NEW i \in Kept(plans), NEW k \in Kept(plans)
    PROVE  /\ OutputIndex(plans, i) \in Nat /\ OutputIndex(plans, k) \in Nat
           /\ OutputIndex(plans, i) <= OutputIndex(plans, k) <=> i <= k
  <1> DEFINE S == Kept(plans)
  <1>1. S \in SUBSET Nat /\ IsFiniteSet(S) /\ i \in S /\ k \in S
    BY KeptIsFinite
  <1>2. OutputIndex(plans, i) = Ordinal(S, i) /\ OutputIndex(plans, k) = Ordinal(S, k)
    BY DEF OutputIndex
  <1> HIDE DEF S
  <1>3. PICK a, b : a = Ordinal(S, i) /\ b = Ordinal(S, k)
    OBVIOUS
  <1>4. i < k => a \in Nat /\ b \in Nat /\ a < b
    BY <1>1, <1>3, OrdinalOrders
  <1>5. k < i => a \in Nat /\ b \in Nat /\ b < a
    BY <1>1, <1>3, OrdinalOrders
  <1>6. i = k => a = b /\ a \in Nat
    <2>1. {x \in S : x < i} \in SUBSET S
      OBVIOUS
    <2>2. IsFiniteSet({x \in S : x < i})
      BY <1>1, <2>1, FS_Subset
    <2> QED
      BY <1>3, <2>2, FS_CardinalityType DEF Ordinal
  <1>7. i \in Nat /\ k \in Nat
    BY <1>1
  <1> QED
    BY <1>2, <1>3, <1>4, <1>5, <1>6, <1>7

\* Streams that keep their names at the places of the plan keep their order.
LEMMA OrderIsKept ==
    ASSUME NEW streams, NEW plans, PlansAt(plans), NEW out,
           \A n \in Mapped(plans) : Named(out[n]) = Named(streams[From(plans, n)])
    PROVE  Order(out, Mapped(plans)) = Order(streams, Kept(plans))
  <1>1. \A n \in Mapped(plans) : From(plans, n) \in Kept(plans) /\ OutputIndex(plans, From(plans, n)) = n
    BY FromIsKept
  <1>2. \A i \in Kept(plans) : OutputIndex(plans, i) \in Mapped(plans) /\ From(plans, OutputIndex(plans, i)) = i
    BY FromFinds DEF Mapped
  <1>3. \A n \in Mapped(plans), m \in Mapped(plans) : n <= m <=> From(plans, n) <= From(plans, m)
    BY <1>1, PlaceOrders
  <1>4. ASSUME NEW e \in Order(out, Mapped(plans)) PROVE e \in Order(streams, Kept(plans))
    <2>1. PICK n \in Mapped(plans), m \in Mapped(plans) : n <= m /\ e = <<Named(out[n]), Named(out[m])>>
      BY <1>4 DEF Order
    <2>2. PICK i \in Kept(plans), k \in Kept(plans) : i = From(plans, n) /\ k = From(plans, m)
      BY <1>1
    <2>3. i <= k /\ e = <<Named(streams[i]), Named(streams[k])>>
      BY <1>3, <2>1, <2>2
    <2>4. <<i, k>> \in {y \in Kept(plans) \X Kept(plans) : y[1] <= y[2]}
      BY <2>3
    <2> QED
      BY <2>3, <2>4 DEF Order
  <1>5. ASSUME NEW e \in Order(streams, Kept(plans)) PROVE e \in Order(out, Mapped(plans))
    <2>1. PICK i \in Kept(plans), k \in Kept(plans) :
             i <= k /\ e = <<Named(streams[i]), Named(streams[k])>>
      BY <1>5 DEF Order
    <2>2. PICK n \in Mapped(plans), m \in Mapped(plans) : i = From(plans, n) /\ k = From(plans, m)
      BY <1>2
    <2>3. n <= m /\ e = <<Named(out[n]), Named(out[m])>>
      BY <1>3, <2>1, <2>2
    <2>4. <<n, m>> \in {y \in Mapped(plans) \X Mapped(plans) : y[1] <= y[2]}
      BY <2>3
    <2> QED
      BY <2>3, <2>4 DEF Order
  <1> QED
    BY <1>4, <1>5

LEMMA MappedIsFinite == ASSUME NEW plans, PlansAt(plans) PROVE IsFiniteSet(Mapped(plans))
  <1> DEFINE place == [i \in Kept(plans) |-> OutputIndex(plans, i)]
  <1>1. place \in Surjection(Kept(plans), Mapped(plans))
    BY DEF Mapped, Surjection
  <1> QED
    BY <1>1, KeptIsFinite, FS_Surjection

\* The count of the streams shows the loss of one.
LEMMA ShapeIsKept ==
    ASSUME NEW p, NEW o, StreamShapeOK(p, o), PlansAt(p.video), PlansAt(p.audio), PlansAt(p.subtitle),
           Watchable(o) \subseteq Mapped(p.video),
           DOMAIN o.audio \subseteq Mapped(p.audio), DOMAIN o.subtitle \subseteq Mapped(p.subtitle)
    PROVE  DOMAIN o.audio = Mapped(p.audio) /\ DOMAIN o.subtitle = Mapped(p.subtitle)
  <1>1. PICK V, A, S : V = Mapped(p.video) /\ A = Mapped(p.audio) /\ S = Mapped(p.subtitle)
    OBVIOUS
  <1>2. PICK v, a, s : v = Watchable(o) /\ a = DOMAIN o.audio /\ s = DOMAIN o.subtitle
    OBVIOUS
  <1>3. PICK wanted, present : /\ wanted = ({1} \X V) \union ({2} \X A) \union ({3} \X S)
                                /\ present = ({1} \X v) \union ({2} \X a) \union ({3} \X s)
    OBVIOUS
  <1>4. wanted = PlannedStreams(p) /\ present = PresentStreams(o)
    BY <1>1, <1>2, <1>3 DEF PlannedStreams, PresentStreams, StreamPairs, Watchable
  <1>5. Cardinality(wanted) = Cardinality(present)
    BY <1>4 DEF StreamShapeOK
  <1>6. present \in SUBSET wanted
    BY <1>1, <1>2, <1>3
  <1>7. IsFiniteSet(wanted)
    <2>1. ASSUME NEW plans, PlansAt(plans), NEW k PROVE IsFiniteSet({k} \X Mapped(plans))
      <3>1. IsFiniteSet(Mapped(plans))
        BY <2>1, MappedIsFinite
      <3>2. IsFiniteSet({k})
        BY FS_Singleton
      <3> QED
        BY <3>1, <3>2, FS_Product
    <2>2. IsFiniteSet({1} \X V) /\ IsFiniteSet({2} \X A) /\ IsFiniteSet({3} \X S)
      BY <1>1, <2>1
    <2> QED
      BY <1>3, <2>2, FS_Union
  <1>8. present = wanted
    BY <1>5, <1>6, <1>7, FS_Subset
  <1>9. ASSUME NEW n \in A PROVE n \in a
    <2>1. <<2, n>> \in present
      BY <1>3, <1>8
    <2> QED
      BY <1>3, <2>1
  <1>10. ASSUME NEW n \in S PROVE n \in s
    <2>1. <<3, n>> \in present
      BY <1>3, <1>8
    <2> QED
      BY <1>3, <2>1
  <1> QED
    BY <1>1, <1>2, <1>9, <1>10

\* What is written of a stream, and what damage leaves of a sound, keeps its name.
LEMMA NameIsKept ==
    ASSUME NEW s, NEW arg, s \in AudioStream \/ s \in SubtitleStream
    PROVE  /\ Named(TextWritten(s, arg)) = Named(s)
           /\ s \in AudioStream =>
                 /\ Named(SoundWritten(s, arg)) = Named(s)
                 /\ Named(Downmixed(SoundWritten(s, arg))) = Named(s)
  BY DEF Named, TextWritten, SoundWritten, Downmixed, AudioStream, SubtitleStream

\* Every stream of a complete output is where the plan kept it, under its own name.
LEMMA NamesStay ==
    ASSUME NEW f, NEW idet, NEW forced, NEW p, NEW r, Job(f, idet, forced, p, r, command),
           NEW out, out = FFmpeg(f, command), NEW o, DamagedAs(f, out, o),
           DOMAIN o.audio = Mapped(p.audio), DOMAIN o.subtitle = Mapped(p.subtitle)
    PROVE  /\ PlansAt(p.audio) /\ PlansAt(p.subtitle)
           /\ Kept(p.audio) = DOMAIN f.audio /\ Kept(p.subtitle) = Texts(f)
           /\ \A n \in Mapped(p.audio) : Named(o.audio[n]) = Named(f.audio[From(p.audio, n)])
           /\ \A n \in Mapped(p.subtitle) :
                 Named(o.subtitle[n]) = Named(f.subtitle[From(p.subtitle, n)])
  <1>1. /\ DOMAIN out.audio = Mapped(p.audio) /\ DOMAIN out.subtitle = Mapped(p.subtitle)
        /\ \A n \in Mapped(p.audio) :
              out.audio[n] = SoundWritten(f.audio[From(p.audio, n)], command.audio[n])
        /\ \A n \in Mapped(p.subtitle) :
              out.subtitle[n] = TextWritten(f.subtitle[From(p.subtitle, n)], command.subtitle[n])
    BY StreamsWritten
  <1>2. PICK P : P = PrimaryVideo(f)
    OBVIOUS
  <1>3. /\ P \in DOMAIN f.video /\ DOMAIN p.video = DOMAIN f.video /\ Kept(p.video) = {P}
        /\ p.audio = AudioPlans(f, p.to) /\ p.subtitle = SubtitlePlans(f, p.to)
    BY <1>2, MadePicture DEF Job
  <1>4. ProbedFile(f)
    BY DEF Job
  <1>5. PlansAt(p.video) /\ PlansAt(p.audio) /\ PlansAt(p.subtitle)
    BY <1>3, <1>4 DEF PlansAt, AudioPlans, SubtitlePlans, ProbedFile, AtPositions
  <1>9. Kept(p.audio) = DOMAIN f.audio
    BY <1>3 DEF Kept, AudioPlans, PlanAudio, StreamPlan
  <1>10. Kept(p.subtitle) = Texts(f)
    <2>1. ASSUME NEW s, NEW to
          PROVE  PlanSubtitle(s, to).decision # "drop" <=> s.codec \in TextSubtitles
      <3>1. CASE s.codec \notin TextSubtitles
        <4>1. SubtitleTarget(to) \in TextSubtitles
          BY DEF SubtitleTarget, TextSubtitles
        <4>2. PlanSubtitle(s, to) = StreamPlan(s, "drop", NoTarget)
          BY <3>1, <4>1 DEF PlanSubtitle
        <4> QED
          BY <3>1, <4>2 DEF StreamPlan
      <3>2. CASE s.codec \in TextSubtitles
        <4>1. PICK decision, t :
                 /\ decision \in {"copy", "convert"}
                 /\ PlanSubtitle(s, to) = StreamPlan(s, decision, t)
          BY <3>2 DEF PlanSubtitle
        <4> QED
          BY <3>2, <4>1 DEF StreamPlan
      <3> QED
        BY <3>1, <3>2
    <2>2. /\ DOMAIN p.subtitle = DOMAIN f.subtitle
          /\ \A i \in DOMAIN f.subtitle : p.subtitle[i] = PlanSubtitle(f.subtitle[i], p.to)
      BY <1>3 DEF SubtitlePlans
    <2> QED
      BY <2>1, <2>2 DEF Kept, Texts
  <1>11. ASSUME NEW n \in Mapped(p.audio)
         PROVE  Named(o.audio[n]) = Named(f.audio[From(p.audio, n)])
    <2>1. PICK i, arg : i = From(p.audio, n) /\ arg = command.audio[n]
      OBVIOUS
    <2>2. i \in DOMAIN f.audio
      BY <1>9, <2>1, FromIsKept
    <2>3. PICK s \in AudioStream : s = f.audio[i]
      BY <1>4, <2>2 DEF ProbedFile, AtPositions
    <2>4. out.audio[n] = SoundWritten(s, arg)
      BY <1>1, <2>1, <2>3
    <2>5. o.audio[n] = SoundWritten(s, arg) \/ o.audio[n] = Downmixed(SoundWritten(s, arg))
      BY <2>4 DEF DamagedAs
    <2> QED
      BY <2>1, <2>3, <2>5, NameIsKept
  <1>12. ASSUME NEW n \in Mapped(p.subtitle)
         PROVE  Named(o.subtitle[n]) = Named(f.subtitle[From(p.subtitle, n)])
    <2>1. PICK i, arg : i = From(p.subtitle, n) /\ arg = command.subtitle[n]
      OBVIOUS
    <2>2. i \in DOMAIN f.subtitle
      BY <1>10, <2>1, FromIsKept DEF Texts
    <2>3. PICK s \in SubtitleStream : s = f.subtitle[i]
      BY <1>4, <2>2 DEF ProbedFile, AtPositions
    <2>4. out.subtitle[n] = TextWritten(s, arg)
      BY <1>1, <2>1, <2>3
    <2>5. o.subtitle[n] = out.subtitle[n]
      BY <1>1 DEF DamagedAs, WithoutLast
    <2> QED
      BY <2>1, <2>3, <2>4, <2>5, NameIsKept
  <1> QED
    BY <1>5, <1>9, <1>10, <1>11, <1>12

\* The checks find a stream that is lost, so that the others are all there.
LEMMA NamesArrive ==
    ASSUME NEW f, NEW idet, NEW forced, NEW p, NEW r, Job(f, idet, forced, p, r, command),
           NEW out, out = FFmpeg(f, command), NEW o, DamagedAs(f, out, o), StreamShapeOK(p, o)
    PROVE  /\ PlansAt(p.audio) /\ PlansAt(p.subtitle)
           /\ Kept(p.audio) = DOMAIN f.audio /\ Kept(p.subtitle) = Texts(f)
           /\ DOMAIN o.audio = Mapped(p.audio) /\ DOMAIN o.subtitle = Mapped(p.subtitle)
           /\ \A n \in Mapped(p.audio) : Named(o.audio[n]) = Named(f.audio[From(p.audio, n)])
           /\ \A n \in Mapped(p.subtitle) :
                 Named(o.subtitle[n]) = Named(f.subtitle[From(p.subtitle, n)])
  <1>1. DOMAIN out.audio = Mapped(p.audio) /\ DOMAIN out.subtitle = Mapped(p.subtitle)
    BY StreamsWritten
  <1>2. PICK P : P = PrimaryVideo(f)
    OBVIOUS
  <1>3. /\ P \in DOMAIN f.video /\ DOMAIN p.video = DOMAIN f.video /\ Kept(p.video) = {P}
        /\ p.audio = AudioPlans(f, p.to) /\ p.subtitle = SubtitlePlans(f, p.to)
    BY <1>2, MadePicture DEF Job
  <1>4. PlansAt(p.video) /\ PlansAt(p.audio) /\ PlansAt(p.subtitle)
    BY <1>3 DEF PlansAt, AudioPlans, SubtitlePlans, ProbedFile, AtPositions, Job
  <1>5. Mapped(p.video) = {0} /\ Watchable(o) = {0}
    <2>1. PICK arg : arg = StreamArgs(p.video)[0]
      OBVIOUS
    <2>2. Mapped(p.video) = {0}
      BY <2>1, PictureArrives DEF Job
    <2>3. PICK v : v = o.video[0]
      OBVIOUS
    <2> QED
      BY <2>2, <2>3, PictureOfOutput
  <1>6. DOMAIN o.audio \subseteq DOMAIN out.audio /\ DOMAIN o.subtitle \subseteq DOMAIN out.subtitle
    BY DEF DamagedAs, WithoutLast
  <1>7. DOMAIN o.audio = Mapped(p.audio) /\ DOMAIN o.subtitle = Mapped(p.subtitle)
    BY <1>1, <1>4, <1>5, <1>6, ShapeIsKept
  <1> QED
    BY <1>7, NamesStay

\* A record of profile 5 is never encoded away, and its loss is noticed.
LEMMA RecordOfFive ==
    ASSUME NEW f, NEW idet, NEW forced, NEW p, NEW r, Job(f, idet, forced, p, r, command),
           NEW out, out = FFmpeg(f, command), NEW o, DamagedAs(f, out, o), DolbyVisionOK(p, o),
           Primary(f).dv = NoEncodeProfile
    PROVE  Primary(o).dv = NoEncodeProfile
  <1>1. PICK s \in VideoStream : s = Primary(f)
    BY PrimaryIsFirst DEF Job
  <1>2. PICK v : v = o.video[0]
    OBVIOUS
  <1>3. Marred(v, Picture(f, p, command), f) /\ Primary(o) = v /\ FirstVideo(o) = v
    BY <1>2, PictureOfOutput
  <1>4. /\ EncodesVideo(p) <=> forced \/ Verdict(f, idet).decision = "encode"
        /\ p.dv = Primary(f).dv
    BY MadePicture DEF Job
  <1>5. PICK scan, pending, d : d = PlanVideo(s, scan, pending) /\ d = Verdict(f, idet)
    BY <1>1 DEF Verdict
  <1>6. d.decision = "copy"
    <2>1. s.dv = NoEncodeProfile
      BY <1>1
    <2>2. CopiesAsItIs(d) \/ s.dv # NoEncodeProfile
      <3>1. d = PlanVideo(s, scan, pending)
        BY <1>5
      <3> QED
        BY <3>1, VerdictCases, ZenonT(30)
    <2> QED
      BY <2>1, <2>2 DEF CopiesAsItIs
  <1>7. ~EncodesVideo(p)
    BY <1>4, <1>5, <1>6 DEF Job
  <1>8. Marred(v, CopiedVideo(s, command), f)
    BY <1>1, <1>3, <1>7 DEF Picture
  <1>9. v.dv \in {0, s.dv}
    BY <1>1, <1>8, CopiedPicture
  <1>10. v.dv > 0
    BY <1>3, <1>4 DEF DolbyVisionOK, DolbyVision
  <1> QED
    BY <1>1, <1>3, <1>9, <1>10

\* Every stream that is not dropped is in the library afterwards, with its language and
\* its dispositions and in its order: all audio, and the subtitles that are text; and no
\* job loses a Dolby Vision record of profile 5 (argv.go's maps, engine.go's output
\* indices, video.go, verify.go).
THEOREM StreamsKept == Spec => []KeepsStreams
  <1>1. ASSUME PInv, Done
        PROVE  /\ Order(library.audio, DOMAIN library.audio) = Order(source.audio, DOMAIN source.audio)
               /\ Order(library.subtitle, DOMAIN library.subtitle) = Order(source.subtitle, Texts(source))
               /\ Primary(source).dv = NoEncodeProfile => Primary(library).dv = NoEncodeProfile
    <2>1. PICK idet \in Scans : JobIs(idet)
      BY <1>1, OutputIsOfJob DEF Done
    <2>0. /\ DamagedAs(source, FFmpeg(source, command), library)
          /\ Verified(source, plan, library, finalOut)
      BY <1>1, OutputIsOfJob DEF Done
    <2>2. PICK out, r : out = FFmpeg(source, command) /\ r = Request
      OBVIOUS
    <2>3. StreamShapeOK(plan, library) /\ DolbyVisionOK(plan, library)
      BY <2>0 DEF Verified
    <2>4. /\ PlansAt(plan.audio) /\ PlansAt(plan.subtitle)
          /\ Kept(plan.audio) = DOMAIN source.audio /\ Kept(plan.subtitle) = Texts(source)
          /\ DOMAIN library.audio = Mapped(plan.audio)
          /\ DOMAIN library.subtitle = Mapped(plan.subtitle)
          /\ \A n \in Mapped(plan.audio) :
                Named(library.audio[n]) = Named(source.audio[From(plan.audio, n)])
          /\ \A n \in Mapped(plan.subtitle) :
                Named(library.subtitle[n]) = Named(source.subtitle[From(plan.subtitle, n)])
      BY <2>0, <2>1, <2>2, <2>3, NamesArrive DEF JobIs
    <2>5. Order(library.audio, Mapped(plan.audio)) = Order(source.audio, Kept(plan.audio))
      BY <2>4, OrderIsKept
    <2>6. Order(library.subtitle, Mapped(plan.subtitle)) = Order(source.subtitle, Kept(plan.subtitle))
      BY <2>4, OrderIsKept
    <2>7. Primary(source).dv = NoEncodeProfile => Primary(library).dv = NoEncodeProfile
      BY <2>0, <2>1, <2>2, <2>3, RecordOfFive DEF JobIs
    <2> QED
      BY <2>4, <2>5, <2>6, <2>7
  <1>2. PInv => KeepsStreams
    BY <1>1 DEF KeepsStreams
  <1> QED
    BY <1>2, PInvHolds, PTL

-----------------------------------------------------------------------------
(* The transform record. *)

LEMMA OrdinalIsPlace ==
    ASSUME NEW n \in Nat, NEW k \in 0 .. (n - 1)
    PROVE  Ordinal(0 .. (n - 1), k) = k
  <1>1. {x \in 0 .. (n - 1) : x < k} = 0 .. (k - 1)
    OBVIOUS
  <1>2. Cardinality(0 .. (k - 1)) = k
    BY FS_Interval
  <1> QED
    BY <1>1, <1>2 DEF Ordinal

\* The places of streams are counted without a gap.
LEMMA PlacesAreCounted ==
    ASSUME NEW S \in SUBSET Nat, IsFiniteSet(S), NEW n, n = Cardinality(S)
    PROVE  n \in Nat /\ {Ordinal(S, i) : i \in S} = 0 .. (n - 1)
  <1> DEFINE place == [i \in S |-> Ordinal(S, i)]
             T == {Ordinal(S, i) : i \in S}
  <1>1. n \in Nat
    BY FS_CardinalityType
  <1>2. ASSUME NEW i \in S PROVE Ordinal(S, i) \in 0 .. (n - 1)
    <2>1. PICK A : A = {x \in S : x < i}
      OBVIOUS
    <2>2. A \in SUBSET S /\ i \notin A
      BY <2>1
    <2>3. /\ IsFiniteSet(A) /\ Cardinality(A) <= Cardinality(S)
          /\ Cardinality(A) = Cardinality(S) => A = S
      BY <2>2, FS_Subset
    <2>4. Cardinality(A) \in Nat
      BY <2>3, FS_CardinalityType
    <2>5. Ordinal(S, i) = Cardinality(A)
      BY <2>1 DEF Ordinal
    <2> QED
      BY <1>1, <2>2, <2>3, <2>4, <2>5
  <1>3. place \in Surjection(S, T)
    BY DEF Surjection
  <1>4. place \in Injection(S, T)
    <2>1. \A i \in S, k \in S : place[i] = place[k] => i = k
      BY OrdinalTells
    <2> QED
      BY <2>1, <1>3 DEF Injection, IsInjective, Surjection
  <1>5. IsFiniteSet(T) /\ Cardinality(T) = n
    BY <1>3, <1>4, FS_Surjection
  <1>6. T \subseteq 0 .. (n - 1)
    BY <1>2
  <1> HIDE DEF T
  <1>7. IsFiniteSet(0 .. (n - 1)) /\ Cardinality(0 .. (n - 1)) = n
    <2>1. PICK b \in Int : b = n - 1
      BY <1>1
    <2>2. IsFiniteSet(0 .. b) /\ Cardinality(0 .. b) = IF 0 > b THEN 0 ELSE b - 0 + 1
      BY FS_Interval
    <2>3. (IF 0 > b THEN 0 ELSE b - 0 + 1) = n
      BY <1>1, <2>1
    <2> QED
      BY <2>1, <2>2, <2>3
  <1>8. T = 0 .. (n - 1)
    BY <1>5, <1>6, <1>7, FS_Subset
  <1> QED
    BY <1>1, <1>8 DEF T

\* A stream that is kept is found at its place, and only there.
LEMMA LandsAt ==
    ASSUME NEW plans, PlansAt(plans), NEW i
    PROVE  /\ i \in Kept(plans) =>
                 AtOutputIndex(plans, i, Mapped(plans)) = {OutputIndex(plans, i)}
           /\ i \notin Kept(plans) => AtOutputIndex(plans, i, Mapped(plans)) = {}
  <1>1. ASSUME i \in Kept(plans)
        PROVE  AtOutputIndex(plans, i, Mapped(plans)) = {OutputIndex(plans, i)}
    <2>1. Kept(plans) \in SUBSET Nat /\ IsFiniteSet(Kept(plans))
      BY KeptIsFinite
    <2>2. PICK n : n = Cardinality(Kept(plans))
      OBVIOUS
    <2>3. n \in Nat /\ {Ordinal(Kept(plans), x) : x \in Kept(plans)} = 0 .. (n - 1)
      BY <2>1, <2>2, PlacesAreCounted
    <2>4. Mapped(plans) = 0 .. (n - 1)
      BY <2>3 DEF Mapped, OutputIndex
    <2>5. PICK o : o = OutputIndex(plans, i)
      OBVIOUS
    <2>6. o \in 0 .. (n - 1)
      BY <1>1, <2>4, <2>5 DEF Mapped
    <2>7. Cardinality(0 .. (n - 1)) = n
      BY <2>3, FS_Interval
    <2>8. o < Cardinality(Mapped(plans))
      BY <2>3, <2>4, <2>6, <2>7
    <2>9. \A k \in Mapped(plans) : Ordinal(Mapped(plans), k) = k
      BY <2>3, <2>4, OrdinalIsPlace
    <2>10. {k \in Mapped(plans) : Ordinal(Mapped(plans), k) = o} = {o}
      BY <2>4, <2>6, <2>9
    <2> QED
      BY <1>1, <2>5, <2>8, <2>10 DEF AtOutputIndex
  <1> QED
    BY <1>1 DEF AtOutputIndex

LEMMA MeasuredParts ==
    ASSUME NEW rec, NEW p, NEW o, NEW m, m = MergeMeasured(rec, p, o)
    PROVE  /\ m = [video |-> m.video, audio |-> m.audio, subtitle |-> m.subtitle]
           /\ Watchable(o) # {} =>
                 m.video = VideoState(Primary(o), ScanOfStream(Primary(o)))
           /\ m.audio = [i \in DOMAIN rec.audio |-> m.audio[i]]
           /\ \A i \in DOMAIN rec.audio : \A k :
                 AtOutputIndex(p.audio, i, DOMAIN o.audio) = {k} => m.audio[i] = AudioState(o.audio[k])
           /\ m.subtitle = [i \in DOMAIN rec.subtitle |-> m.subtitle[i]]
           /\ \A i \in DOMAIN rec.subtitle :
                 AtOutputIndex(p.subtitle, i, DOMAIN o.subtitle) = {} => m.subtitle[i] = rec.subtitle[i]
           /\ \A i \in DOMAIN rec.subtitle : \A k :
                 AtOutputIndex(p.subtitle, i, DOMAIN o.subtitle) = {k} => m.subtitle[i] = o.subtitle[k].codec
  <1> DEFINE A == [i \in DOMAIN rec.audio |->
                     LET at == AtOutputIndex(p.audio, i, DOMAIN o.audio)
                     IN  IF at = {} THEN rec.audio[i] ELSE AudioState(o.audio[CHOOSE k \in at : TRUE])]
             S == [i \in DOMAIN rec.subtitle |->
                     LET at == AtOutputIndex(p.subtitle, i, DOMAIN o.subtitle)
                     IN  IF at = {} THEN rec.subtitle[i] ELSE o.subtitle[CHOOSE k \in at : TRUE].codec]
             V == IF Watchable(o) = {} THEN rec.video
                  ELSE VideoState(Primary(o), ScanOfStream(Primary(o)))
  <1>1. m = [video |-> V, audio |-> A, subtitle |-> S]
    BY DEF MergeMeasured
  <1>2. \A k : (CHOOSE x \in {k} : TRUE) = k
    OBVIOUS
  <1>3. /\ A = [i \in DOMAIN rec.audio |-> A[i]]
        /\ \A i \in DOMAIN rec.audio : \A k :
              AtOutputIndex(p.audio, i, DOMAIN o.audio) = {k} => A[i] = AudioState(o.audio[k])
    BY <1>2
  <1>4. /\ S = [i \in DOMAIN rec.subtitle |-> S[i]]
        /\ \A i \in DOMAIN rec.subtitle :
              AtOutputIndex(p.subtitle, i, DOMAIN o.subtitle) = {} => S[i] = rec.subtitle[i]
        /\ \A i \in DOMAIN rec.subtitle : \A k :
              AtOutputIndex(p.subtitle, i, DOMAIN o.subtitle) = {k} => S[i] = o.subtitle[k].codec
    BY <1>2
  <1>5. Watchable(o) # {} => V = VideoState(Primary(o), ScanOfStream(Primary(o)))
    OBVIOUS
  <1> HIDE DEF A, S, V
  <1>6. m.video = V /\ m.audio = A /\ m.subtitle = S
    BY <1>1
  <1> QED
    BY <1>1, <1>3, <1>4, <1>5, <1>6

\* The arguments of the streams of a job.
LEMMA SoundPredicted ==
    ASSUME NEW f, ProbedFile(f), NEW p, p.audio = AudioPlans(f, p.to), NEW i \in DOMAIN f.audio,
           NEW n, n = OutputIndex(p.audio, i), NEW arg, arg = StreamArgs(p.audio)[n]
    PROVE  AudioTransform(f, p, i) = AudioState(SoundWritten(f.audio[i], arg))
  <1>1. PICK s \in AudioStream : s = f.audio[i]
    BY DEF ProbedFile, AtPositions
  <1>2. PICK q : q = p.audio[i] /\ q = PlanAudio(s, p.to)
    BY <1>1 DEF AudioPlans
  <1>3. PlansAt(p.audio) /\ DOMAIN p.audio = DOMAIN f.audio
    BY DEF PlansAt, AudioPlans, ProbedFile, AtPositions
  <1>4. i \in Kept(p.audio)
    <2>1. q.decision # "drop"
      BY <1>2 DEF PlanAudio, StreamPlan
    <2> QED
      BY <1>2, <1>3, <2>1 DEF Kept
  <1>5. n \in Mapped(p.audio) /\ From(p.audio, n) = i
    BY <1>3, <1>4, FromFinds DEF Mapped
  <1>6. arg.codec = CodecArg(q) /\ arg.channels = q.target.channels
    <2>1. /\ arg.codec = CodecArg(p.audio[i]) /\ arg.channels = p.audio[i].target.channels
      BY <1>3, <1>5, StreamIsTheOne
    <2> QED
      BY <1>2, <2>1
  <1>7. CASE s.codec \in AudioCopyList(s.channels)
    <2>1. q.decision = "copy"
      BY <1>2, <1>7 DEF PlanAudio, StreamPlan
    <2>2. arg.codec = "copy"
      BY <1>6, <2>1 DEF CodecArg
    <2> QED
      BY <1>1, <1>2, <2>1, <2>2 DEF AudioTransform, SoundWritten
  <1>8. CASE s.codec \notin AudioCopyList(s.channels)
    <2>1. PICK t : t = AudioEncodeTarget(p.to, s.channels)
      OBVIOUS
    <2>2. q.decision = "encode" /\ q.target = t
      BY <1>2, <1>8, <2>1 DEF PlanAudio, StreamPlan
    <2>3. t.codec # "copy"
      BY <2>1 DEF AudioEncodeTarget
    <2>4. arg.codec = t.codec /\ arg.channels = t.channels
      BY <1>6, <2>2 DEF CodecArg
    <2>5. AudioTransform(f, p, i) = [codec |-> t.codec, channels |-> t.channels]
      BY <1>2, <2>2 DEF AudioTransform
    <2>6. SoundWritten(s, arg) = [s EXCEPT !.codec = t.codec, !.channels = t.channels]
      BY <2>3, <2>4 DEF SoundWritten
    <2>7. AudioState(SoundWritten(s, arg)) = [codec |-> t.codec, channels |-> t.channels]
      BY <2>6 DEF AudioState, AudioStream
    <2> QED
      BY <1>1, <2>5, <2>7
  <1> QED
    BY <1>7, <1>8

LEMMA TextPredicted ==
    ASSUME NEW f, ProbedFile(f), NEW p, p.subtitle = SubtitlePlans(f, p.to), p.to \in {"matroska", "mp4"},
           NEW i \in Kept(p.subtitle), NEW n, n = OutputIndex(p.subtitle, i),
           NEW arg, arg = StreamArgs(p.subtitle)[n]
    PROVE  SubtitleTransform(f, p, i) = TextWritten(f.subtitle[i], arg).codec
  <1>1. PlansAt(p.subtitle) /\ DOMAIN p.subtitle = DOMAIN f.subtitle
    BY DEF PlansAt, SubtitlePlans, ProbedFile, AtPositions
  <1>2. i \in DOMAIN f.subtitle
    BY <1>1 DEF Kept
  <1>3. PICK s \in SubtitleStream : s = f.subtitle[i]
    BY <1>2 DEF ProbedFile, AtPositions
  <1>4. PICK q : q = p.subtitle[i] /\ q = PlanSubtitle(s, p.to)
    BY <1>2, <1>3 DEF SubtitlePlans
  <1>5. n \in Mapped(p.subtitle) /\ From(p.subtitle, n) = i
    BY <1>1, FromFinds DEF Mapped
  <1>6. arg.codec = CodecArg(q)
    <2>1. arg.codec = CodecArg(p.subtitle[i])
      BY <1>1, <1>5, StreamIsTheOne
    <2> QED
      BY <1>4, <2>1
  <1>7. q.decision # "drop"
    BY <1>4 DEF Kept
  <1>8. PICK t : t = SubtitleTarget(p.to) /\ t \in {"mov_text", "subrip"} /\ t \in TextSubtitles
    BY DEF SubtitleTarget, TextSubtitles
  <1>9. s.codec \in TextSubtitles
    <2>1. ASSUME s.codec \notin TextSubtitles PROVE q = StreamPlan(s, "drop", NoTarget)
      BY <1>4, <1>8, <2>1 DEF PlanSubtitle
    <2> QED
      BY <1>7, <2>1 DEF StreamPlan
  <1>10. CASE s.codec = t
    <2>1. q = StreamPlan(s, "copy", NoTarget)
      BY <1>4, <1>8, <1>10 DEF PlanSubtitle
    <2>2. q.decision = "copy" /\ arg.codec = "copy"
      BY <1>6, <2>1 DEF StreamPlan, CodecArg
    <2> QED
      BY <1>3, <1>4, <2>2 DEF SubtitleTransform, TextWritten
  <1>11. CASE s.codec # t
    <2>1. PICK e : e = [NoTarget EXCEPT !.codec = SubtitleEncoder(t)]
      OBVIOUS
    <2>2. q = StreamPlan(s, "convert", e)
      BY <1>4, <1>8, <1>9, <1>11, <2>1 DEF PlanSubtitle
    <2>3. q.decision = "convert" /\ arg.codec = SubtitleEncoder(t)
      BY <1>6, <2>1, <2>2 DEF StreamPlan, CodecArg, NoTarget
    <2>4. arg.codec # "copy" /\ SubtitleWritten(arg.codec) = t
      BY <1>8, <2>3 DEF SubtitleEncoder, SubtitleWritten
    <2>5. TextWritten(s, arg) = [s EXCEPT !.codec = t]
      BY <2>4 DEF TextWritten
    <2>6. TextWritten(s, arg).codec = t
      BY <2>5 DEF SubtitleStream
    <2>7. SubtitleTransform(f, p, i) = t
      BY <1>4, <1>8, <2>3 DEF SubtitleTransform
    <2> QED
      BY <1>3, <2>6, <2>7
  <1> QED
    BY <1>10, <1>11

\* The picture of an encode, as it is predicted and as it is measured; but for the level.
LEMMA EncodePredicted ==
    ASSUME NEW f, NEW idet, NEW forced, NEW p, NEW r, NEW c, Job(f, idet, forced, p, r, c),
           EncodesVideo(p), NEW w, w = EncodedVideo(Primary(f), c),
           NEW m, m = VideoState(w, ScanOfStream(w))
    PROVE  m = [VideoTransform(f, p) EXCEPT !.level = m.level]
  <1>1. PICK s \in VideoStream : s = Primary(f)
    BY PrimaryIsFirst DEF Job
  <1>2. EncodedAs(w, s, c)
    <2>1. Marred(w, EncodedVideo(s, c), f)
      BY <1>1 DEF Marred
    <2> QED
      BY <1>1, <2>1, EncodedPicture
  <1>3. /\ c.filters = VideoFilters(r) /\ c.profile = VideoProfile(p)
        /\ c.transfer = IF p.hdr THEN HDRTransfer ELSE ""
    <2>1. c = Build(r) /\ r.plan = p
      BY DEF Job
    <2> QED
      BY <2>1, BuildParts
  <1>4. p.hdr <=> IsHDR(s)
    BY <1>1, MadePicture DEF Job
  <1>5. p.deinterlace = Verdict(f, idet).deinterlace
        /\ (EncodesVideo(p) <=> forced \/ Verdict(f, idet).decision = "encode")
    BY MadePicture DEF Job
  <1>6. ~p.deinterlace => ~Interlaced(s)
    <2>1. ASSUME ~p.deinterlace PROVE ~Interlaced(s)
      <3>1. ScanOf(Primary(f), idet) # "interlaced"
        BY <1>5, <2>1, EncodedScan DEF Job
      <3> QED
        BY <1>1, <3>1, ScanTells DEF Job
    <2> QED
      BY <2>1
  <1>7. ~Interlaced(w)
    <2>1. CASE p.deinterlace
      <3>1. c.filters # <<>> /\ c.filters[1] # "hwupload"
        BY <1>3, <2>1, FirstFilter DEF Job
      <3>2. w.order = "progressive"
        BY <1>2, <3>1 DEF EncodedAs
      <3> QED
        BY <3>2 DEF Interlaced
    <2>2. CASE ~p.deinterlace
      <3>1. w.order \in {"progressive", s.order}
        BY <1>2 DEF EncodedAs
      <3> QED
        BY <1>6, <2>2, <3>1 DEF Interlaced
    <2> QED
      BY <2>1, <2>2
  <1>8. IsHDR(w) <=> p.hdr
    <2>1. w.transfer = IF p.hdr THEN "smpte2084" ELSE ""
      BY <1>2, <1>3 DEF EncodedAs, HDRTransfer
    <2> QED
      BY <2>1 DEF IsHDR
  <1>9. PICK profile, pixFmt : /\ profile = IF p.hdr THEN "Main 10" ELSE "Main"
                               /\ pixFmt = IF p.hdr THEN "yuv420p10le" ELSE "yuv420p"
    OBVIOUS
  <1>10. /\ w.codec = "hevc" /\ w.profile = profile /\ w.pixFmt = pixFmt
         /\ w.width = s.width /\ w.height = s.height /\ w.fps = s.fps
    BY <1>2, <1>3, <1>9 DEF EncodedAs, VideoProfile
  <1>11. PICK l : m = [codec |-> "hevc", profile |-> profile, level |-> l, width |-> s.width,
                       height |-> s.height, fps |-> s.fps, pixFmt |-> pixFmt, hdr |-> IsHDR(s),
                       scan |-> "progressive"]
    <2>1. IsHDR(w) = IsHDR(s)
      BY <1>4, <1>8 DEF IsHDR
    <2>2. ScanOfStream(w) = "progressive"
      BY <1>7 DEF ScanOfStream
    <2> QED
      BY <1>10, <2>1, <2>2 DEF VideoState
  <1>12. PICK scan : scan = IF p.deinterlace THEN "interlaced" ELSE ScanOfStream(s)
    OBVIOUS
  <1>13. PICK b : b = VideoState(s, scan)
    OBVIOUS
  <1>14. VideoTransform(f, p) = PredictedVideoState(b, p)
    BY <1>1, <1>12, <1>13 DEF VideoTransform
  <1>15. PICK scanned : scanned = [b EXCEPT !.scan = IF p.deinterlace THEN "progressive" ELSE b.scan]
    OBVIOUS
  <1>16. VideoTransform(f, p) = [scanned EXCEPT !.codec = "hevc", !.level = 0, !.profile = profile,
                                                !.pixFmt = pixFmt]
    BY <1>9, <1>14, <1>15 DEF PredictedVideoState
  <1>17. scanned = [b EXCEPT !.scan = "progressive"]
    <2>1. ~p.deinterlace => scan = "progressive"
      BY <1>6, <1>12 DEF ScanOfStream
    <2>2. b.scan = scan
      BY <1>13 DEF VideoState
    <2> QED
      BY <1>15, <2>1, <2>2
  <1>18. PICK k : b = [codec |-> s.codec, profile |-> s.profile, level |-> k, width |-> s.width,
                       height |-> s.height, fps |-> s.fps, pixFmt |-> s.pixFmt, hdr |-> IsHDR(s),
                       scan |-> scan]
    BY <1>13 DEF VideoState
  <1>19. VideoTransform(f, p) =
            [codec |-> "hevc", profile |-> profile, level |-> 0, width |-> s.width,
             height |-> s.height, fps |-> s.fps, pixFmt |-> pixFmt, hdr |-> IsHDR(s),
             scan |-> "progressive"]
    BY <1>16, <1>17, <1>18
  <1> QED
    BY <1>11, <1>19

\* The picture of a copy, as it is predicted and as it is measured.
LEMMA CopyPredicted ==
    ASSUME NEW f, NEW idet, NEW forced, NEW p, NEW r, NEW c, Job(f, idet, forced, p, r, c),
           ~EncodesVideo(p), NEW w, w = CopiedVideo(Primary(f), c)
    PROVE  VideoState(w, ScanOfStream(w)) = VideoTransform(f, p)
  <1>1. PICK s \in VideoStream : s = Primary(f)
    BY PrimaryIsFirst DEF Job
  <1>2. PICK scan, pending : scan = ScanOf(s, idet) /\ pending = IdetPending(s, idet)
    OBVIOUS
  <1>3. PICK d : d = Verdict(f, idet) /\ d = PlanVideo(s, scan, pending)
    BY <1>1, <1>2 DEF Verdict
  <1>4. /\ EncodesVideo(p) <=> forced \/ Verdict(f, idet).decision = "encode"
        /\ p.levelRewrite <=> ~forced /\ Verdict(f, idet).levelRewrite
        /\ p.deinterlace = Verdict(f, idet).deinterlace
    BY MadePicture DEF Job
  <1>5. ~forced /\ d.decision # "encode" /\ (p.levelRewrite <=> d.levelRewrite)
    BY <1>3, <1>4
  <1>6. ~p.deinterlace /\ (p.levelRewrite => s.codec = "h264")
    <2>1. ~d.deinterlace /\ (d.levelRewrite => "level" \in CopyFailures(s, scan))
      BY <1>3, <1>5, VerdictCases DEF CopiesAsItIs
    <2>2. "level" \in CopyFailures(s, scan) => s.codec = "h264"
      BY DEF CopyFailures
    <2> QED
      BY <1>3, <1>4, <1>5, <2>1, <2>2
  <1>7. c.level = IF p.levelRewrite THEN H264MaxLevel ELSE 0
    BY BuildParts DEF Job
  <1>8. PICK l, dv : /\ l = IF p.levelRewrite THEN 42 ELSE s.level
                     /\ w = [s EXCEPT !.level = l, !.dv = dv]
    <2>1. PICK dv : dv = IF c.container = "mp4" /\ c.tag # "dvh1" THEN 0 ELSE s.dv
      OBVIOUS
    <2>2. PICK l : l = IF c.level > 0 THEN c.level ELSE s.level
      OBVIOUS
    <2>3. w = [s EXCEPT !.level = l, !.dv = dv]
      BY <1>1, <2>1, <2>2 DEF CopiedVideo
    <2>4. l = IF p.levelRewrite THEN 42 ELSE s.level
      BY <1>7, <2>2 DEF H264MaxLevel
    <2> QED
      BY <2>3, <2>4
  <1>9. /\ w.codec = s.codec /\ w.profile = s.profile /\ w.level = l /\ w.width = s.width
        /\ w.height = s.height /\ w.fps = s.fps /\ w.pixFmt = s.pixFmt /\ w.order = s.order
        /\ w.transfer = s.transfer
    BY <1>8 DEF VideoStream
  <1>10. PICK known, sc : known = (IF LevelKnown(s) THEN s.level ELSE 0) /\ sc = ScanOfStream(s)
    OBVIOUS
  <1>11. (IF LevelKnown(w) THEN w.level ELSE 0) = IF p.levelRewrite THEN 42 ELSE known
    <2>1. CASE p.levelRewrite
      BY <1>6, <1>8, <1>9, <2>1 DEF LevelKnown
    <2>2. CASE ~p.levelRewrite
      BY <1>8, <1>9, <1>10, <2>2 DEF LevelKnown
    <2> QED
      BY <2>1, <2>2
  <1>12. ScanOfStream(w) = sc /\ IsHDR(w) = IsHDR(s)
    BY <1>9, <1>10 DEF ScanOfStream, Interlaced, IsHDR
  <1>13. PICK b : b = VideoState(s, sc)
    OBVIOUS
  <1>14. VideoTransform(f, p) = PredictedVideoState(b, p)
    BY <1>1, <1>6, <1>10, <1>13 DEF VideoTransform
  <1>15. b = [codec |-> s.codec, profile |-> s.profile, level |-> known, width |-> s.width,
              height |-> s.height, fps |-> s.fps, pixFmt |-> s.pixFmt, hdr |-> IsHDR(s), scan |-> sc]
    BY <1>10, <1>13 DEF VideoState
  <1>16. VideoTransform(f, p) = [b EXCEPT !.level = IF p.levelRewrite THEN 42 ELSE known]
    <2>1. PredictedVideoState(b, p) =
             [[b EXCEPT !.scan = b.scan] EXCEPT !.level = IF p.levelRewrite THEN H264MaxLevel ELSE @]
      BY <1>6 DEF PredictedVideoState
    <2>2. [b EXCEPT !.scan = b.scan] = b /\ b.level = known
      BY <1>15
    <2> QED
      BY <1>14, <2>1, <2>2 DEF H264MaxLevel
  <1>17. PICK k : k = IF p.levelRewrite THEN 42 ELSE known
    OBVIOUS
  <1>18. VideoTransform(f, p) =
            [codec |-> s.codec, profile |-> s.profile, level |-> k, width |-> s.width,
             height |-> s.height, fps |-> s.fps, pixFmt |-> s.pixFmt, hdr |-> IsHDR(s), scan |-> sc]
    BY <1>15, <1>16, <1>17
  <1> QED
    BY <1>9, <1>11, <1>12, <1>17, <1>18 DEF VideoState

\* The record of a job after it has measured the output, one stream at a time.
LEMMA StreamsMeasured ==
    ASSUME NEW f, NEW idet, NEW forced, NEW p, NEW r, NEW c, Job(f, idet, forced, p, r, c),
           NEW o, DOMAIN o.audio = Mapped(p.audio), DOMAIN o.subtitle = Mapped(p.subtitle),
           Watchable(o) # {}, NEW rec, rec = NewTransform(f, p), NEW m, m = MergeMeasured(rec, p, o)
    PROVE  /\ m = [video |-> m.video, audio |-> m.audio, subtitle |-> m.subtitle]
           /\ m.video = VideoState(Primary(o), ScanOfStream(Primary(o)))
           /\ m.audio = [i \in DOMAIN f.audio |-> m.audio[i]]
           /\ m.subtitle = [i \in DOMAIN f.subtitle |-> m.subtitle[i]]
           /\ PlansAt(p.audio) /\ PlansAt(p.subtitle) /\ Kept(p.audio) = DOMAIN f.audio
           /\ \A i \in DOMAIN f.audio : m.audio[i] = AudioState(o.audio[OutputIndex(p.audio, i)])
           /\ \A i \in Kept(p.subtitle) :
                 m.subtitle[i] = o.subtitle[OutputIndex(p.subtitle, i)].codec
           /\ \A i \in DOMAIN f.subtitle : i \notin Kept(p.subtitle) => m.subtitle[i] = "none"
  <1>1. ProbedFile(f) /\ p.audio = AudioPlans(f, p.to) /\ p.subtitle = SubtitlePlans(f, p.to)
    BY MadePicture DEF Job
  <1>2. /\ PlansAt(p.audio) /\ DOMAIN p.audio = DOMAIN f.audio
        /\ PlansAt(p.subtitle) /\ DOMAIN p.subtitle = DOMAIN f.subtitle
    BY <1>1 DEF PlansAt, AudioPlans, SubtitlePlans, ProbedFile, AtPositions
  <1>3. Kept(p.audio) = DOMAIN f.audio
    BY <1>1 DEF Kept, AudioPlans, PlanAudio, StreamPlan
  <1>4. /\ DOMAIN rec.audio = DOMAIN f.audio /\ DOMAIN rec.subtitle = DOMAIN f.subtitle
        /\ \A i \in DOMAIN f.subtitle : rec.subtitle[i] = SubtitleTransform(f, p, i)
    BY DEF NewTransform
  <1>5. /\ m = [video |-> m.video, audio |-> m.audio, subtitle |-> m.subtitle]
        /\ m.video = VideoState(Primary(o), ScanOfStream(Primary(o)))
        /\ m.audio = [i \in DOMAIN rec.audio |-> m.audio[i]]
        /\ \A i \in DOMAIN rec.audio : \A k :
              AtOutputIndex(p.audio, i, DOMAIN o.audio) = {k} => m.audio[i] = AudioState(o.audio[k])
        /\ m.subtitle = [i \in DOMAIN rec.subtitle |-> m.subtitle[i]]
        /\ \A i \in DOMAIN rec.subtitle :
              AtOutputIndex(p.subtitle, i, DOMAIN o.subtitle) = {} => m.subtitle[i] = rec.subtitle[i]
        /\ \A i \in DOMAIN rec.subtitle : \A k :
              AtOutputIndex(p.subtitle, i, DOMAIN o.subtitle) = {k} => m.subtitle[i] = o.subtitle[k].codec
    BY MeasuredParts
  <1>6. ASSUME NEW i \in DOMAIN f.audio
        PROVE  m.audio[i] = AudioState(o.audio[OutputIndex(p.audio, i)])
    <2>1. AtOutputIndex(p.audio, i, DOMAIN o.audio) = {OutputIndex(p.audio, i)}
      BY <1>2, <1>3, LandsAt
    <2> QED
      BY <1>4, <1>5, <2>1
  <1>7. ASSUME NEW i \in Kept(p.subtitle)
        PROVE  m.subtitle[i] = o.subtitle[OutputIndex(p.subtitle, i)].codec
    <2>1. AtOutputIndex(p.subtitle, i, DOMAIN o.subtitle) = {OutputIndex(p.subtitle, i)}
      BY <1>2, LandsAt
    <2>2. i \in DOMAIN f.subtitle
      BY <1>2 DEF Kept
    <2> QED
      BY <1>4, <1>5, <2>1, <2>2
  <1>8. ASSUME NEW i \in DOMAIN f.subtitle, i \notin Kept(p.subtitle) PROVE m.subtitle[i] = "none"
    <2>1. AtOutputIndex(p.subtitle, i, DOMAIN o.subtitle) = {}
      BY <1>2, <1>8, LandsAt
    <2>2. p.subtitle[i].decision = "drop"
      BY <1>2, <1>8 DEF Kept
    <2>3. rec.subtitle[i] = "none"
      BY <1>4, <2>2 DEF SubtitleTransform
    <2> QED
      BY <1>4, <1>5, <2>1, <2>3
  <1>9. /\ m.audio = [i \in DOMAIN f.audio |-> m.audio[i]]
        /\ m.subtitle = [i \in DOMAIN f.subtitle |-> m.subtitle[i]]
    BY <1>4, <1>5
  <1> QED
    BY <1>2, <1>3, <1>5, <1>6, <1>7, <1>8, <1>9

\* Measuring an output that was written as it was told confirms the prediction.
LEMMA PredictionConfirmed ==
    ASSUME NEW f, NEW idet, NEW forced, NEW p, NEW r, Job(f, idet, forced, p, r, command),
           NEW o, o = FFmpeg(f, command), NEW rec, rec = NewTransform(f, p),
           NEW m, m = MergeMeasured(rec, p, o)
    PROVE  m = IF EncodesVideo(p) THEN [rec EXCEPT !.video.level = m.video.level] ELSE rec
  <1>1. /\ Shaped(o) /\ o.video[0] = Picture(f, p, command)
        /\ DOMAIN o.audio = Mapped(p.audio) /\ DOMAIN o.subtitle = Mapped(p.subtitle)
        /\ \A n \in Mapped(p.audio) :
              o.audio[n] = SoundWritten(f.audio[From(p.audio, n)], command.audio[n])
        /\ \A n \in Mapped(p.subtitle) :
              o.subtitle[n] = TextWritten(f.subtitle[From(p.subtitle, n)], command.subtitle[n])
        /\ command.audio = StreamArgs(p.audio) /\ command.subtitle = StreamArgs(p.subtitle)
    BY StreamsWritten
  <1>2. PICK w : w = o.video[0]
    OBVIOUS
  <1>3. Watchable(o) = {0} /\ Primary(o) = w
    <2>1. DamagedAs(f, o, o)
      BY <1>1 DEF DamagedAs, Marred
    <2> QED
      BY <1>2, <2>1, PictureOfOutput
  <1>4. /\ m = [video |-> m.video, audio |-> m.audio, subtitle |-> m.subtitle]
        /\ m.video = VideoState(w, ScanOfStream(w))
        /\ m.audio = [i \in DOMAIN f.audio |-> m.audio[i]]
        /\ m.subtitle = [i \in DOMAIN f.subtitle |-> m.subtitle[i]]
        /\ PlansAt(p.audio) /\ PlansAt(p.subtitle) /\ Kept(p.audio) = DOMAIN f.audio
        /\ \A i \in DOMAIN f.audio : m.audio[i] = AudioState(o.audio[OutputIndex(p.audio, i)])
        /\ \A i \in Kept(p.subtitle) :
              m.subtitle[i] = o.subtitle[OutputIndex(p.subtitle, i)].codec
        /\ \A i \in DOMAIN f.subtitle : i \notin Kept(p.subtitle) => m.subtitle[i] = "none"
    <2>1. Watchable(o) # {}
      BY <1>3
    <2> QED
      BY <1>1, <1>3, <2>1, StreamsMeasured
  <1>5. /\ ProbedFile(f) /\ p.audio = AudioPlans(f, p.to) /\ p.subtitle = SubtitlePlans(f, p.to)
        /\ p.to \in {"matroska", "mp4"}
    BY MadePicture DEF Job, ContainerFor
  <1>6. /\ rec = [video |-> rec.video, audio |-> rec.audio, subtitle |-> rec.subtitle]
        /\ rec.video = VideoTransform(f, p)
        /\ rec.audio = [i \in DOMAIN f.audio |-> AudioTransform(f, p, i)]
        /\ rec.subtitle = [i \in DOMAIN f.subtitle |-> SubtitleTransform(f, p, i)]
    BY DEF NewTransform
  <1>7. ASSUME NEW i \in DOMAIN f.audio PROVE m.audio[i] = AudioTransform(f, p, i)
    <2>1. PICK n, arg : n = OutputIndex(p.audio, i) /\ arg = command.audio[n]
      OBVIOUS
    <2>2. n \in Mapped(p.audio) /\ From(p.audio, n) = i
      BY <1>4, <2>1, FromFinds DEF Mapped
    <2>3. o.audio[n] = SoundWritten(f.audio[i], arg)
      BY <1>1, <2>1, <2>2
    <2>4. AudioTransform(f, p, i) = AudioState(SoundWritten(f.audio[i], arg))
      BY <1>1, <1>5, <2>1, SoundPredicted
    <2> QED
      BY <1>4, <2>1, <2>3, <2>4
  <1>8. ASSUME NEW i \in DOMAIN f.subtitle PROVE m.subtitle[i] = SubtitleTransform(f, p, i)
    <2>1. CASE i \in Kept(p.subtitle)
      <3>1. PICK n, arg : n = OutputIndex(p.subtitle, i) /\ arg = command.subtitle[n]
        OBVIOUS
      <3>2. n \in Mapped(p.subtitle) /\ From(p.subtitle, n) = i
        BY <1>4, <2>1, <3>1, FromFinds DEF Mapped
      <3>3. o.subtitle[n] = TextWritten(f.subtitle[i], arg)
        BY <1>1, <3>1, <3>2
      <3>4. SubtitleTransform(f, p, i) = TextWritten(f.subtitle[i], arg).codec
        BY <1>1, <1>5, <2>1, <3>1, TextPredicted
      <3> QED
        BY <1>4, <2>1, <3>1, <3>3, <3>4
    <2>2. CASE i \notin Kept(p.subtitle)
      <3>1. DOMAIN p.subtitle = DOMAIN f.subtitle
        BY <1>5 DEF SubtitlePlans
      <3>2. p.subtitle[i].decision = "drop"
        BY <2>2, <3>1 DEF Kept
      <3> QED
        BY <1>4, <2>2, <3>2 DEF SubtitleTransform
    <2> QED
      BY <2>1, <2>2
  <1>9. m.audio = rec.audio /\ m.subtitle = rec.subtitle
    BY <1>4, <1>6, <1>7, <1>8
  <1>10. CASE EncodesVideo(p)
    <2>1. w = EncodedVideo(Primary(f), command)
      BY <1>1, <1>2, <1>10 DEF Picture
    <2>2. PICK l : l = m.video.level
      OBVIOUS
    <2>3. m.video = [rec.video EXCEPT !.level = l]
      BY <1>4, <1>6, <1>10, <2>1, <2>2, EncodePredicted
    <2>4. m = [rec EXCEPT !.video = [rec.video EXCEPT !.level = l]]
      BY <1>4, <1>6, <1>9, <2>3
    <2> QED
      BY <1>10, <2>2, <2>4
  <1>11. CASE ~EncodesVideo(p)
    <2>1. w = CopiedVideo(Primary(f), command)
      BY <1>1, <1>2, <1>11 DEF Picture
    <2>2. m.video = rec.video
      BY <1>4, <1>6, <1>11, <2>1, CopyPredicted
    <2> QED
      BY <1>4, <1>6, <1>9, <1>11, <2>2
  <1> QED
    BY <1>10, <1>11

\* A stream of the output is found again by what it carries.
LEMMA FoundByContent ==
    ASSUME NEW streams, ToldApart(streams), NEW plans, PlansAt(plans), DOMAIN plans = DOMAIN streams,
           NEW out, DOMAIN out = Mapped(plans),
           \A n \in Mapped(plans) : Named(out[n]) = Named(streams[From(plans, n)]),
           NEW i \in DOMAIN streams, NEW k \in CameFrom(out, streams[i])
    PROVE  i \in Kept(plans) /\ k = OutputIndex(plans, i)
  <1>1. k \in Mapped(plans) /\ out[k].content = streams[i].content
    BY DEF CameFrom
  <1>2. PICK j : j = From(plans, k)
    OBVIOUS
  <1>3. j \in Kept(plans) /\ OutputIndex(plans, j) = k
    BY <1>1, <1>2, FromIsKept
  <1>4. Named(out[k]) = Named(streams[j])
    BY <1>1, <1>2
  <1>5. out[k].content = streams[j].content
    BY <1>4 DEF Named
  <1>6. j \in DOMAIN streams
    BY <1>3 DEF Kept
  <1>7. j = i
    BY <1>1, <1>5, <1>6 DEF ToldApart
  <1> QED
    BY <1>3, <1>7

\* The record of a job that is done says of every stream of the source what has become
\* of that very stream, whatever was damaged on the way.
LEMMA RecordIsOfOutput ==
    ASSUME NEW f, NEW idet, NEW forced, NEW p, NEW r, Job(f, idet, forced, p, r, command),
           ToldApart(f.audio), ToldApart(f.subtitle),
           NEW out, out = FFmpeg(f, command), NEW o, DamagedAs(f, out, o), StreamShapeOK(p, o),
           NEW m, m = MergeMeasured(NewTransform(f, p), p, o)
    PROVE  /\ m.video = VideoState(Primary(o), ScanOfStream(Primary(o)))
           /\ \A i \in DOMAIN f.audio :
                 \A k \in CameFrom(o.audio, f.audio[i]) : m.audio[i] = AudioState(o.audio[k])
           /\ \A i \in DOMAIN f.subtitle :
                 /\ CameFrom(o.subtitle, f.subtitle[i]) = {} => m.subtitle[i] = "none"
                 /\ \A k \in CameFrom(o.subtitle, f.subtitle[i]) :
                       m.subtitle[i] = o.subtitle[k].codec
  <1>1. /\ PlansAt(p.audio) /\ PlansAt(p.subtitle)
        /\ DOMAIN o.audio = Mapped(p.audio) /\ DOMAIN o.subtitle = Mapped(p.subtitle)
        /\ \A n \in Mapped(p.audio) : Named(o.audio[n]) = Named(f.audio[From(p.audio, n)])
        /\ \A n \in Mapped(p.subtitle) :
              Named(o.subtitle[n]) = Named(f.subtitle[From(p.subtitle, n)])
    BY NamesArrive
  <1>2. Watchable(o) # {}
    <2>1. PICK v : v = o.video[0]
      OBVIOUS
    <2> QED
      BY <2>1, PictureOfOutput
  <1>3. /\ m.video = VideoState(Primary(o), ScanOfStream(Primary(o)))
        /\ \A i \in DOMAIN f.audio : m.audio[i] = AudioState(o.audio[OutputIndex(p.audio, i)])
        /\ \A i \in Kept(p.subtitle) :
              m.subtitle[i] = o.subtitle[OutputIndex(p.subtitle, i)].codec
        /\ \A i \in DOMAIN f.subtitle : i \notin Kept(p.subtitle) => m.subtitle[i] = "none"
    <2>1. PICK rec : rec = NewTransform(f, p)
      OBVIOUS
    <2>2. /\ m = [video |-> m.video, audio |-> m.audio, subtitle |-> m.subtitle]
          /\ m.video = VideoState(Primary(o), ScanOfStream(Primary(o)))
          /\ m.audio = [i \in DOMAIN f.audio |-> m.audio[i]]
          /\ m.subtitle = [i \in DOMAIN f.subtitle |-> m.subtitle[i]]
          /\ PlansAt(p.audio) /\ PlansAt(p.subtitle) /\ Kept(p.audio) = DOMAIN f.audio
          /\ \A i \in DOMAIN f.audio : m.audio[i] = AudioState(o.audio[OutputIndex(p.audio, i)])
          /\ \A i \in Kept(p.subtitle) :
                m.subtitle[i] = o.subtitle[OutputIndex(p.subtitle, i)].codec
          /\ \A i \in DOMAIN f.subtitle : i \notin Kept(p.subtitle) => m.subtitle[i] = "none"
      BY <1>1, <1>2, <2>1, StreamsMeasured
    <2> QED
      BY <2>2
  <1>4. DOMAIN p.audio = DOMAIN f.audio /\ DOMAIN p.subtitle = DOMAIN f.subtitle
    <2>1. p.audio = AudioPlans(f, p.to) /\ p.subtitle = SubtitlePlans(f, p.to)
      BY MadePicture DEF Job
    <2> QED
      BY <2>1 DEF AudioPlans, SubtitlePlans
  <1>5. ASSUME NEW i \in DOMAIN f.audio, NEW k \in CameFrom(o.audio, f.audio[i])
        PROVE  m.audio[i] = AudioState(o.audio[k])
    <2>1. k = OutputIndex(p.audio, i)
      BY <1>1, <1>4, FoundByContent
    <2> QED
      BY <1>3, <2>1
  <1>6. ASSUME NEW i \in DOMAIN f.subtitle, NEW k \in CameFrom(o.subtitle, f.subtitle[i])
        PROVE  m.subtitle[i] = o.subtitle[k].codec
    <2>1. i \in Kept(p.subtitle) /\ k = OutputIndex(p.subtitle, i)
      BY <1>1, <1>4, FoundByContent
    <2> QED
      BY <1>3, <2>1
  <1>7. ASSUME NEW i \in DOMAIN f.subtitle, CameFrom(o.subtitle, f.subtitle[i]) = {}
        PROVE  m.subtitle[i] = "none"
    <2>1. ASSUME i \in Kept(p.subtitle) PROVE FALSE
      <3>1. PICK n : n = OutputIndex(p.subtitle, i)
        OBVIOUS
      <3>2. n \in Mapped(p.subtitle) /\ From(p.subtitle, n) = i
        BY <1>1, <2>1, <3>1, FromFinds DEF Mapped
      <3>3. Named(o.subtitle[n]) = Named(f.subtitle[i])
        BY <1>1, <3>2
      <3>4. n \in CameFrom(o.subtitle, f.subtitle[i])
        BY <1>1, <3>2, <3>3 DEF Named, CameFrom
      <3> QED
        BY <1>7, <3>4
    <2> QED
      BY <1>3, <2>1
  <1> QED
    BY <1>3, <1>5, <1>6, <1>7

\* The transform record says of every source stream what became of that very stream,
\* and when ffmpeg did as it was told measuring changes nothing of what was predicted,
\* but for the level of an encode (transform.go, execute.go finalise).
THEOREM RecordHolds == Spec => []RecordNamesOutput
  <1>1. ASSUME PInv, phase = "verifying", output = FFmpeg(source, command)
        PROVE  Measured = IF EncodesVideo(plan)
                          THEN [record EXCEPT !.video.level = Measured.video.level] ELSE record
    <2>1. PICK idet \in Scans : JobIs(idet)
      BY <1>1, OutputIsOfJob
    <2>2. record = NewTransform(source, plan)
      BY <1>1 DEF PInv, RecordIsMade
    <2>3. PICK r, m : r = Request /\ m = Measured
      OBVIOUS
    <2>4. m = IF EncodesVideo(plan) THEN [record EXCEPT !.video.level = m.video.level] ELSE record
      BY <1>1, <2>1, <2>2, <2>3, PredictionConfirmed DEF JobIs, Measured
    <2> QED
      BY <2>3, <2>4
  <1>2. ASSUME PInv, Done
        PROVE  /\ record.video = VideoState(Primary(library), ScanOfStream(Primary(library)))
               /\ \A i \in DOMAIN source.audio :
                     \A k \in CameFrom(library.audio, source.audio[i]) :
                        record.audio[i] = AudioState(library.audio[k])
               /\ \A i \in DOMAIN source.subtitle :
                     /\ CameFrom(library.subtitle, source.subtitle[i]) = {} => record.subtitle[i] = "none"
                     /\ \A k \in CameFrom(library.subtitle, source.subtitle[i]) :
                           record.subtitle[i] = library.subtitle[k].codec
    <2>1. PICK idet \in Scans : JobIs(idet)
      BY <1>2, OutputIsOfJob DEF Done
    <2>2. /\ DamagedAs(source, FFmpeg(source, command), library) /\ library = output
          /\ StreamShapeOK(plan, library)
      BY <1>2, OutputIsOfJob DEF Done, Verified
    <2>3. PICK out, r : out = FFmpeg(source, command) /\ r = Request
      OBVIOUS
    <2>4. record = MergeMeasured(NewTransform(source, plan), plan, library)
      BY <1>2, <2>2 DEF PInv, RecordIsMade, Done
    <2>5. ToldApart(source.audio) /\ ToldApart(source.subtitle)
      BY <1>2, ContentAssumption DEF PInv, TInv, TypeOK
    <2> QED
      BY <2>1, <2>2, <2>3, <2>4, <2>5, RecordIsOfOutput DEF JobIs
  <1>3. PInv => RecordNamesOutput
    <2>1. ASSUME PInv PROVE phase = "verifying" /\ output = FFmpeg(source, command) =>
                               Measured = IF EncodesVideo(plan)
                                  THEN [record EXCEPT !.video.level = Measured.video.level] ELSE record
      BY <1>1, <2>1
    <2> QED
      BY <1>2, <2>1 DEF RecordNamesOutput
  <1> QED
    BY <1>3, PInvHolds, PTL

-----------------------------------------------------------------------------
(* Which outputs pass the checks. *)

\* The two orders verify.go compares: by place and then type, by type and then place.
ByPlace(x, y) == x[2] < y[2] \/ (x[2] = y[2] /\ x[1] < y[1])
ByType(x, y) == x[1] < y[1] \/ (x[1] = y[1] /\ x[2] < y[2])

\* Streams of different types are at different positions of the output.
LEMMA PositionTells ==
    ASSUME NEW S \in SUBSET (Nat \X Nat), IsFiniteSet(S), NEW s \in S, NEW t \in S, s[1] < t[1]
    PROVE  ActualPosition(S, s) # ActualPosition(S, t)
  <1> DEFINE A == {x \in S : ByType(x, s)}
             B == {x \in S : ByType(x, t)}
  <1>1. \A x \in S : ByType(x, s) => ByType(x, t)
    <2> TAKE x \in S
    <2>1. /\ x[1] \in Nat /\ x[2] \in Nat /\ s[1] \in Nat /\ s[2] \in Nat
          /\ t[1] \in Nat /\ t[2] \in Nat
      OBVIOUS
    <2> QED
      BY <2>1 DEF ByType
  <1>2. ByType(s, t) /\ ~ByType(s, s)
    <2>1. s[1] \in Nat /\ s[2] \in Nat /\ t[1] \in Nat
      OBVIOUS
    <2> QED
      BY <2>1 DEF ByType
  <1>3. A \in SUBSET B /\ B \in SUBSET S /\ s \in B /\ s \notin A
    BY <1>1, <1>2
  <1>4. ActualPosition(S, s) = Cardinality(A) /\ ActualPosition(S, t) = Cardinality(B)
    BY DEF ActualPosition, ByType
  <1> HIDE DEF A, B
  <1>5. IsFiniteSet(B)
    BY <1>3, FS_Subset
  <1>6. Cardinality(A) = Cardinality(B) => A = B
    BY <1>3, <1>5, FS_Subset
  <1> QED
    BY <1>3, <1>4, <1>6

\* The numbers of the streams of one type start at 0.
Streams(a, b) == StreamPairs({0}, 0 .. (a - 1), 0 .. (b - 1))

\* With one sound, or no subtitle, the two orders are the same.
LEMMA OrdersAgree ==
    ASSUME NEW a \in Nat, NEW b \in Nat, a <= 1 \/ b = 0,
           NEW x \in Streams(a, b), NEW y \in Streams(a, b)
    PROVE  ByPlace(x, y) <=> ByType(x, y)
  <1>1. ASSUME NEW z \in Streams(a, b)
        PROVE  \/ z[1] = 1 /\ z[2] = 0
               \/ z[1] = 2 /\ z[2] \in Nat /\ z[2] <= a - 1
               \/ z[1] = 3 /\ z[2] \in Nat /\ z[2] <= b - 1
    BY DEF Streams, StreamPairs
  <1>2. PICK i \in Nat, k \in Nat : i = x[1] /\ k = x[2]
    BY <1>1
  <1>3. PICK j \in Nat, l \in Nat : j = y[1] /\ l = y[2]
    BY <1>1
  <1>4. (i = 1 /\ k = 0) \/ (i = 2 /\ k <= a - 1) \/ (i = 3 /\ k <= b - 1)
    BY <1>1, <1>2
  <1>5. (j = 1 /\ l = 0) \/ (j = 2 /\ l <= a - 1) \/ (j = 3 /\ l <= b - 1)
    BY <1>1, <1>3
  <1>6. k < l \/ (k = l /\ i < j) <=> i < j \/ (i = j /\ k < l)
    BY <1>4, <1>5
  <1> QED
    BY <1>2, <1>3, <1>6 DEF ByPlace, ByType

LEMMA StreamsAreFinite ==
    ASSUME NEW a \in Nat, NEW b \in Nat
    PROVE  Streams(a, b) \in SUBSET (Nat \X Nat) /\ IsFiniteSet(Streams(a, b))
  <1>1. PICK A, B : A = 0 .. (a - 1) /\ B = 0 .. (b - 1)
    OBVIOUS
  <1>2. IsFiniteSet(A) /\ IsFiniteSet(B) /\ A \in SUBSET Nat /\ B \in SUBSET Nat
    BY <1>1, FS_Interval
  <1>3. IsFiniteSet({0}) /\ IsFiniteSet({1}) /\ IsFiniteSet({2}) /\ IsFiniteSet({3})
    BY FS_Singleton
  <1>4. PICK D, E, G : D = {1} \X {0} /\ E = {2} \X A /\ G = {3} \X B
    OBVIOUS
  <1>5. IsFiniteSet(D) /\ IsFiniteSet(E) /\ IsFiniteSet(G)
    BY <1>2, <1>3, <1>4, FS_Product
  <1>6. Streams(a, b) = D \union E \union G
    BY <1>1, <1>4 DEF Streams, StreamPairs
  <1>7. IsFiniteSet(D \union E)
    BY <1>5, FS_Union
  <1>8. IsFiniteSet((D \union E) \union G)
    BY <1>5, <1>7, FS_Union
  <1>9. ASSUME NEW X \in SUBSET Nat, NEW k \in Nat PROVE {k} \X X \subseteq Nat \X Nat
    OBVIOUS
  <1>10. D \subseteq Nat \X Nat /\ E \subseteq Nat \X Nat /\ G \subseteq Nat \X Nat
    BY <1>2, <1>4, <1>9
  <1> QED
    BY <1>6, <1>8, <1>10

\* What verify.go makes of the order of streams that are all there.
TypesAgree(S) ==
    \A s \in S, t \in S : ExpectedPosition(S, s) = ActualPosition(S, t) => s[1] = t[1]

LEMMA ShapeOfSound ==
    ASSUME NEW a \in Nat, NEW b \in Nat, NEW S, S = Streams(a, b)
    PROVE  TypesAgree(S) <=> ~(a > 1 /\ b > 0)
  <1>1. S \in SUBSET (Nat \X Nat) /\ IsFiniteSet(S)
    BY StreamsAreFinite
  <1>2. ASSUME a <= 1 \/ b = 0 PROVE TypesAgree(S)
    <2> SUFFICES ASSUME NEW s \in S, NEW t \in S, ExpectedPosition(S, s) = ActualPosition(S, t)
                 PROVE  s[1] = t[1]
      BY DEF TypesAgree
    <2>1. \A x \in S : ByPlace(x, s) <=> ByType(x, s)
      BY <1>2, OrdersAgree
    <2>2. {x \in S : ByPlace(x, s)} = {x \in S : ByType(x, s)}
      BY <2>1
    <2>3. ExpectedPosition(S, s) = ActualPosition(S, s)
      BY <2>2 DEF ExpectedPosition, ActualPosition, ByPlace, ByType
    <2>4. ActualPosition(S, s) = ActualPosition(S, t)
      BY <2>3
    <2>5. ~(s[1] < t[1]) /\ ~(t[1] < s[1])
      BY <1>1, <2>4, PositionTells
    <2>6. s[1] \in Nat /\ t[1] \in Nat
      BY <1>1
    <2> QED
      BY <2>5, <2>6
  <1>3. ASSUME a > 1, b > 0 PROVE ~TypesAgree(S)
    <2>1. PICK s, t : s = <<3, 0>> /\ t = <<2, 1>>
      OBVIOUS
    <2>2. s \in S /\ t \in S /\ <<1, 0>> \in S /\ <<2, 0>> \in S
      BY <1>3, <2>1 DEF Streams, StreamPairs
    <2>3. ASSUME NEW x \in S
          PROVE  ByPlace(x, s) <=> ByType(x, t)
      <3>1. PICK i \in Nat, k \in Nat : x = <<i, k>>
        BY <1>1
      <3>2. (i = 1 /\ k = 0) \/ i = 2 \/ i = 3
        BY <3>1 DEF Streams, StreamPairs
      <3>3. k < 0 \/ (k = 0 /\ i < 3) <=> i < 2 \/ (i = 2 /\ k < 1)
        BY <3>2
      <3> QED
        BY <2>1, <3>1, <3>3 DEF ByPlace, ByType
    <2>4. {x \in S : ByPlace(x, s)} = {x \in S : ByType(x, t)}
      BY <2>3
    <2>5. ExpectedPosition(S, s) = ActualPosition(S, t)
      BY <2>4 DEF ExpectedPosition, ActualPosition, ByPlace, ByType
    <2>6. s[1] # t[1]
      BY <2>1
    <2> QED
      BY <2>2, <2>5, <2>6 DEF TypesAgree
  <1>4. ~(a > 1 /\ b > 0) => a <= 1 \/ b = 0
    OBVIOUS
  <1> QED
    BY <1>2, <1>3, <1>4

\* The length and the size of what is written.
LEMMA LengthWritten ==
    ASSUME NEW f, Shaped(f), NEW c, NEW out, out = FFmpeg(f, c)
    PROVE  out.duration = f.length /\ out.size = f.size
  <1>1. PICK V, A, S : out = [f EXCEPT !.format = {c.container}, !.duration = f.length,
                                       !.video = V, !.audio = A, !.subtitle = S]
    BY DEF FFmpeg
  <1> QED
    BY <1>1 DEF Shaped

LEMMA DurationPasses ==
    ASSUME NEW f, f.length \in Int, f.length > 0, TrueHeader(f), NEW out, out.duration = f.length
    PROVE  DurationOK(f, out, f.length)
  <1>1. PICK n \in Int : n = f.length /\ n > 0
    OBVIOUS
  <1>2. 100 * (n - n) <= n /\ ~(n > n)
    BY <1>1
  <1>3. WithinTolerance(n, n)
    BY <1>2 DEF WithinTolerance
  <1>4. CASE IsLegacyContainer(f)
    BY <1>1, <1>3, <1>4 DEF DurationOK
  <1>5. CASE f.duration = f.length
    BY <1>1, <1>3, <1>5 DEF DurationOK
  <1> QED
    BY <1>4, <1>5 DEF TrueHeader

\* A copy that was made as it was told is what the checks ask of a copy.
LEMMA CopyPasses ==
    ASSUME NEW f, NEW idet, NEW forced, NEW p, NEW r, NEW c, Job(f, idet, forced, p, r, c),
           ~EncodesVideo(p), NEW w, w = CopiedVideo(Primary(f), c),
           \A n \in DOMAIN f.video : f.video[n].dv = NoEncodeProfile => f.video[n].codec = "hevc"
    PROVE  /\ w.codec = Primary(f).codec /\ w.profile = Primary(f).profile
           /\ w.width = Primary(f).width /\ w.height = Primary(f).height
           /\ LevelOK(p, Primary(f), w)
           /\ p.dv = NoEncodeProfile => w.dv > 0
  <1>1. PICK s \in VideoStream : s = Primary(f)
    BY PrimaryIsFirst DEF Job
  <1>2. PICK scan, pending : scan = ScanOf(s, idet) /\ pending = IdetPending(s, idet)
    OBVIOUS
  <1>3. PICK d : d = Verdict(f, idet) /\ d = PlanVideo(s, scan, pending)
    BY <1>1, <1>2 DEF Verdict
  <1>4. /\ EncodesVideo(p) <=> forced \/ Verdict(f, idet).decision = "encode"
        /\ p.levelRewrite <=> ~forced /\ Verdict(f, idet).levelRewrite
        /\ p.dv = Primary(f).dv
    BY MadePicture DEF Job
  <1>5. p.levelRewrite => s.codec = "h264"
    <2>1. d.decision # "encode" /\ (p.levelRewrite => d.levelRewrite)
      BY <1>3, <1>4
    <2>2. d.levelRewrite => "level" \in CopyFailures(s, scan)
      BY <1>3, <2>1, VerdictCases DEF CopiesAsItIs
    <2>3. "level" \in CopyFailures(s, scan) => s.codec = "h264"
      BY DEF CopyFailures
    <2> QED
      BY <2>1, <2>2, <2>3
  <1>6. /\ p.levelRewrite => c.level = 42
        /\ ~p.levelRewrite => c.level = 0
        /\ c.container = p.to
        /\ p.to = "mp4" /\ s.codec = "hevc" => c.tag = MP4HEVCTag(p)
    <2>1. r.plan = p /\ r.codec = s.codec /\ c = Build(r)
      BY <1>1 DEF Job
    <2>2. /\ c.container = p.to
          /\ c.level = IF p.levelRewrite THEN H264MaxLevel ELSE 0
      BY <2>1, BuildParts
    <2>3. c.tag = IF r.plan.to = "mp4" /\ r.codec = "hevc" THEN MP4HEVCTag(r.plan) ELSE ""
      BY <2>1, BuildParts
    <2> QED
      BY <2>1, <2>2, <2>3 DEF H264MaxLevel
  <1>7. PICK l, dv : /\ l = IF p.levelRewrite THEN 42 ELSE s.level
                     /\ dv = IF c.container = "mp4" /\ c.tag # "dvh1" THEN 0 ELSE s.dv
                     /\ w = [s EXCEPT !.level = l, !.dv = dv]
    <2>1. PICK dv : dv = IF c.container = "mp4" /\ c.tag # "dvh1" THEN 0 ELSE s.dv
      OBVIOUS
    <2>2. PICK l : l = IF c.level > 0 THEN c.level ELSE s.level
      OBVIOUS
    <2>3. w = [s EXCEPT !.level = l, !.dv = dv]
      BY <1>1, <2>1, <2>2 DEF CopiedVideo
    <2>4. l = IF p.levelRewrite THEN 42 ELSE s.level
      BY <1>6, <2>2
    <2> QED
      BY <2>1, <2>3, <2>4
  <1>8. /\ w.codec = s.codec /\ w.profile = s.profile /\ w.level = l /\ w.width = s.width
        /\ w.height = s.height /\ w.dv = dv
    BY <1>7 DEF VideoStream
  <1>9. LevelOK(p, s, w)
    BY <1>5, <1>7, <1>8 DEF LevelOK, LevelKnown, H264MaxLevel
  <1>10. ASSUME p.dv = NoEncodeProfile PROVE w.dv > 0
    <2>1. s.dv = 5 /\ p.dv = 5
      BY <1>1, <1>4, <1>10 DEF NoEncodeProfile
    <2>2. s.codec = "hevc"
      <3>1. PrimaryVideo(f) \in DOMAIN f.video
        BY PrimaryIsFirst DEF Job
      <3> QED
        BY <1>1, <2>1, <3>1 DEF Primary, NoEncodeProfile
    <2>3. c.container = "mp4" => c.tag = "dvh1"
      BY <1>6, <2>1, <2>2 DEF MP4HEVCTag
    <2> QED
      BY <1>7, <1>8, <2>1, <2>3
  <1> QED
    BY <1>1, <1>8, <1>9, <1>10

\* How many streams of each type an output that is complete has.
LEMMA ShapePasses ==
    ASSUME NEW f, NEW idet, NEW forced, NEW p, NEW r, Job(f, idet, forced, p, r, command),
           NEW out, out = FFmpeg(f, command), Watchable(out) = {0}
    PROVE  StreamShapeOK(p, out) <=> ~Mixed(p)
  <1>1. DOMAIN out.audio = Mapped(p.audio) /\ DOMAIN out.subtitle = Mapped(p.subtitle)
    BY StreamsWritten
  <1>2. PlansAt(p.audio) /\ PlansAt(p.subtitle) /\ Mapped(p.video) = {0}
    <2>1. PICK arg : arg = StreamArgs(p.video)[0]
      OBVIOUS
    <2>2. Mapped(p.video) = {0}
      BY <2>1, PictureArrives DEF Job
    <2>3. ProbedFile(f) /\ p.audio = AudioPlans(f, p.to) /\ p.subtitle = SubtitlePlans(f, p.to)
      BY MadePicture DEF Job
    <2> QED
      BY <2>2, <2>3 DEF PlansAt, AudioPlans, SubtitlePlans, ProbedFile, AtPositions
  <1>3. PICK a, b : a = Cardinality(Kept(p.audio)) /\ b = Cardinality(Kept(p.subtitle))
    OBVIOUS
  <1>4. ASSUME NEW plans, PlansAt(plans), NEW n, n = Cardinality(Kept(plans))
        PROVE  /\ n \in Nat /\ Mapped(plans) = 0 .. (n - 1) /\ (n > 0 <=> Kept(plans) # {})
    <2>1. Kept(plans) \in SUBSET Nat /\ IsFiniteSet(Kept(plans))
      BY <1>4, KeptIsFinite
    <2>2. n \in Nat /\ {Ordinal(Kept(plans), i) : i \in Kept(plans)} = 0 .. (n - 1)
      BY <1>4, <2>1, PlacesAreCounted
    <2>3. n = 0 <=> Kept(plans) = {}
      BY <1>4, <2>1, FS_EmptySet
    <2> QED
      BY <2>2, <2>3 DEF Mapped, OutputIndex
  <1>5. /\ a \in Nat /\ Mapped(p.audio) = 0 .. (a - 1)
        /\ b \in Nat /\ Mapped(p.subtitle) = 0 .. (b - 1) /\ (b > 0 <=> Kept(p.subtitle) # {})
    BY <1>2, <1>3, <1>4
  <1>6. PICK S : S = Streams(a, b)
    OBVIOUS
  <1>7. PlannedStreams(p) = S
    BY <1>2, <1>5, <1>6 DEF PlannedStreams, Streams
  <1>8. PresentStreams(out) = S
    <2>1. {i \in DOMAIN out.video : ~out.video[i].pic} = {0}
      BY DEF Watchable
    <2> QED
      BY <1>1, <1>5, <1>6, <2>1 DEF PresentStreams, Streams
  <1>9. StreamShapeOK(p, out) <=> TypesAgree(S)
    BY <1>7, <1>8 DEF StreamShapeOK, TypesAgree
  <1>10. TypesAgree(S) <=> ~(a > 1 /\ b > 0)
    BY <1>5, <1>6, ShapeOfSound
  <1> QED
    BY <1>3, <1>5, <1>9, <1>10 DEF Mixed

LEMMA SoundPasses ==
    ASSUME NEW f, NEW idet, NEW forced, NEW p, NEW r, Job(f, idet, forced, p, r, command),
           f.length > 0, TrueHeader(f), Kept(p.audio) # {},
           \A n \in DOMAIN f.video : f.video[n].dv = NoEncodeProfile => f.video[n].codec = "hevc",
           NEW out, out = FFmpeg(f, command)
    PROVE  Verified(f, p, out, f.length) <=> ~Mixed(p)
  <1>1. /\ Shaped(out) /\ out.video[0] = Picture(f, p, command)
        /\ DOMAIN out.audio = Mapped(p.audio) /\ DOMAIN out.subtitle = Mapped(p.subtitle)
    BY StreamsWritten
  <1>2. DamagedAs(f, out, out)
    BY <1>1 DEF DamagedAs, Marred
  <1>3. PICK w : w = out.video[0]
    OBVIOUS
  <1>4. Watchable(out) = {0} /\ FirstVideo(out) = w
    BY <1>2, <1>3, PictureOfOutput
  <1>5. ProbedFile(f) /\ f.length \in Int /\ f.size \in Int
    BY DEF Job, ProbedFile
  <1>6. out.duration = f.length /\ out.size = f.size
    BY <1>5, ProbedIsShaped, LengthWritten
  <1>7. DurationOK(f, out, f.length)
    BY <1>5, <1>6, DurationPasses
  <1>8. SizeOK(f, p, out)
    BY <1>5, <1>6 DEF SizeOK
  <1>9. AudioOK(f, p, out)
    <2>1. PlansAt(p.audio) /\ \A n \in Mapped(p.audio) : Named(out.audio[n]) = Named(f.audio[From(p.audio, n)])
      BY <1>1, <1>2, NamesStay
    <2>2. ASSUME NEW i \in Kept(p.audio)
          PROVE  \E n \in DOMAIN out.audio : out.audio[n].lang = f.audio[i].lang
      <3>1. PICK n : n = OutputIndex(p.audio, i)
        OBVIOUS
      <3>2. n \in Mapped(p.audio) /\ From(p.audio, n) = i
        BY <2>1, <3>1, FromFinds DEF Mapped
      <3>3. out.audio[n].lang = f.audio[i].lang
        BY <2>1, <3>2 DEF Named
      <3> QED
        BY <1>1, <3>2, <3>3
    <2> QED
      BY <2>2 DEF AudioOK, Languages
  <1>10. /\ EncodesVideo(p) <=> forced \/ Verdict(f, idet).decision = "encode"
         /\ p.dv = Primary(f).dv
    BY MadePicture DEF Job
  <1>11. VideoCopyOK(f, p, out) /\ DolbyVisionOK(p, out)
    <2>1. CASE ~EncodesVideo(p)
      <3>1. w = CopiedVideo(Primary(f), command)
        BY <1>1, <1>3, <2>1 DEF Picture
      <3>2. /\ w.codec = Primary(f).codec /\ w.profile = Primary(f).profile
            /\ w.width = Primary(f).width /\ w.height = Primary(f).height
            /\ LevelOK(p, Primary(f), w)
            /\ p.dv = NoEncodeProfile => w.dv > 0
        BY <2>1, <3>1, CopyPasses
      <3> QED
        BY <1>4, <3>2 DEF VideoCopyOK, DolbyVisionOK, DolbyVision
    <2>2. CASE EncodesVideo(p)
      <3>1. p.dv # NoEncodeProfile
        <4>1. CASE forced
          BY <1>10, <4>1 DEF Job
        <4>2. CASE Verdict(f, idet).decision = "encode"
          <5>1. PICK s, scan, pending, d : /\ s = Primary(f) /\ d = Verdict(f, idet)
                                           /\ d = PlanVideo(s, scan, pending)
            BY DEF Verdict
          <5>2. s.dv # NoEncodeProfile
            BY <4>2, <5>1, VerdictCases DEF CopiesAsItIs
          <5> QED
            BY <1>10, <5>1, <5>2
        <4> QED
          BY <1>10, <2>2, <4>1, <4>2
      <3> QED
        BY <2>2, <3>1 DEF VideoCopyOK, DolbyVisionOK
    <2> QED
      BY <2>1, <2>2
  <1>12. StreamShapeOK(p, out) <=> ~Mixed(p)
    BY <1>4, ShapePasses
  <1> QED
    BY <1>7, <1>8, <1>9, <1>11, <1>12 DEF Verified

\* An output ffmpeg wrote as it was told passes verification, but for one case: two
\* sounds with a subtitle after them, which verify.go's sort by output index takes for
\* streams in the wrong order.
THEOREM SoundOutputHolds == Spec => []SoundOutputPasses
  <1>1. ASSUME PInv, phase = "verifying", TrueHeader(source), output = FFmpeg(source, command)
        PROVE  Verified(source, plan, output, finalOut) <=> ~Mixed(plan)
    <2>1. PICK idet \in Scans : JobIs(idet)
      BY <1>1, OutputIsOfJob
    <2>2. finalOut = source.length
      BY <1>1, OutputIsOfJob
    <2>3. /\ source.length > 0
          /\ \A n \in DOMAIN source.video :
                source.video[n].dv = NoEncodeProfile => source.video[n].codec = "hevc"
      BY <1>1, PlayableAssumption DEF PInv, TInv, TypeOK
    <2>4. Kept(plan.audio) # {}
      <3>1. "noaudio" \notin BuildErrors(Request)
        BY <1>1 DEF PInv, TInv, AsRequested, Launched
      <3>2. Request.plan = plan
        BY DEF Request
      <3> QED
        BY <3>1, <3>2 DEF BuildErrors
    <2>5. PICK out, r : out = output /\ r = Request
      OBVIOUS
    <2> QED
      BY <1>1, <2>1, <2>2, <2>3, <2>4, <2>5, SoundPasses DEF JobIs
  <1>2. PInv => SoundOutputPasses
    BY <1>1 DEF SoundOutputPasses
  <1> QED
    BY <1>2, PInvHolds, PTL
=============================================================================
