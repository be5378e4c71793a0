------------------------------ MODULE Hardware ------------------------------
(***************************************************************************)
(* What the iGPU can do and which encoder a job gets (internal/hardware).  *)
(* A probe run is the set of the entries that worked, each a backend's     *)
(* encoder with a profile it encodes or a codec it decodes; the cache      *)
(* holds one run and what the rows say of it.                              *)
(***************************************************************************)
EXTENDS Command

Backends == {"hevc_qsv", "hevc_vaapi"}
Profiles == {"Main", "Main 10"}
DecodeProbes == {"vp9", "av1"}
Entries == Backends \X (Profiles \union DecodeProbes)

\* ffmpeg is the build that made the rows, all of them in one transaction; partial
\* is what an older probe matrix left.
Cache == [ffmpeg : {"this", "other"}, partial : BOOLEAN, rows : {"none", "some"},
          works : SUBSET Entries]

\* What a probe writes down: a codec for which no sample can be made is taken for
\* one that does not decode.
Probed(works, samples) == {e \in works : e[2] \in Profiles \union samples}

\* The device is not looked at.
Usable(cache) == cache.rows = "some" /\ cache.ffmpeg = "this" /\ ~cache.partial

Capabilities(cache, works, samples) ==
    IF Usable(cache) THEN cache.works ELSE Probed(works, samples)

ProfileFor(hdr) == IF hdr THEN "Main 10" ELSE "Main"
Encodes(caps, encoder, hdr) == <<encoder, ProfileFor(hdr)>> \in caps

Selection(encoder) == [encoder |-> encoder, fellBack |-> encoder # "hevc_qsv"]
\* VAAPI not taken for a fallback.
SelectQuietly(caps, hdr) ==
    IF Encodes(caps, "hevc_qsv", hdr) THEN Selection("hevc_qsv")
    ELSE IF Encodes(caps, "hevc_vaapi", hdr) THEN [encoder |-> "hevc_vaapi", fellBack |-> FALSE]
    ELSE Selection(Software)
Select(caps, hdr) ==
    Selection(CASE Encodes(caps, "hevc_qsv", hdr) -> "hevc_qsv"
                [] ~Encodes(caps, "hevc_qsv", hdr) /\ Encodes(caps, "hevc_vaapi", hdr) -> "hevc_vaapi"
                [] OTHER -> Software)

\* The chain cut at the last backend, or ending in another codec.
NextBackend(caps, current, hdr) ==
    IF current = "hevc_qsv" /\ Encodes(caps, "hevc_vaapi", hdr) THEN {"hevc_vaapi"} ELSE {}
NextEncoderOther(caps, current, hdr) ==
    IF current = "hevc_qsv" /\ Encodes(caps, "hevc_vaapi", hdr) THEN {"hevc_vaapi"}
    ELSE IF current \in Backends THEN {"libx264"} ELSE {}

\* The encoders worth trying after one failed; there is nothing below software.
NextEncoder(caps, current, hdr) ==
    CASE current = "hevc_qsv" /\ Encodes(caps, "hevc_vaapi", hdr) -> {"hevc_vaapi"}
      [] current \in Backends /\ ~(current = "hevc_qsv" /\ Encodes(caps, "hevc_vaapi", hdr)) ->
            {Software}
      [] OTHER -> {}

\* VP9 is in the silicon and not always in the driver: the probe has the last word.
DecodesOn(caps, encoder, codec) ==
    /\ encoder \in Backends /\ HardwareDecodable(codec)
    /\ codec = "vp9" => <<encoder, "vp9">> \in caps

RetryInSoftware(decode, alreadyRetried) == decode = "hardware" /\ ~alreadyRetried
=============================================================================
