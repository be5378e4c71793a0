------------------------------ MODULE Sampling ------------------------------
(***************************************************************************)
(* The sample probes of one file (ffmpeg/sample.go, job/execute.go): the   *)
(* worker, before it encodes, and every space sweep that considers the     *)
(* file encode a few windows of it at once, each into a file of the        *)
(* probe's directory, and take the rate from the sizes of these files.     *)
(* The directory has the name of the job or of the media file, so two      *)
(* sweeps share one, and so do a job and the job's run before a crash.     *)
(***************************************************************************)
EXTENDS Naturals

CONSTANTS
    Segment,        \* the windows of the file (SampleSegments)
    Sweep,          \* requests that may sweep the file, each any number of times
    Worker,         \* the worker, which has a job of the file
    Leftover,       \* a sample of a run that died
    Absent,
    MaxKills        \* bound on crashes

ASSUME SamplingAssumption ==
    /\ Segment # {} /\ Worker \notin Sweep /\ MaxKills \in Nat
    /\ Leftover \notin Sweep \union {Worker}
    /\ Absent \notin Sweep \union {Worker, Leftover}

Prober == Sweep \union {Worker}

\* The name of the probe's directory.
DirOf(p) == IF p = Worker THEN "job" ELSE "sweep"
Dir == {"job", "sweep"}

VARIABLES
    made,           \* the directories there are
    samples,        \* whose sample is at each name
    step,           \* where each window of each probe is
    heard,          \* what each window's size was read from
    answer,         \* of the worker's last probe: none, measured or formula
    refused,        \* whether ffmpeg refused the worker's run for a file in its way
    refusals,       \* runs of the worker that were
    kills

samplingVars == <<made, samples, step, heard, answer, refused, refusals, kills>>

SampleAt(p, n) == samples[DirOf(p)][n]
Idle(p) == \A n \in Segment : step[p][n] = "idle"
Through(p) == \A n \in Segment : step[p][n] \in {"done", "failed"}

\* MkdirAll, and one goroutine for every window.
StartProbe(p) ==
    /\ Idle(p)
    /\ p = Worker => answer = "none"
    /\ made' = made \union {DirOf(p)}
    /\ step' = [step EXCEPT ![p] = [n \in Segment |-> "begun"]]
    /\ heard' = [heard EXCEPT ![p] = [n \in Segment |-> "nothing"]]
    /\ refused' = IF p = Worker THEN FALSE ELSE refused
    /\ UNCHANGED <<samples, answer, refusals, kills>>

\* ffmpeg opens its output: without -y it refuses a name that is taken.
Encode(p, n) ==
    /\ step[p][n] = "begun"
    /\ IF DirOf(p) \in made /\ SampleAt(p, n) = Absent
       THEN /\ samples' = [samples EXCEPT ![DirOf(p)][n] = p]
            /\ step' = [step EXCEPT ![p][n] = "encoding"]
            /\ UNCHANGED <<refused, refusals>>
       ELSE /\ step' = [step EXCEPT ![p][n] = "lost"]
            /\ refused' = (refused \/ p = Worker)
            /\ refusals' = IF p = Worker /\ ~refused THEN refusals + 1 ELSE refusals
            /\ UNCHANGED samples
    /\ UNCHANGED <<made, heard, answer, kills>>

\* The encode ends, or fails, or its caller has gone.
SampleEncoded(p, n) ==
    /\ step[p][n] = "encoding"
    /\ \E how \in {"encoded", "lost"} : step' = [step EXCEPT ![p][n] = how]
    /\ UNCHANGED <<made, samples, heard, answer, refused, refusals, kills>>

\* The size of whatever has the name now.  Somebody else's sample may be one that
\* is still being written.
Measure(p, n) ==
    /\ step[p][n] = "encoded"
    /\ IF SampleAt(p, n) = Absent
       THEN step' = [step EXCEPT ![p][n] = "lost"] /\ UNCHANGED heard
       ELSE /\ step' = [step EXCEPT ![p][n] = "measured"]
            /\ heard' = [heard EXCEPT ![p][n] =
                   IF SampleAt(p, n) \in {q \in Prober : step[q][n] \in {"encoded", "measured"}}
                   THEN "whole" ELSE "partial"]
    /\ UNCHANGED <<made, samples, answer, refused, refusals, kills>>

\* A sample is kept when its encode has failed.
KeepFailedSample(p, n) ==
    /\ step[p][n] \in {"measured", "lost"}
    /\ samples' = IF step[p][n] = "lost" THEN samples ELSE [samples EXCEPT ![DirOf(p)][n] = Absent]
    /\ step' = [step EXCEPT ![p][n] = IF step[p][n] = "measured" THEN "done" ELSE "failed"]
    /\ UNCHANGED <<made, heard, answer, refused, refusals, kills>>

\* The deferred Remove: the name goes, whoever's sample has it.
RemoveSample(p, n) ==
    /\ step[p][n] \in {"measured", "lost"}
    /\ samples' = [samples EXCEPT ![DirOf(p)][n] = Absent]
    /\ step' = [step EXCEPT ![p][n] = IF step[p][n] = "measured" THEN "done" ELSE "failed"]
    /\ UNCHANGED <<made, heard, answer, refused, refusals, kills>>

\* Base: the median of all windows or, if one failed, an error.  Remove of the
\* directory fails while it has files.
RemoveDir(d) == IF \A n \in Segment : samples[d][n] = Absent THEN made \ {d} ELSE made
ProbeEnds(p) ==
    /\ Through(p)
    /\ made' = RemoveDir(DirOf(p))
    /\ step' = [step EXCEPT ![p] = [n \in Segment |-> "idle"]]
    /\ answer' = IF p # Worker THEN answer
                 ELSE IF \A n \in Segment : step[p][n] = "done" THEN "measured" ELSE "formula"
    /\ UNCHANGED <<samples, heard, refused, refusals, kills>>

\* The job is retried or restarted.
RunAgain ==
    /\ answer # "none" /\ answer' = "none"
    /\ UNCHANGED <<made, samples, step, heard, refused, refusals, kills>>

\* The process dies and starts again.  The orphan sweep removes the directories it
\* can, which are the empty ones.
Kill ==
    /\ kills < MaxKills /\ kills' = kills + 1
    /\ samples' = [d \in Dir |-> [n \in Segment |-> IF samples[d][n] = Absent THEN Absent ELSE Leftover]]
    /\ made' = {d \in made : \E n \in Segment : samples[d][n] # Absent}
    /\ step' = [p \in Prober |-> [n \in Segment |-> "idle"]]
    /\ answer' = "none" /\ refused' = FALSE
    /\ UNCHANGED <<heard, refusals>>

SamplingInit ==
    /\ made = {}
    /\ samples = [d \in Dir |-> [n \in Segment |-> Absent]]
    /\ step = [p \in Prober |-> [n \in Segment |-> "idle"]]
    /\ heard = [p \in Prober |-> [n \in Segment |-> "nothing"]]
    /\ answer = "none" /\ refused = FALSE /\ refusals = 0 /\ kills = 0

SamplingNext ==
    \/ \E p \in Prober : StartProbe(p) \/ ProbeEnds(p)
    \/ \E p \in Prober, n \in Segment :
          Encode(p, n) \/ SampleEncoded(p, n) \/ Measure(p, n) \/ RemoveSample(p, n)
    \/ RunAgain \/ Kill

SamplingSpec == SamplingInit /\ [][SamplingNext]_samplingVars

-----------------------------------------------------------------------------

SamplingTypeOK ==
    /\ made \subseteq Dir
    /\ samples \in [Dir -> [Segment -> Prober \union {Leftover, Absent}]]
    /\ step \in [Prober -> [Segment ->
          {"idle", "begun", "encoding", "encoded", "measured", "lost", "done", "failed"}]]
    /\ heard \in [Prober -> [Segment -> {"nothing", "whole", "partial"}]]
    /\ answer \in {"none", "measured", "formula"}
    /\ refused \in BOOLEAN /\ refusals \in Nat /\ kills \in 0..MaxKills

\* A rate the worker encodes to was measured on whole samples, or is the formula's,
\* whatever sweeps, failures and crashes there are; and what a crash leaves behind
\* costs the job the measurement of one run, not of every run after it (measure's
\* deferred Remove, sampleProbe's directory, resolveBitrate).
RateIsOfWholeSamples ==
    /\ answer = "measured" => \A n \in Segment : heard[Worker][n] = "whole"
    /\ refusals <= kills
=============================================================================
