--------------------------- MODULE ServiceProofs ---------------------------
(***************************************************************************)
(* The service around the pipeline: the queue's switch, the operations on  *)
(* many files, the sample probes and the progress of an encode.            *)
(*                                                                         *)
(* A pause holds, for any number of callers, settings and restarts. What   *)
(* is inductive is more than that the starts are counted: the row says     *)
(* paused, nothing in flight would write that it is not, and the worker    *)
(* may be past its look at the switch only if it has not yet claimed.      *)
(*                                                                         *)
(* The worker measures its own samples, for any number of windows, sweeps  *)
(* and crashes. Only the worker uses the job's directory; what a crash     *)
(* leaves there is counted once, when a run finds it in its way, and is    *)
(* gone when that run ends.                                                *)
(*                                                                         *)
(* A bulk operation misses no file that stays, for any library and page.   *)
(* Files are told by their rank in the listing: what has been read is the  *)
(* files of the lowest ranks, a file that enters moves others to higher    *)
(* ranks only, and only one that leaves could move an unread file below    *)
(* the page.                                                               *)
(*                                                                         *)
(* Nothing ffmpeg said is lost, for any ring and any number of reports.    *)
(* What it has written and nobody has read yet is a queue of lines:        *)
(* reading all of it from where the parser is leads to what ffmpeg said    *)
(* last, and copying all of it into the ring leads to the last lines it    *)
(* wrote, in their order.                                                  *)
(*                                                                         *)
(* The next scan is at the first minute the expression says, for any       *)
(* expression and calendar: what a search skips of a day or an hour has    *)
(* the date or the hour that made it skip. A loop that keeps up starts a   *)
(* scan at that very tick.                                                 *)
(***************************************************************************)
EXTENDS Settings, Bulk, Sampling, Progress, Scheduler, FiniteSetTheorems, SequenceTheorems,
        WellFoundedInduction, TLAPS

-----------------------------------------------------------------------------
(* The queue's switch. *)

\* A pause in flight writes that the queue is paused.
PausesPause == \A c \in Client : InFlight(c) /\ calls[c].op = "pause" => calls[c].write.paused

\* Nothing is read of a row that is not there.
RowWhenUp == Up => row # NoRow

\* The starts a pause still has to account for: those that were, and the one that
\* the worker is about to make.
Due == stop.starts + (IF consumer = "claim" THEN 1 ELSE 0)

Held ==
    stop.since = "clean" =>
        /\ row # NoRow /\ row.paused /\ ~WillResume
        /\ Due <= 1

SettingsInv == SettingsTypeOK /\ RowWhenUp /\ PausesPause /\ Held

LEMMA SettingsInitial == SettingsInit => SettingsInv
  BY SettingsAssumption
  DEF SettingsInit, SettingsInv, SettingsTypeOK, RowWhenUp, PausesPause, Held, NoStop, Up,
      InFlight, SettingsRow

\* What a caller in flight holds, and what a row is.
LEMMA CallIsCall ==
    ASSUME SettingsTypeOK, NEW c \in Client, InFlight(c)
    PROVE  calls[c] \in Call /\ calls[c].write \in SettingsRow
  BY DEF SettingsTypeOK, InFlight, Call

-----------------------------------------------------------------------------
(* One lemma for every step that changes a row, a call or the stop. *)

\* A read of the row by a request that keeps the switch.
LEMMA UpdateKeeps ==
    ASSUME SettingsInv, NEW c \in Client, NEW schedule \in Schedules, UpdateSettings(c, schedule)
    PROVE  SettingsInv'
  <1>1. row \in SettingsRow
    BY DEF SettingsInv, SettingsTypeOK, RowWhenUp, UpdateSettings
  <1> DEFINE new == [op |-> "update", write |-> [row EXCEPT !.schedule = schedule]]
  <1>2. new \in Call /\ new.write.paused = row.paused /\ new.op = "update"
    BY <1>1 DEF Call, SettingsRow
  <1>3. calls' = [calls EXCEPT ![c] = new] /\ UNCHANGED <<row, consumer, stop>>
    BY DEF UpdateSettings, ApplySettings
  <1> HIDE DEF new
  <1>4. SettingsTypeOK' /\ RowWhenUp'
    BY <1>2, <1>3 DEF SettingsInv, SettingsTypeOK, RowWhenUp, Up
  <1>5. PausesPause'
    BY <1>2, <1>3 DEF SettingsInv, SettingsTypeOK, PausesPause, InFlight
  <1>6. Held'
    BY <1>2, <1>3 DEF SettingsInv, SettingsTypeOK, Held, WillResume, InFlight, Due
  <1> QED
    BY <1>4, <1>5, <1>6 DEF SettingsInv

LEMMA PauseKeeps ==
    ASSUME SettingsInv, NEW c \in Client, Pause(c)
    PROVE  SettingsInv'
  <1>1. row \in SettingsRow
    BY DEF SettingsInv, SettingsTypeOK, RowWhenUp, Pause
  <1>2. CASE row.paused /\ UNCHANGED calls /\ PauseAnswered
    <2>1. UNCHANGED <<row, consumer, calls>>
      BY <1>2 DEF Pause
    <2>2. stop' = [since |-> IF WillResume' THEN "raced" ELSE "clean", starts |-> 0]
      BY <1>2 DEF PauseAnswered
    <2>3. SettingsTypeOK' /\ RowWhenUp' /\ PausesPause'
      BY <2>1, <2>2 DEF SettingsInv, SettingsTypeOK, RowWhenUp, PausesPause, Up, InFlight
    <2>4. Held'
      <3>1. stop'.since = "clean" => ~WillResume'
        BY <2>2
      <3> QED
        BY <1>1, <1>2, <2>1, <2>2, <3>1, SettingsAssumption DEF Held, Due, SettingsRow
    <2> QED
      BY <2>3, <2>4 DEF SettingsInv
  <1>3. CASE ~row.paused /\ UNCHANGED stop
             /\ calls' = [calls EXCEPT ![c] = [op |-> "pause", write |-> [row EXCEPT !.paused = TRUE]]]
    <2> DEFINE new == [op |-> "pause", write |-> [row EXCEPT !.paused = TRUE]]
    <2>1. new \in Call /\ new.write.paused
      BY <1>1 DEF Call, SettingsRow
    <2>2. calls' = [calls EXCEPT ![c] = new] /\ UNCHANGED <<row, consumer, stop>>
      BY <1>3 DEF Pause
    <2> HIDE DEF new
    <2>3. SettingsTypeOK' /\ RowWhenUp' /\ PausesPause'
      BY <2>1, <2>2
      DEF SettingsInv, SettingsTypeOK, RowWhenUp, PausesPause, Up, InFlight
    <2>4. Held'
      BY <1>3, <2>1, <2>2 DEF SettingsInv, Held
    <2> QED
      BY <2>3, <2>4 DEF SettingsInv
  <1> QED
    BY <1>2, <1>3 DEF Pause

LEMMA ResumeKeeps ==
    ASSUME SettingsInv, NEW c \in Client, Resume(c)
    PROVE  SettingsInv'
  <1>1. row \in SettingsRow
    BY DEF SettingsInv, SettingsTypeOK, RowWhenUp, Resume
  <1> DEFINE new == [op |-> "resume", write |-> [row EXCEPT !.paused = FALSE]]
  <1>2. new \in Call /\ new.op = "resume"
    BY <1>1 DEF Call, SettingsRow
  <1>3. calls' = [calls EXCEPT ![c] = new] \/ calls' = calls
    BY DEF Resume
  <1>4. stop' = NoStop /\ UNCHANGED <<row, consumer>>
    BY DEF Resume
  <1> HIDE DEF new
  <1>5. SettingsTypeOK' /\ RowWhenUp'
    BY <1>2, <1>3, <1>4 DEF SettingsInv, SettingsTypeOK, RowWhenUp, Up, NoStop
  <1>6. PausesPause'
    BY <1>2, <1>3 DEF SettingsInv, SettingsTypeOK, PausesPause, InFlight
  <1>7. Held'
    BY <1>4 DEF Held, NoStop
  <1> QED
    BY <1>5, <1>6, <1>7 DEF SettingsInv

LEMMA WriteKeeps ==
    ASSUME SettingsInv, NEW c \in Client, Write(c)
    PROVE  SettingsInv'
  <1>1. calls[c] \in Call /\ calls[c].write \in SettingsRow
    BY CallIsCall DEF Write, SettingsInv
  <1>2. /\ calls' = [calls EXCEPT ![c] = NoCall] /\ row' = calls[c].write
        /\ UNCHANGED consumer
    BY DEF Write
  <1>3. row' \in SettingsRow /\ row' # NoRow
    BY <1>1, <1>2, SettingsAssumption DEF SettingsRow
  <1>4. RowWhenUp' /\ PausesPause'
    BY <1>2, <1>3 DEF SettingsInv, SettingsTypeOK, RowWhenUp, PausesPause, InFlight
  <1>5. CASE calls[c].op = "pause" /\ PauseAnswered
    <2>1. stop' = [since |-> IF WillResume' THEN "raced" ELSE "clean", starts |-> 0]
      BY <1>5 DEF PauseAnswered
    <2>2. row'.paused
      BY <1>2, <1>5 DEF SettingsInv, PausesPause, Write
    <2>3. stop'.since = "clean" => ~WillResume'
      BY <2>1
    <2>4. SettingsTypeOK'
      BY <1>2, <1>3, <2>1 DEF SettingsInv, SettingsTypeOK
    <2>5. Held'
      BY <1>3, <2>1, <2>2, <2>3 DEF Held, Due
    <2> QED
      BY <1>4, <2>4, <2>5 DEF SettingsInv
  <1>6. CASE UNCHANGED stop
    <2>1. SettingsTypeOK'
      BY <1>2, <1>3, <1>6 DEF SettingsInv, SettingsTypeOK
    <2>2. stop.since = "clean" => row'.paused /\ ~WillResume'
      <3> SUFFICES ASSUME stop.since = "clean" PROVE row'.paused /\ ~WillResume'
        OBVIOUS
      <3>1. ~WillResume
        BY DEF SettingsInv, Held
      <3>2. row'.paused
        BY <1>2, <3>1 DEF Write, WillResume
      <3>3. ~WillResume'
        BY <1>2, <3>1 DEF SettingsInv, SettingsTypeOK, WillResume, InFlight
      <3> QED
        BY <3>2, <3>3
    <2>3. Held'
      BY <1>2, <1>3, <1>6, <2>2 DEF SettingsInv, Held, Due
    <2> QED
      BY <1>4, <2>1, <2>3 DEF SettingsInv
  <1> QED
    BY <1>5, <1>6 DEF Write

LEMMA WriteFailsKeeps ==
    ASSUME SettingsInv, NEW c \in Client, WriteFails(c)
    PROVE  SettingsInv'
  BY DEF WriteFails, SettingsInv, SettingsTypeOK, RowWhenUp, PausesPause, Held, Due, WillResume,
         InFlight, Up

LEMMA ProcessKeeps ==
    ASSUME SettingsInv, Start \/ Stop
    PROVE  SettingsInv'
  <1>1. CASE Start
    <2>1. row' \in SettingsRow /\ row' # NoRow
      <3>1. Defaults \in SettingsRow
        BY SettingsAssumption DEF Defaults, SettingsRow
      <3>2. row' \in SettingsRow
        BY <1>1, <3>1 DEF Start, EnsureSettings, SettingsInv, SettingsTypeOK
      <3> QED
        BY <3>2, SettingsAssumption DEF SettingsRow
    <2>2. row # NoRow => row' = row
      BY <1>1 DEF Start, EnsureSettings
    <2> QED
      BY <1>1, <2>1, <2>2
      DEF Start, SettingsInv, SettingsTypeOK, RowWhenUp, PausesPause, Held, Due, WillResume,
          InFlight, Up
  <1>2. CASE Stop
    BY <1>2
    DEF Stop, SettingsInv, SettingsTypeOK, RowWhenUp, PausesPause, Held, Due, WillResume,
        InFlight, Up
  <1> QED
    BY <1>1, <1>2

LEMMA WorkerKeeps ==
    ASSUME SettingsInv, Look \/ Claim \/ Finish
    PROVE  SettingsInv'
  <1>1. UNCHANGED <<row, calls>> /\ consumer # "down" /\ consumer' # "down"
    BY DEF Look, Claim, Finish
  <1>2. RowWhenUp' /\ PausesPause' /\ (WillResume' <=> WillResume)
    BY <1>1 DEF SettingsInv, RowWhenUp, PausesPause, WillResume, InFlight, Up
  <1>3. SettingsTypeOK'
    BY <1>1 DEF SettingsInv, SettingsTypeOK, Look, Claim, Finish
  <1>4. Held'
    <2>1. CASE Look
      BY <2>1 DEF Look, SettingsInv, Held
    <2>2. CASE Claim
      BY <2>2, <1>2 DEF Claim, SettingsInv, SettingsTypeOK, Held, Due
    <2>3. CASE Finish
      BY <2>3, <1>2 DEF Finish, SettingsInv, SettingsTypeOK, Held, Due
    <2> QED
      BY <2>1, <2>2, <2>3
  <1> QED
    BY <1>2, <1>3, <1>4 DEF SettingsInv

-----------------------------------------------------------------------------

LEMMA SettingsStep == SettingsInv /\ [SettingsNext]_settingsVars => SettingsInv'
  <1> SUFFICES ASSUME SettingsInv, [SettingsNext]_settingsVars PROVE SettingsInv'
    OBVIOUS
  <1>1. CASE UNCHANGED settingsVars
    BY <1>1
    DEF settingsVars, SettingsInv, SettingsTypeOK, RowWhenUp, PausesPause, Held, Due,
        WillResume, InFlight, Up
  <1> QED
    BY <1>1, UpdateKeeps, PauseKeeps, ResumeKeeps, WriteKeeps, WriteFailsKeeps, ProcessKeeps,
       WorkerKeeps DEF SettingsNext

\* After a pause that nothing in flight could undo, the queue starts at most the one
\* job whose turn had begun, until somebody resumes it: settings saves, restarts and
\* other pauses by any number of callers do not set it going (worker.go, settings.go).
THEOREM PauseHolds == SettingsSpec => []PauseStopsTheQueue
  <1>1. SettingsInv => PauseStopsTheQueue
    BY DEF SettingsInv, SettingsTypeOK, Held, Due, PauseStopsTheQueue
  <1> QED
    BY <1>1, SettingsInitial, SettingsStep, PTL DEF SettingsSpec

-----------------------------------------------------------------------------
(* The sample probes. *)

Mine(n) == samples["job"][n]
Left == \E n \in Segment : Mine(n) = Leftover

\* The worker's directory is there while it probes.
DirIsThere == ~Idle(Worker) => "job" \in made

\* Whose sample each window of the worker's has.
Windows ==
    \A n \in Segment :
        /\ Mine(n) \in {Worker, Leftover, Absent}
        /\ Mine(n) = Worker => step[Worker][n] \in {"encoding", "encoded", "measured", "lost"}
        /\ step[Worker][n] \in {"encoding", "encoded", "measured"} => Mine(n) = Worker
        /\ step[Worker][n] \in {"done", "failed"} => Mine(n) = Absent
        /\ step[Worker][n] \in {"measured", "done"} => heard[Worker][n] = "whole"

\* A run that is over has left nothing, and measured only whole samples.
Between ==
    /\ answer # "none" => Idle(Worker)
    /\ Idle(Worker) /\ refused => ~Left
    /\ answer = "measured" => \A n \in Segment : heard[Worker][n] = "whole"

\* The refusals that were, and the one that what a crash left may still cause.
Charged == refusals + (IF Left /\ ~refused THEN 1 ELSE 0) <= kills

SamplingInv == SamplingTypeOK /\ DirIsThere /\ Windows /\ Between /\ Charged

LEMMA SamplingInitial == SamplingInit => SamplingInv
  <1> SUFFICES ASSUME SamplingInit PROVE SamplingInv
    OBVIOUS
  <1>1. SamplingTypeOK
    <2>1. samples \in [Dir -> [Segment -> Prober \union {Leftover, Absent}]]
      BY DEF SamplingInit
    <2>2. /\ step \in [Prober -> [Segment ->
                {"idle", "begun", "encoding", "encoded", "measured", "lost", "done", "failed"}]]
          /\ heard \in [Prober -> [Segment -> {"nothing", "whole", "partial"}]]
      BY DEF SamplingInit
    <2>3. kills \in 0 .. MaxKills /\ refusals \in Nat
      BY SamplingAssumption DEF SamplingInit
    <2> QED
      BY <2>1, <2>2, <2>3 DEF SamplingInit, SamplingTypeOK
  <1>2. \A n \in Segment : Mine(n) = Absent /\ step[Worker][n] = "idle"
    BY DEF SamplingInit, Mine, Dir, Prober
  <1>3. DirIsThere /\ Windows /\ Between
    BY <1>2, SamplingAssumption DEF SamplingInit, DirIsThere, Windows, Between, Idle, Left
  <1>4. Charged
    BY <1>2, SamplingAssumption DEF SamplingInit, Charged, Left
  <1> QED
    BY <1>1, <1>3, <1>4 DEF SamplingInv

-----------------------------------------------------------------------------
(* What the others do is nothing to the worker's directory. *)

LEMMA SweepsApart ==
    ASSUME SamplingInv, NEW p \in Sweep,
           \/ StartProbe(p) \/ ProbeEnds(p)
           \/ \E n \in Segment : Encode(p, n) \/ SampleEncoded(p, n) \/ Measure(p, n) \/ RemoveSample(p, n)
    PROVE  /\ samples'["job"] = samples["job"]
           /\ step'[Worker] = step[Worker] /\ heard'[Worker] = heard[Worker]
           /\ "job" \in made => "job" \in made'
           /\ UNCHANGED <<answer, refused, refusals, kills>>
  BY SamplingAssumption
  DEF SamplingInv, SamplingTypeOK, StartProbe, ProbeEnds, Encode, SampleEncoded, Measure,
      RemoveSample, RemoveDir, DirOf, Dir, Prober

States == {"idle", "begun", "encoding", "encoded", "measured", "lost", "done", "failed"}

\* What a step may set.
LEMMA SetStep ==
    ASSUME SamplingTypeOK, NEW p \in Prober, NEW n \in Segment, NEW how \in States
    PROVE  [step EXCEPT ![p][n] = how] \in [Prober -> [Segment -> States]]
  BY DEF SamplingTypeOK, States

LEMMA SetSample ==
    ASSUME SamplingTypeOK, NEW d \in Dir, NEW n \in Segment,
           NEW what \in Prober \union {Leftover, Absent}
    PROVE  [samples EXCEPT ![d][n] = what] \in [Dir -> [Segment -> Prober \union {Leftover, Absent}]]
  BY DEF SamplingTypeOK

LEMMA SamplesTyped ==
    ASSUME SamplingTypeOK, [SamplingNext]_samplingVars
    PROVE  SamplingTypeOK'
  <1>1. \A p \in Prober : DirOf(p) \in Dir
    BY DEF DirOf, Dir
  <1>2. ASSUME NEW p \in Prober, StartProbe(p) PROVE SamplingTypeOK'
    <2>1. /\ step' = [step EXCEPT ![p] = [n \in Segment |-> "begun"]]
          /\ heard' = [heard EXCEPT ![p] = [n \in Segment |-> "nothing"]]
          /\ made' = made \union {DirOf(p)} /\ refused' \in {FALSE, refused}
          /\ UNCHANGED <<samples, answer, refusals, kills>>
      BY <1>2 DEF StartProbe
    <2>2. step' \in [Prober -> [Segment -> States]]
      BY <2>1 DEF SamplingTypeOK, States
    <2>3. heard' \in [Prober -> [Segment -> {"nothing", "whole", "partial"}]]
      BY <2>1 DEF SamplingTypeOK
    <2> QED
      BY <1>1, <2>1, <2>2, <2>3 DEF SamplingTypeOK, States
  <1>3. ASSUME NEW p \in Prober, ProbeEnds(p) PROVE SamplingTypeOK'
    <2>1. /\ step' = [step EXCEPT ![p] = [n \in Segment |-> "idle"]]
          /\ made' \subseteq made /\ answer' \in {answer, "measured", "formula"}
          /\ UNCHANGED <<samples, heard, refused, refusals, kills>>
      BY <1>3 DEF ProbeEnds, RemoveDir
    <2>2. step' \in [Prober -> [Segment -> States]]
      BY <2>1 DEF SamplingTypeOK, States
    <2> QED
      BY <2>1, <2>2 DEF SamplingTypeOK, States
  <1>4. ASSUME NEW p \in Prober, NEW n \in Segment, Encode(p, n) PROVE SamplingTypeOK'
    <2>1. /\ \/ step' = [step EXCEPT ![p][n] = "encoding"]
             \/ step' = [step EXCEPT ![p][n] = "lost"]
          /\ samples' = samples \/ samples' = [samples EXCEPT ![DirOf(p)][n] = p]
          /\ refused' \in {refused, refused \/ p = Worker}
          /\ refusals' \in {refusals, refusals + 1}
          /\ UNCHANGED <<made, heard, answer, kills>>
      BY <1>4 DEF Encode
    <2>2. step' \in [Prober -> [Segment -> States]]
      <3>1. "encoding" \in States /\ "lost" \in States
        BY DEF States
      <3>2. CASE step' = [step EXCEPT ![p][n] = "encoding"]
        BY <3>1, <3>2, SetStep
      <3>3. CASE step' = [step EXCEPT ![p][n] = "lost"]
        BY <3>1, <3>3, SetStep
      <3> QED
        BY <2>1, <3>2, <3>3
    <2>3. samples' \in [Dir -> [Segment -> Prober \union {Leftover, Absent}]]
      <3>1. CASE samples' = samples
        BY <3>1 DEF SamplingTypeOK
      <3>2. CASE samples' = [samples EXCEPT ![DirOf(p)][n] = p]
        BY <1>1, <3>2, SetSample
      <3> QED
        BY <2>1, <3>1, <3>2
    <2>4. refused' \in BOOLEAN
      BY <1>4 DEF Encode, SamplingTypeOK
    <2>5. refusals' \in Nat
      BY <2>1 DEF SamplingTypeOK
    <2> QED
      BY <2>1, <2>2, <2>3, <2>4, <2>5 DEF SamplingTypeOK, States
  <1>5. ASSUME NEW p \in Prober, NEW n \in Segment, SampleEncoded(p, n) PROVE SamplingTypeOK'
    <2>1. step' \in [Prober -> [Segment -> States]]
      BY <1>5, SetStep DEF SampleEncoded, States
    <2> QED
      BY <1>5, <2>1 DEF SamplingTypeOK, SampleEncoded, States
  <1>6. ASSUME NEW p \in Prober, NEW n \in Segment, Measure(p, n) PROVE SamplingTypeOK'
    <2>1. step' \in [Prober -> [Segment -> States]]
      BY <1>6, SetStep DEF Measure, States
    <2>2. heard' \in [Prober -> [Segment -> {"nothing", "whole", "partial"}]]
      <3>1. \/ heard' = heard
            \/ \E what \in {"whole", "partial"} : heard' = [heard EXCEPT ![p][n] = what]
        BY <1>6 DEF Measure
      <3>2. heard \in [Prober -> [Segment -> {"nothing", "whole", "partial"}]]
        BY DEF SamplingTypeOK
      <3>3. CASE heard' = heard
        BY <3>2, <3>3
      <3>4. ASSUME NEW what \in {"whole", "partial"}, heard' = [heard EXCEPT ![p][n] = what]
            PROVE  heard' \in [Prober -> [Segment -> {"nothing", "whole", "partial"}]]
        BY <3>2, <3>4
      <3> QED
        BY <3>1, <3>3, <3>4
    <2> QED
      BY <1>6, <2>1, <2>2 DEF SamplingTypeOK, Measure, States
  <1>7. ASSUME NEW p \in Prober, NEW n \in Segment, RemoveSample(p, n) PROVE SamplingTypeOK'
    <2>1. step' \in [Prober -> [Segment -> States]]
      BY <1>7, SetStep DEF RemoveSample, States
    <2>2. samples' \in [Dir -> [Segment -> Prober \union {Leftover, Absent}]]
      BY <1>1, <1>7, SetSample DEF RemoveSample
    <2> QED
      BY <1>7, <2>1, <2>2 DEF SamplingTypeOK, RemoveSample, States
  <1>8. CASE RunAgain
    BY <1>8 DEF SamplingTypeOK, RunAgain
  <1>9. CASE Kill
    <2>1. /\ kills < MaxKills /\ kills' = kills + 1 /\ made' \subseteq made
          /\ answer' = "none" /\ refused' = FALSE /\ UNCHANGED <<heard, refusals>>
      BY <1>9 DEF Kill
    <2>2. /\ samples' \in [Dir -> [Segment -> Prober \union {Leftover, Absent}]]
          /\ step' \in [Prober -> [Segment -> States]]
      BY <1>9 DEF Kill, States
    <2>3. kills' \in 0 .. MaxKills
      BY <2>1, SamplingAssumption DEF SamplingTypeOK
    <2> QED
      BY <2>1, <2>2, <2>3 DEF SamplingTypeOK, States
  <1>10. CASE UNCHANGED samplingVars
    BY <1>10 DEF SamplingTypeOK, samplingVars
  <1>11. CASE \E p \in Prober : StartProbe(p) \/ ProbeEnds(p)
    BY <1>2, <1>3, <1>11
  <1>12. CASE \E p \in Prober, n \in Segment :
                Encode(p, n) \/ SampleEncoded(p, n) \/ Measure(p, n) \/ RemoveSample(p, n)
    BY <1>4, <1>5, <1>6, <1>7, <1>12
  <1> QED
    BY <1>8, <1>9, <1>10, <1>11, <1>12 DEF SamplingNext

\* The rest of the invariant only looks at the worker's part.
Rest == DirIsThere /\ Windows /\ Between /\ Charged

LEMMA SameWorker ==
    ASSUME SamplingInv,
           samples'["job"] = samples["job"], step'[Worker] = step[Worker],
           heard'[Worker] = heard[Worker], "job" \in made => "job" \in made',
           UNCHANGED <<refused, refusals, kills>>, answer' \in {answer, "none"}
    PROVE  Rest'
  <1>1. (Idle(Worker)' <=> Idle(Worker)) /\ (Left' <=> Left)
    BY DEF Idle, Left, Mine
  <1>2. \A n \in Segment : Mine(n)' = Mine(n)
    BY DEF Mine
  <1>3. DirIsThere'
    BY <1>1 DEF SamplingInv, DirIsThere
  <1>4. Windows'
    BY <1>2 DEF SamplingInv, Windows
  <1>5. Between'
    BY <1>1 DEF SamplingInv, Between
  <1>6. Charged'
    BY <1>1 DEF SamplingInv, Charged
  <1> QED
    BY <1>3, <1>4, <1>5, <1>6 DEF Rest

LEMMA SweepKeeps ==
    ASSUME SamplingInv, NEW p \in Sweep,
           \/ StartProbe(p) \/ ProbeEnds(p)
           \/ \E n \in Segment : Encode(p, n) \/ SampleEncoded(p, n) \/ Measure(p, n) \/ RemoveSample(p, n)
    PROVE  Rest'
  BY SweepsApart, SameWorker

-----------------------------------------------------------------------------
(* The worker's own steps. *)

LEMMA StartKeeps == ASSUME SamplingInv, StartProbe(Worker) PROVE Rest'
  <1>1. /\ Idle(Worker) /\ answer = "none"
        /\ made' = made \union {"job"}
        /\ \A n \in Segment : step'[Worker][n] = "begun"
        /\ refused' = FALSE /\ UNCHANGED <<samples, answer, refusals, kills>>
    BY SamplingAssumption DEF StartProbe, DirOf, SamplingInv, SamplingTypeOK, Prober
  <1>2. DirIsThere' /\ Windows'
    BY <1>1 DEF SamplingInv, DirIsThere, Windows, Mine, Idle
  <1>3. Between'
    BY <1>1 DEF SamplingInv, Between
  <1>4. Charged'
    <2>1. Left' <=> Left
      BY <1>1 DEF Left, Mine
    <2>2. refused => ~Left
      BY <1>1 DEF SamplingInv, Between
    <2> QED
      BY <1>1, <2>1, <2>2 DEF SamplingInv, Charged
  <1> QED
    BY <1>2, <1>3, <1>4 DEF Rest

\* One window of the worker's takes a step.
LEMMA WindowMoves ==
    ASSUME SamplingInv, NEW n \in Segment, step[Worker][n] # "idle",
           Encode(Worker, n) \/ SampleEncoded(Worker, n) \/ Measure(Worker, n) \/ RemoveSample(Worker, n)
    PROVE  /\ "job" \in made' /\ ~Idle(Worker)' /\ answer = "none"
           /\ UNCHANGED <<answer, kills>>
           /\ \A m \in Segment \ {n} :
                 /\ step'[Worker][m] = step[Worker][m] /\ heard'[Worker][m] = heard[Worker][m]
                 /\ Mine(m)' = Mine(m)
  <1>1. ~Idle(Worker)
    BY DEF Idle
  <1>2. "job" \in made /\ answer = "none"
    BY <1>1 DEF SamplingInv, DirIsThere, Between
  <1>3. step'[Worker][n] # "idle"
    BY DEF SamplingInv, SamplingTypeOK, Encode, SampleEncoded, Measure, RemoveSample, Prober
  <1> QED
    BY <1>2, <1>3
    DEF SamplingInv, SamplingTypeOK, Encode, SampleEncoded, Measure, RemoveSample, Prober, Idle,
        Mine, DirOf, Dir

LEMMA EncodeKeeps ==
    ASSUME SamplingInv, NEW n \in Segment, Encode(Worker, n)
    PROVE  Rest'
  <1>1. step[Worker][n] = "begun" /\ DirOf(Worker) = "job"
    BY DEF Encode, DirOf
  <1>2. /\ "job" \in made' /\ ~Idle(Worker)' /\ answer = "none" /\ "job" \in made
        /\ UNCHANGED <<answer, kills, heard>>
        /\ \A m \in Segment \ {n} :
              step'[Worker][m] = step[Worker][m] /\ Mine(m)' = Mine(m)
    BY <1>1, WindowMoves DEF Encode
  <1>3. Mine(n) \in {Leftover, Absent}
    BY <1>1 DEF SamplingInv, Windows
  <1>4. CASE Mine(n) = Absent
    <2>1. /\ samples' = [samples EXCEPT !["job"][n] = Worker]
          /\ step' = [step EXCEPT ![Worker][n] = "encoding"]
          /\ UNCHANGED <<refused, refusals>>
      BY <1>1, <1>2, <1>4 DEF Encode, Mine, SampleAt
    <2>2. Mine(n)' = Worker /\ step'[Worker][n] = "encoding"
      BY <2>1 DEF SamplingInv, SamplingTypeOK, Mine, Dir, Prober
    <2>3. Windows'
      BY <1>2, <2>2 DEF SamplingInv, Windows
    <2>4. Left' <=> Left
      BY <1>2, <1>4, <2>2, SamplingAssumption DEF Left
    <2>5. Charged'
      BY <1>2, <2>1, <2>4 DEF SamplingInv, Charged
    <2> QED
      BY <1>2, <2>3, <2>5 DEF Rest, DirIsThere, Between
  <1>5. CASE Mine(n) = Leftover
    <2>1. Leftover # Absent
      BY SamplingAssumption
    <2>2. /\ UNCHANGED samples /\ refused' = TRUE
          /\ step' = [step EXCEPT ![Worker][n] = "lost"]
          /\ refusals' = IF ~refused THEN refusals + 1 ELSE refusals
      BY <1>1, <1>5, <2>1 DEF Encode, Mine, SampleAt
    <2>3. Mine(n)' = Leftover /\ step'[Worker][n] = "lost"
      BY <1>5, <2>2 DEF SamplingInv, SamplingTypeOK, Mine, Prober
    <2>4. Windows'
      BY <1>2, <2>3, SamplingAssumption DEF SamplingInv, Windows
    <2>5. Left
      BY <1>5 DEF Left
    <2>6. Charged'
      BY <1>2, <2>2, <2>5 DEF SamplingInv, SamplingTypeOK, Charged
    <2> QED
      BY <1>2, <2>4, <2>6 DEF Rest, DirIsThere, Between
  <1> QED
    BY <1>3, <1>4, <1>5

LEMMA MeasureKeeps ==
    ASSUME SamplingInv, NEW n \in Segment, SampleEncoded(Worker, n) \/ Measure(Worker, n)
    PROVE  Rest'
  <1>1. step[Worker][n] \in {"encoding", "encoded"} /\ Mine(n) = Worker
    BY DEF SampleEncoded, Measure, SamplingInv, Windows
  <1>2. /\ "job" \in made' /\ ~Idle(Worker)' /\ answer = "none"
        /\ UNCHANGED <<answer, kills, samples, refused, refusals>>
        /\ \A m \in Segment \ {n} :
              step'[Worker][m] = step[Worker][m] /\ heard'[Worker][m] = heard[Worker][m]
    BY <1>1, WindowMoves DEF SampleEncoded, Measure
  <1>3. \A m \in Segment : Mine(m)' = Mine(m)
    BY <1>2 DEF Mine
  <1>4. \/ step'[Worker][n] \in {"encoded", "lost"}
        \/ step'[Worker][n] = "measured" /\ heard'[Worker][n] = "whole"
    <2>1. CASE SampleEncoded(Worker, n)
      BY <2>1 DEF SampleEncoded, SamplingInv, SamplingTypeOK, Prober
    <2>2. CASE Measure(Worker, n)
      <3>1. SampleAt(Worker, n) = Worker /\ Worker # Absent /\ step[Worker][n] = "encoded"
        BY <1>1, <2>2, SamplingAssumption DEF Measure, SampleAt, DirOf, Mine
      <3>2. Worker \in {q \in Prober : step[q][n] \in {"encoded", "measured"}}
        BY <3>1 DEF Prober
      <3>3. /\ step' = [step EXCEPT ![Worker][n] = "measured"]
            /\ heard' = [heard EXCEPT ![Worker][n] = "whole"]
        BY <2>2, <3>1, <3>2 DEF Measure
      <3> QED
        BY <3>3 DEF SamplingInv, SamplingTypeOK, Prober
    <2> QED
      BY <2>1, <2>2
  <1>5. Windows'
    BY <1>1, <1>2, <1>3, <1>4 DEF SamplingInv, Windows
  <1>6. Charged'
    BY <1>2, <1>3 DEF SamplingInv, Charged, Left
  <1> QED
    BY <1>2, <1>5, <1>6 DEF Rest, DirIsThere, Between

LEMMA RemoveKeeps ==
    ASSUME SamplingInv, NEW n \in Segment, RemoveSample(Worker, n)
    PROVE  Rest'
  <1>1. step[Worker][n] \in {"measured", "lost"}
    BY DEF RemoveSample
  <1>2. /\ "job" \in made' /\ ~Idle(Worker)' /\ answer = "none"
        /\ UNCHANGED <<answer, kills, heard, refused, refusals>>
        /\ \A m \in Segment \ {n} :
              step'[Worker][m] = step[Worker][m] /\ Mine(m)' = Mine(m)
    BY <1>1, WindowMoves DEF RemoveSample
  <1>3. /\ Mine(n)' = Absent
        /\ step'[Worker][n] = IF step[Worker][n] = "measured" THEN "done" ELSE "failed"
    BY DEF RemoveSample, DirOf, Dir, Mine, SamplingInv, SamplingTypeOK, Prober
  <1>4. Windows'
    BY <1>1, <1>2, <1>3, SamplingAssumption DEF SamplingInv, Windows
  <1>5. Left' => Left
    BY <1>2, <1>3, SamplingAssumption DEF Left
  <1>6. Charged'
    BY <1>2, <1>5 DEF SamplingInv, SamplingTypeOK, Charged
  <1> QED
    BY <1>2, <1>4, <1>6 DEF Rest, DirIsThere, Between

LEMMA EndKeeps ==
    ASSUME SamplingInv, ProbeEnds(Worker)
    PROVE  Rest'
  <1>1. /\ \A n \in Segment : step[Worker][n] \in {"done", "failed"}
        /\ \A n \in Segment : step'[Worker][n] = "idle"
        /\ answer' = IF \A n \in Segment : step[Worker][n] = "done" THEN "measured" ELSE "formula"
        /\ UNCHANGED <<samples, heard, refused, refusals, kills>>
    BY DEF ProbeEnds, Through, SamplingInv, SamplingTypeOK, Prober
  <1>2. \A n \in Segment : Mine(n) = Absent /\ Mine(n)' = Absent
    BY <1>1 DEF SamplingInv, Windows, Mine
  <1>3. ~Left /\ ~Left' /\ Idle(Worker)'
    BY <1>1, <1>2, SamplingAssumption DEF Left, Idle
  <1>4. Windows'
    BY <1>1, <1>2, SamplingAssumption DEF Windows
  <1>5. answer' = "measured" => \A n \in Segment : heard'[Worker][n] = "whole"
    BY <1>1 DEF SamplingInv, Windows
  <1>6. Charged'
    BY <1>1, <1>3 DEF SamplingInv, Charged
  <1> QED
    BY <1>3, <1>4, <1>5, <1>6 DEF Rest, DirIsThere, Between

LEMMA KillKeeps ==
    ASSUME SamplingInv, Kill
    PROVE  Rest'
  <1>1. /\ \A n \in Segment : Mine(n)' \in {Absent, Leftover} /\ step'[Worker][n] = "idle"
        /\ answer' = "none" /\ refused' = FALSE /\ kills' = kills + 1 /\ refusals' = refusals
    BY DEF Kill, Mine, Dir, Prober
  <1>2. DirIsThere' /\ Windows' /\ Between'
    BY <1>1, SamplingAssumption DEF DirIsThere, Windows, Between, Idle
  <1>3. Charged'
    BY <1>1 DEF SamplingInv, SamplingTypeOK, Charged
  <1> QED
    BY <1>2, <1>3 DEF Rest

-----------------------------------------------------------------------------

LEMMA SamplingStep == SamplingInv /\ [SamplingNext]_samplingVars => SamplingInv'
  <1> SUFFICES ASSUME SamplingInv, [SamplingNext]_samplingVars PROVE SamplingInv'
    OBVIOUS
  <1>1. SamplingTypeOK'
    BY SamplesTyped DEF SamplingInv
  <1>2. ASSUME NEW p \in Prober,
               \/ StartProbe(p) \/ ProbeEnds(p)
               \/ \E n \in Segment : Encode(p, n) \/ SampleEncoded(p, n) \/ Measure(p, n) \/ RemoveSample(p, n)
        PROVE  Rest'
    <2>1. CASE p \in Sweep
      BY <1>2, <2>1, SweepKeeps
    <2>2. CASE p = Worker
      BY <1>2, <2>2, StartKeeps, EndKeeps, EncodeKeeps, MeasureKeeps, RemoveKeeps
    <2> QED
      BY <2>1, <2>2 DEF Prober
  <1>3. ASSUME RunAgain PROVE Rest'
    BY <1>3, SameWorker DEF RunAgain
  <1>4. ASSUME UNCHANGED samplingVars PROVE Rest'
    BY <1>4, SameWorker DEF samplingVars
  <1>5. ASSUME \E p \in Prober : StartProbe(p) \/ ProbeEnds(p) PROVE Rest'
    BY <1>2, <1>5
  <1>6. ASSUME \E p \in Prober, n \in Segment :
                  Encode(p, n) \/ SampleEncoded(p, n) \/ Measure(p, n) \/ RemoveSample(p, n)
        PROVE  Rest'
    BY <1>2, <1>6
  <1>7. Rest'
    BY <1>3, <1>4, <1>5, <1>6, KillKeeps DEF SamplingNext
  <1> QED
    BY <1>1, <1>7 DEF SamplingInv, Rest

\* The rate the worker encodes to is measured on whole samples of its own run or is
\* the formula's, and every crash costs at most one run its measurement, for any
\* number of windows, sweeps and crashes (sample.go measure, execute.go sampleProbe).
THEOREM MeasuresItself == SamplingSpec => []RateIsOfWholeSamples
  <1>1. SamplingInv => RateIsOfWholeSamples
    BY DEF SamplingInv, SamplingTypeOK, Between, Charged, RateIsOfWholeSamples
  <1> QED
    BY <1>1, SamplingInitial, SamplingStep, PTL DEF SamplingSpec

-----------------------------------------------------------------------------
(* The operations on many files.  A page is the files of the next ranks; what *)
(* keeps a file from being skipped is that while no file leaves, its rank only *)
(* grows, and what keeps the listing from ending early that a page is empty    *)
(* only past the last rank.                                                    *)

LEMMA LeastOf ==
    ASSUME NEW S \in SUBSET Nat, S # {}
    PROVE  \E m \in S : \A n \in S : m <= n
  <1> DEFINE R == {ss \in Nat \X Nat : ss[1] < ss[2]}
  <1>1. IsWellFoundedOn(R, Nat)
    BY NatLessThanWellFounded DEF OpToRel
  <1>2. \A n \in Nat, m \in Nat : <<n, m>> \in R <=> n < m
    OBVIOUS
  <1> HIDE DEF R
  <1>3. \E m \in S : \A n \in S : <<n, m>> \notin R
    BY <1>1, WFMin
  <1>4. PICK m \in S : \A n \in S : <<n, m>> \notin R
    BY <1>3
  <1>5. ASSUME NEW n \in S PROVE m <= n
    <2>1. n \in Nat /\ m \in Nat
      OBVIOUS
    <2>2. ~(n < m)
      BY <1>2, <1>4, <2>1
    <2> QED
      BY <2>1, <2>2
  <1> QED
    BY <1>5

LEMMA GreatestBelow ==
    ASSUME NEW S \in SUBSET Nat, NEW g \in Nat, \E x \in S : x < g
    PROVE  \E h \in S : h < g /\ \A x \in S : x < g => x <= h
  <1> DEFINE gaps == {g - x : x \in {y \in S : y < g}}
  <1>1. gaps \in SUBSET Nat /\ gaps # {}
    <2>1. ASSUME NEW d \in gaps PROVE d \in Nat
      <3>1. PICK x \in S : x < g /\ d = g - x
        BY <2>1
      <3>2. x \in Nat
        OBVIOUS
      <3> QED
        BY <3>1, <3>2
    <2>2. PICK x \in S : x < g
      OBVIOUS
    <2>3. g - x \in gaps
      BY <2>2
    <2> QED
      BY <2>1, <2>3
  <1>2. PICK d \in gaps : \A e \in gaps : d <= e
    BY <1>1, LeastOf
  <1>3. PICK h \in S : h < g /\ d = g - h
    OBVIOUS
  <1>4. \A x \in S : x < g => d <= g - x
    BY <1>2
  <1> HIDE DEF gaps
  <1> QED
    BY <1>3, <1>4

RankIn(S, f) == Cardinality({g \in S : g <= f})

LEMMA RankBounds ==
    ASSUME NEW S \in SUBSET Nat, IsFiniteSet(S), NEW f \in S
    PROVE  RankIn(S, f) \in 1 .. Cardinality(S) /\ Cardinality(S) \in Nat
  <1> DEFINE upTo == {g \in S : g <= f}
  <1>1. upTo \subseteq S /\ upTo # {}
    OBVIOUS
  <1>2. IsFiniteSet(upTo) /\ Cardinality(upTo) <= Cardinality(S)
    BY <1>1, FS_Subset
  <1>3. Cardinality(upTo) \in Nat /\ Cardinality(S) \in Nat /\ Cardinality(upTo) # 0
    BY <1>1, <1>2, FS_CardinalityType, FS_EmptySet
  <1> QED
    BY <1>2, <1>3 DEF RankIn

\* A file that enters moves none to a lower rank.
LEMMA RankGrows ==
    ASSUME NEW S \in SUBSET Nat, IsFiniteSet(S), NEW T \in SUBSET S, NEW f \in T
    PROVE  RankIn(T, f) <= RankIn(S, f)
  <1>1. IsFiniteSet({g \in S : g <= f})
    BY FS_Subset
  <1>2. {g \in T : g <= f} \subseteq {g \in S : g <= f}
    OBVIOUS
  <1> QED
    BY <1>1, <1>2, FS_Subset DEF RankIn

LEMMA RankDiffers ==
    ASSUME NEW S \in SUBSET Nat, IsFiniteSet(S), NEW f \in S, NEW g \in S, f < g
    PROVE  RankIn(S, f) # RankIn(S, g)
  <1> DEFINE A == {x \in S : x <= f}
             B == {x \in S : x <= g}
  <1>0. f \in Nat /\ g \in Nat /\ \A x \in S : x \in Nat
    OBVIOUS
  <1>1. A \subseteq B /\ g \in B /\ g \notin A
    <2>1. \A x \in S : x <= f => x <= g
      BY <1>0
    <2>2. g <= g /\ ~(g <= f)
      BY <1>0
    <2> QED
      BY <2>1, <2>2
  <1>2. IsFiniteSet(B)
    BY FS_Subset
  <1>3. Cardinality(B) = Cardinality(A) => A = B
    BY <1>1, <1>2, FS_Subset
  <1> QED
    BY <1>1, <1>3 DEF RankIn

\* There is a next rank as long as there is a higher one.
LEMMA NextRank ==
    ASSUME NEW S \in SUBSET Nat, IsFiniteSet(S), NEW r \in Nat,
           \E f \in S : RankIn(S, f) > r
    PROVE  \E g \in S : RankIn(S, g) = r + 1
  <1> DEFINE high == {f \in S : RankIn(S, f) > r}
  <1>1. PICK g \in high : \A f \in high : g <= f
    BY LeastOf
  <1> DEFINE below == {x \in S : x < g}
  <1>2. g \in S /\ g \in Nat /\ RankIn(S, g) > r /\ RankIn(S, g) \in Nat
    BY <1>1, RankBounds
  <1>3. {x \in S : x <= g} = below \union {g}
    <2>1. \A x \in S : x <= g <=> x < g \/ x = g
      BY <1>2
    <2> QED
      BY <1>2, <2>1
  <1>4. IsFiniteSet(below) /\ g \notin below
    BY FS_Subset
  <1>5. RankIn(S, g) = Cardinality(below) + 1 /\ Cardinality(below) \in Nat
    BY <1>3, <1>4, FS_AddElement, FS_CardinalityType DEF RankIn
  <1>6. CASE below = {}
    BY <1>2, <1>5, <1>6, FS_EmptySet
  <1>7. CASE below # {}
    <2>1. PICK h \in S : h < g /\ \A x \in S : x < g => x <= h
      BY <1>2, <1>7, GreatestBelow
    <2>2. {x \in S : x <= h} = below
      <3>1. h \in Nat
        BY <2>1
      <3>2. \A x \in S : x <= h <=> x < g
        BY <1>2, <2>1, <3>1
      <3> QED
        BY <3>2
    <2>3. RankIn(S, h) = Cardinality(below)
      BY <2>2 DEF RankIn
    <2>4. ~(RankIn(S, h) > r)
      BY <1>1, <1>2, <2>1
    <2> QED
      BY <1>2, <1>5, <2>3, <2>4
  <1> QED
    BY <1>6, <1>7

\* A page has no more files than ranks.
LEMMA PageFits ==
    ASSUME NEW S \in SUBSET Nat, IsFiniteSet(S), NEW r \in Nat, NEW n \in Nat,
           NEW page, page = {f \in S : RankIn(S, f) \in (r + 1) .. (r + n)}
    PROVE  Cardinality(page) \in 0 .. n
  <1> DEFINE rank == [f \in page |-> RankIn(S, f)]
  <1>1. rank \in [page -> (r + 1) .. (r + n)]
    OBVIOUS
  <1>2. \A f \in page, g \in page : rank[f] = rank[g] => f = g
    <2> SUFFICES ASSUME NEW f \in page, NEW g \in page, f # g PROVE rank[f] # rank[g]
      OBVIOUS
    <2>1. f \in S /\ g \in S /\ (f < g \/ g < f)
      OBVIOUS
    <2> QED
      BY <2>1, RankDiffers
  <1>3. rank \in Injection(page, (r + 1) .. (r + n))
    BY <1>1, <1>2 DEF Injection, IsInjective
  <1>4. /\ IsFiniteSet((r + 1) .. (r + n))
        /\ Cardinality((r + 1) .. (r + n)) = n
    BY FS_Interval
  <1>5. IsFiniteSet(page) /\ Cardinality(page) <= n
    BY <1>3, <1>4, FS_Injection
  <1> QED
    BY <1>5, FS_CardinalityType

IsBulk(b) ==
    b = [pc |-> b.pc, op |-> b.op, confirm |-> b.confirm, total |-> b.total, read |-> b.read,
         todo |-> b.todo, at |-> b.at, examined |-> b.examined, inserted |-> b.inserted,
         steady |-> b.steady, left |-> b.left, slipped |-> b.slipped]
BulkShaped ==
    /\ listed \subseteq Media
    /\ bulk = NoBulk \/ (IsBulk(bulk) /\ bulk.total \in Nat /\ bulk.read \in Nat)

\* While it is listed, what has been read is the files of the lowest ranks.
ReadIsLowest ==
    Listing /\ ~bulk.left =>
        /\ bulk.steady \subseteq listed
        /\ \A f \in bulk.steady : Rank(f) <= bulk.read => f \in bulk.todo

\* The count is still no less than the files there are when its page is read.
CountStands ==
    bulk.pc = "page" /\ ~bulk.left /\ ~bulk.slipped => Cardinality(listed) <= bulk.total

\* Then every file that stayed has been examined, or is to be.
NothingSkipped ==
    bulk.pc \in {"examine", "consider"} /\ ~bulk.left /\ ~bulk.slipped =>
        bulk.steady \subseteq bulk.todo \union bulk.examined

BulkInv == BulkShaped /\ ReadIsLowest /\ CountStands /\ NothingSkipped /\ EveryFileExamined

LEMMA BulkInitial == BulkInit => BulkInv
  BY DEF BulkInit, BulkInv, BulkShaped, ReadIsLowest, CountStands, NothingSkipped,
     EveryFileExamined, NoBulk, Listing

LEMMA ListedFinite ==
    ASSUME listed \subseteq Media
    PROVE  /\ listed \in SUBSET Nat /\ IsFiniteSet(listed) /\ Cardinality(listed) \in Nat
           /\ \A f : Rank(f) = RankIn(listed, f)
           /\ \A f \in listed : Rank(f) \in 1 .. Cardinality(listed)
  <1>1. listed \in SUBSET Nat
    BY BulkAssumption
  <1>2. IsFiniteSet(listed)
    BY BulkAssumption, FS_Subset
  <1>3. \A f : Rank(f) = RankIn(listed, f)
    BY DEF Rank, RankIn
  <1>4. \A f \in listed : RankIn(listed, f) \in 1 .. Cardinality(listed)
    BY <1>1, <1>2, RankBounds
  <1> QED
    BY <1>1, <1>2, <1>3, <1>4, FS_CardinalityType

LEMMA SelectKeeps == ASSUME BulkInv, SelectByFilter \/ SelectByIds PROVE BulkInv'
  <1>1. UNCHANGED listed /\ listed \subseteq Media
    BY DEF SelectByFilter, SelectByIds, KeepLibrary, BulkInv, BulkShaped
  <1>2. CASE SelectByFilter
    <2>1. PICK op \in {"recheck", "sweep"}, confirm \in BOOLEAN : bulk' = Begin(op, confirm)
      BY <1>2 DEF SelectByFilter
    <2>2. /\ IsBulk(bulk)' /\ bulk'.pc = "count" /\ bulk'.total = 0 /\ bulk'.read = 0
          /\ bulk'.steady = listed
      BY <2>1 DEF Begin, IsBulk
    <2>3. \A f \in listed : ~(Rank(f) <= 0)
      BY <1>1, ListedFinite
    <2>4. \A f : Rank(f)' = Rank(f)
      BY <1>1 DEF Rank
    <2> QED
      BY <1>1, <2>2, <2>3, <2>4 DEF BulkInv, BulkShaped, ReadIsLowest, CountStands,
         NothingSkipped, EveryFileExamined
  <1>3. CASE SelectByIds
    <2>1. PICK op \in {"recheck", "sweep"}, confirm \in BOOLEAN, ids \in Selections :
             bulk' = [Begin(op, confirm) EXCEPT !.pc = "examine", !.todo = ids, !.steady = ids]
      BY <1>3 DEF SelectByIds
    <2>2. /\ IsBulk(bulk)' /\ bulk'.pc = "examine" /\ bulk'.total = 0 /\ bulk'.read = 0
          /\ bulk'.steady = ids /\ bulk'.todo = ids
      BY <2>1 DEF Begin, IsBulk
    <2> QED
      BY <1>1, <2>2 DEF BulkInv, BulkShaped, ReadIsLowest, CountStands, NothingSkipped,
         EveryFileExamined, Listing
  <1> QED
    BY <1>2, <1>3

\* An operation under way has all its fields.
LEMMA BulkUnderWay ==
    ASSUME BulkInv, bulk.pc # "none"
    PROVE  IsBulk(bulk) /\ bulk.total \in Nat /\ bulk.read \in Nat
  BY DEF BulkInv, BulkShaped, NoBulk

LEMMA CountKeeps == ASSUME BulkInv, CountFiles PROVE BulkInv'
  <1>1. /\ bulk.pc = "count" /\ UNCHANGED listed /\ listed \subseteq Media
        /\ bulk' = [bulk EXCEPT !.pc = "page", !.total = Cardinality(listed)]
    BY DEF CountFiles, KeepLibrary, BulkInv, BulkShaped
  <1>2. IsBulk(bulk) /\ bulk.read \in Nat
    BY <1>1, BulkUnderWay
  <1> DEFINE n == Cardinality(listed)
  <1>3. n \in Nat
    BY <1>1, ListedFinite
  <1>4. n' = n
    BY <1>1
  <1> HIDE DEF n
  <1>5. bulk' = [bulk EXCEPT !.pc = "page", !.total = n]
    BY <1>1 DEF n
  <1>6. /\ IsBulk(bulk)' /\ bulk'.pc = "page" /\ bulk'.total = n /\ bulk'.read = bulk.read
        /\ bulk'.steady = bulk.steady /\ bulk'.todo = bulk.todo /\ bulk'.left = bulk.left
    BY <1>2, <1>5 DEF IsBulk
  <1>7. \A f : Rank(f)' = Rank(f)
    BY <1>1 DEF Rank
  <1>8. ReadIsLowest'
    BY <1>1, <1>6, <1>7 DEF BulkInv, ReadIsLowest, Listing
  <1>9. CountStands'
    BY <1>3, <1>4, <1>6 DEF CountStands, n
  <1> QED
    BY <1>1, <1>2, <1>3, <1>6, <1>8, <1>9 DEF BulkInv, BulkShaped, NothingSkipped,
       EveryFileExamined

\* The next page, and whether it was the last.
LEMMA PageKeeps == ASSUME BulkInv, SelectPage PROVE BulkInv'
  <1> DEFINE page == PageFrom(bulk.read)
             read == bulk.read + Cardinality(page)
             last == page = {} \/ read >= bulk.total
  <1>1. /\ bulk.pc = "page" /\ UNCHANGED listed /\ listed \subseteq Media
        /\ bulk' = [bulk EXCEPT !.pc = IF last THEN "examine" ELSE "count", !.read = read,
                                !.todo = bulk.todo \union page]
    BY DEF SelectPage, KeepLibrary, BulkInv, BulkShaped
  <1>2. IsBulk(bulk) /\ bulk.read \in Nat /\ bulk.total \in Nat
    BY <1>1, BulkUnderWay
  <1>3. /\ listed \in SUBSET Nat /\ IsFiniteSet(listed) /\ Cardinality(listed) \in Nat
        /\ \A f : Rank(f) = RankIn(listed, f)
        /\ \A f \in listed : Rank(f) \in 1 .. Cardinality(listed)
    BY <1>1, ListedFinite
  <1>4. PageSize \in Nat
    BY BulkAssumption
  <1>5. page = {f \in listed : RankIn(listed, f) \in (bulk.read + 1) .. (bulk.read + PageSize)}
    BY <1>3 DEF PageFrom
  <1>6. Cardinality(page) \in 0 .. PageSize
    BY <1>2, <1>3, <1>4, <1>5, PageFits
  <1>7. read \in Nat /\ bulk.read <= read /\ read <= bulk.read + PageSize
    BY <1>2, <1>4, <1>6
  <1>8. \A f \in listed : Rank(f) <= read => Rank(f) <= bulk.read \/ f \in page
    BY <1>2, <1>3, <1>4, <1>5, <1>7
  <1>9. page = {} => \A f \in listed : Rank(f) <= bulk.read
    <2> SUFFICES ASSUME page = {}, NEW f \in listed, ~(Rank(f) <= bulk.read) PROVE FALSE
      OBVIOUS
    <2>1. RankIn(listed, f) > bulk.read
      BY <1>2, <1>3
    <2>2. PICK g \in listed : RankIn(listed, g) = bulk.read + 1
      BY <1>2, <1>3, <2>1, NextRank
    <2>3. g \in page
      BY <1>2, <1>5, <2>2, BulkAssumption
    <2> QED
      BY <2>3
  <1> HIDE DEF page, read
  <1>10. /\ IsBulk(bulk)' /\ bulk'.pc = (IF last THEN "examine" ELSE "count")
         /\ bulk'.total = bulk.total /\ bulk'.read = read /\ bulk'.steady = bulk.steady
         /\ bulk'.todo = bulk.todo \union page /\ bulk'.left = bulk.left
         /\ bulk'.slipped = bulk.slipped /\ bulk'.examined = bulk.examined
    BY <1>1, <1>2 DEF IsBulk
  <1>11. \A f : Rank(f)' = Rank(f)
    BY <1>1 DEF Rank
  <1>12. ~bulk.left => /\ bulk.steady \subseteq listed
                       /\ \A f \in bulk.steady : Rank(f) <= bulk.read => f \in bulk.todo
    BY <1>1 DEF BulkInv, ReadIsLowest, Listing
  <1>13. ReadIsLowest'
    BY <1>1, <1>8, <1>10, <1>11, <1>12 DEF ReadIsLowest
  <1>14. NothingSkipped'
    <2> SUFFICES ASSUME bulk'.pc = "examine", ~bulk.left, ~bulk.slipped
                 PROVE  bulk.steady \subseteq bulk.todo \union page
      BY <1>10 DEF NothingSkipped
    <2>1. last
      BY <1>10
    <2>2. Cardinality(listed) <= bulk.total
      BY <1>1 DEF BulkInv, CountStands
    <2>3. ASSUME NEW f \in bulk.steady PROVE f \in bulk.todo \union page
      <3>1. f \in listed
        BY <1>12
      <3>2. CASE page = {}
        BY <1>9, <1>12, <3>1, <3>2
      <3>3. CASE read >= bulk.total
        <4>1. Rank(f) <= read
          BY <1>2, <1>3, <1>7, <2>2, <3>1, <3>3
        <4> QED
          BY <1>8, <1>12, <3>1, <4>1
      <3> QED
        BY <2>1, <3>2, <3>3
    <2> QED
      BY <2>3
  <1> QED
    BY <1>1, <1>2, <1>7, <1>10, <1>13, <1>14 DEF BulkInv, BulkShaped, CountStands,
       EveryFileExamined

\* One file is looked at; it is examined before it leaves what is to be done.
LEMMA ExamineKeeps ==
    ASSUME BulkInv, NEW f \in Media, Reanalyse(f) \/ Evaluate(f) \/ ConsiderRecheck(f)
    PROVE  BulkInv'
  <1>1. UNCHANGED listed /\ bulk.pc \in {"examine", "consider"}
    BY DEF Reanalyse, Evaluate, ConsiderRecheck
  <1>2. IsBulk(bulk) /\ bulk.read \in Nat /\ bulk.total \in Nat
    BY <1>1, BulkUnderWay
  <1>3. \E pc \in {"examine", "consider"} :
           LET next == IF bulk.pc = "consider" THEN [bulk EXCEPT !.pc = pc] ELSE Done(f, pc)
           IN  bulk' = next \/ bulk' = [next EXCEPT !.inserted = @ \union {f}]
    <2>1. CASE ConsiderRecheck(f)
      BY <2>1 DEF ConsiderRecheck, Insert
    <2>2. CASE Reanalyse(f)
      BY <2>2 DEF Reanalyse, Insert
    <2>3. CASE Evaluate(f)
      BY <2>3 DEF Evaluate, Insert
    <2> QED
      BY <2>1, <2>2, <2>3
  <1>4. /\ IsBulk(bulk)' /\ bulk'.pc \in {"examine", "consider"}
        /\ bulk'.total = bulk.total /\ bulk'.read = bulk.read /\ bulk'.steady = bulk.steady
        /\ bulk'.left = bulk.left /\ bulk'.slipped = bulk.slipped
        /\ bulk.todo \union bulk.examined \subseteq bulk'.todo \union bulk'.examined
    <2>1. PICK pc \in {"examine", "consider"} :
           LET next == IF bulk.pc = "consider" THEN [bulk EXCEPT !.pc = pc] ELSE Done(f, pc)
           IN  bulk' = next \/ bulk' = [next EXCEPT !.inserted = @ \union {f}]
      BY <1>3
    <2>2. CASE bulk.pc = "consider"
      BY <1>2, <2>1, <2>2 DEF IsBulk
    <2>3. CASE bulk.pc # "consider"
      <3> DEFINE todo == bulk.todo \ {f}
                 examined == bulk.examined \union {f}
      <3>1. bulk.todo \union bulk.examined \subseteq todo \union examined
        OBVIOUS
      <3>2. Done(f, pc) = [bulk EXCEPT !.pc = pc, !.at = f, !.todo = todo, !.examined = examined]
        BY DEF Done
      <3> HIDE DEF todo, examined
      <3>3. Done(f, pc) = [pc |-> pc, op |-> bulk.op, confirm |-> bulk.confirm,
                           total |-> bulk.total, read |-> bulk.read, todo |-> todo, at |-> f,
                           examined |-> examined, inserted |-> bulk.inserted,
                           steady |-> bulk.steady, left |-> bulk.left,
                           slipped |-> bulk.slipped]
        BY <1>2, <3>2 DEF IsBulk
      <3>4. /\ IsBulk(bulk)' /\ bulk'.pc = pc /\ bulk'.total = bulk.total
            /\ bulk'.read = bulk.read /\ bulk'.steady = bulk.steady
            /\ bulk'.left = bulk.left /\ bulk'.slipped = bulk.slipped
            /\ bulk'.todo = todo /\ bulk'.examined = examined
        BY <2>1, <2>3, <3>3 DEF IsBulk
      <3> QED
        BY <3>1, <3>4
    <2> QED
      BY <2>2, <2>3
  <1> QED
    BY <1>1, <1>2, <1>4 DEF BulkInv, BulkShaped, ReadIsLowest, Listing, CountStands,
       NothingSkipped, EveryFileExamined

LEMMA EndKeepsExamined == ASSUME BulkInv, EndBulk PROVE BulkInv'
  <1>1. /\ UNCHANGED listed /\ bulk.pc = "examine" /\ bulk.todo = {}
        /\ bulk' = [bulk EXCEPT !.pc = "done"]
    BY DEF EndBulk, KeepLibrary
  <1>2. IsBulk(bulk) /\ bulk.read \in Nat /\ bulk.total \in Nat
    BY <1>1, BulkUnderWay
  <1>3. /\ IsBulk(bulk)' /\ bulk'.pc = "done" /\ bulk'.total = bulk.total
        /\ bulk'.read = bulk.read /\ bulk'.steady = bulk.steady /\ bulk'.left = bulk.left
        /\ bulk'.slipped = bulk.slipped /\ bulk'.examined = bulk.examined
    BY <1>1, <1>2 DEF IsBulk
  <1> QED
    BY <1>1, <1>2, <1>3 DEF BulkInv, BulkShaped, ReadIsLowest, Listing, CountStands,
       NothingSkipped, EveryFileExamined

\* A file enters the filter.  It moves others to higher ranks only, and what it adds to
\* the count is seen unless the count has just been made.
LEMMA EntersKeeps == ASSUME BulkInv, NEW f \in Media, FileEnters(f) PROVE BulkInv'
  <1>1. /\ listed' = listed \union {f} /\ listed \subseteq Media /\ listed' \subseteq Media
        /\ bulk' = IF bulk.pc = "page" THEN [bulk EXCEPT !.slipped = TRUE] ELSE bulk
    BY DEF FileEnters, BulkInv, BulkShaped
  <1>2. \A g \in listed : Rank(g) <= Rank(g)' /\ Rank(g) \in Nat /\ Rank(g)' \in Nat
    <2>1. /\ listed' \in SUBSET Nat /\ IsFiniteSet(listed')
          /\ listed \in SUBSET Nat /\ IsFiniteSet(listed)
      BY <1>1, BulkAssumption, FS_Subset
    <2>2. \A g : Rank(g) = RankIn(listed, g) /\ Rank(g)' = RankIn(listed', g)
      BY DEF Rank, RankIn
    <2>3. \A g \in listed : RankIn(listed, g) <= RankIn(listed', g)
      BY <1>1, <2>1, RankGrows
    <2>4. /\ \A g \in listed : RankIn(listed, g) \in 1 .. Cardinality(listed)
          /\ \A g \in listed' : RankIn(listed', g) \in 1 .. Cardinality(listed')
      BY <2>1, RankBounds
    <2>5. Cardinality(listed) \in Nat /\ Cardinality(listed') \in Nat
      BY <2>1, FS_CardinalityType
    <2>6. \A g \in listed : RankIn(listed, g) \in Nat /\ RankIn(listed', g) \in Nat
      BY <1>1, <2>4, <2>5
    <2> QED
      BY <2>2, <2>3, <2>6
  <1>3. CASE bulk.pc = "page"
    <2>1. IsBulk(bulk) /\ bulk.total \in Nat /\ bulk.read \in Nat
      BY <1>3, BulkUnderWay
    <2>2. /\ IsBulk(bulk)' /\ bulk'.pc = "page" /\ bulk'.slipped /\ bulk'.total = bulk.total
          /\ bulk'.read = bulk.read /\ bulk'.steady = bulk.steady /\ bulk'.left = bulk.left
          /\ bulk'.todo = bulk.todo
      BY <1>1, <1>3, <2>1 DEF IsBulk
    <2>3. ReadIsLowest'
      <3> SUFFICES ASSUME ~bulk.left
                   PROVE  /\ bulk.steady \subseteq listed'
                          /\ \A g \in bulk.steady : Rank(g)' <= bulk.read => g \in bulk.todo
        BY <2>2 DEF ReadIsLowest
      <3>1. /\ bulk.steady \subseteq listed
            /\ \A g \in bulk.steady : Rank(g) <= bulk.read => g \in bulk.todo
        BY <1>3 DEF BulkInv, ReadIsLowest, Listing
      <3> QED
        BY <1>1, <1>2, <2>1, <3>1
    <2> QED
      BY <1>1, <2>1, <2>2, <2>3 DEF BulkInv, BulkShaped, CountStands, NothingSkipped,
         EveryFileExamined
  <1>4. CASE bulk.pc # "page"
    <2>1. bulk' = bulk
      BY <1>1, <1>4
    <2>2. ReadIsLowest'
      <3> SUFFICES ASSUME bulk.pc = "count", ~bulk.left
                   PROVE  /\ bulk.steady \subseteq listed'
                          /\ \A g \in bulk.steady : Rank(g)' <= bulk.read => g \in bulk.todo
        BY <1>4, <2>1 DEF ReadIsLowest, Listing
      <3>1. /\ bulk.steady \subseteq listed
            /\ \A g \in bulk.steady : Rank(g) <= bulk.read => g \in bulk.todo
        BY DEF BulkInv, ReadIsLowest, Listing
      <3>2. bulk.read \in Nat
        BY BulkUnderWay
      <3> QED
        BY <1>1, <1>2, <3>1, <3>2
    <2> QED
      BY <1>1, <1>4, <2>1, <2>2 DEF BulkInv, BulkShaped, IsBulk, CountStands, NothingSkipped,
         EveryFileExamined
  <1> QED
    BY <1>3, <1>4

\* A file leaves the filter: before the first page it moves no rank below the first, and
\* later the operation is marked as one that a file has left.
LEMMA LeavesKeeps == ASSUME BulkInv, NEW f \in Media, FileLeaves(f) PROVE BulkInv'
  <1>1. /\ listed' = listed \ {f} /\ listed \subseteq Media /\ listed' \subseteq Media
        /\ bulk' = IF Listing
                   THEN [bulk EXCEPT !.steady = bulk.steady \ {f},
                                     !.left = bulk.left \/ bulk.read > 0]
                   ELSE bulk
    BY DEF FileLeaves, BulkInv, BulkShaped
  <1>2. \A g \in listed' : Rank(g)' >= 1 /\ Rank(g)' \in Nat
    <2>1. listed' \in SUBSET Nat /\ IsFiniteSet(listed')
      BY <1>1, BulkAssumption, FS_Subset
    <2>2. \A g : Rank(g)' = RankIn(listed', g)
      BY DEF Rank, RankIn
    <2>3. \A g \in listed' : RankIn(listed', g) \in 1 .. Cardinality(listed')
      BY <2>1, RankBounds
    <2>4. Cardinality(listed') \in Nat
      BY <2>1, FS_CardinalityType
    <2> QED
      BY <2>2, <2>3, <2>4
  <1>3. /\ Cardinality(listed) \in Nat /\ Cardinality(listed') \in Nat
        /\ Cardinality(listed') <= Cardinality(listed)
    <2>1. IsFiniteSet(listed) /\ listed' \subseteq listed
      BY <1>1, BulkAssumption, FS_Subset
    <2>2. IsFiniteSet(listed') /\ Cardinality(listed') <= Cardinality(listed)
      BY <2>1, FS_Subset
    <2> QED
      BY <2>1, <2>2, FS_CardinalityType
  <1>4. CASE Listing
    <2> DEFINE steady == bulk.steady \ {f}
               left == bulk.left \/ bulk.read > 0
    <2>1. IsBulk(bulk) /\ bulk.total \in Nat /\ bulk.read \in Nat
      BY <1>4, BulkUnderWay DEF Listing
    <2>2. bulk' = [bulk EXCEPT !.steady = steady, !.left = left]
      BY <1>1, <1>4
    <2>3. ~left => bulk.read = 0 /\ ~bulk.left
      BY <2>1
    <2>4. steady \subseteq bulk.steady /\ f \notin steady
      OBVIOUS
    <2> HIDE DEF steady, left
    <2>5. /\ IsBulk(bulk)' /\ bulk'.pc = bulk.pc /\ bulk'.total = bulk.total
          /\ bulk'.read = bulk.read /\ bulk'.steady = steady /\ bulk'.left = left
          /\ bulk'.todo = bulk.todo /\ bulk'.slipped = bulk.slipped
      BY <2>1, <2>2 DEF IsBulk
    <2>6. ReadIsLowest'
      <3> SUFFICES ASSUME ~left
                   PROVE  /\ steady \subseteq listed'
                          /\ \A g \in steady : Rank(g)' <= bulk.read => g \in bulk.todo
        BY <2>5 DEF ReadIsLowest
      <3>1. steady \subseteq listed'
        BY <1>1, <1>4, <2>3, <2>4 DEF BulkInv, ReadIsLowest
      <3>2. \A g \in steady : ~(Rank(g)' <= 0)
        BY <1>2, <3>1
      <3> QED
        BY <2>3, <3>1, <3>2
    <2>7. CountStands'
      <3> SUFFICES ASSUME bulk.pc = "page", ~bulk.left, ~bulk.slipped
                   PROVE  Cardinality(listed') <= bulk.total
        BY <2>3, <2>5 DEF CountStands
      <3>1. Cardinality(listed) <= bulk.total
        BY DEF BulkInv, CountStands
      <3> QED
        BY <1>3, <2>1, <3>1
    <2> QED
      BY <1>1, <1>4, <2>1, <2>5, <2>6, <2>7 DEF BulkInv, BulkShaped, NothingSkipped,
         EveryFileExamined, Listing
  <1>5. CASE ~Listing
    <2>1. bulk' = bulk
      BY <1>1, <1>5
    <2> QED
      BY <1>1, <1>5, <2>1 DEF BulkInv, BulkShaped, IsBulk, ReadIsLowest, CountStands,
         NothingSkipped, EveryFileExamined, Listing
  <1> QED
    BY <1>4, <1>5

LEMMA BulkStep == BulkInv /\ [BulkNext]_bulkVars => BulkInv'
  <1> SUFFICES ASSUME BulkInv, [BulkNext]_bulkVars PROVE BulkInv'
    OBVIOUS
  <1>1. CASE UNCHANGED <<listed, bulk>>
    <2>1. \A f : Rank(f)' = Rank(f)
      BY <1>1 DEF Rank
    <2> QED
      BY <1>1, <2>1 DEF BulkInv, BulkShaped, IsBulk, ReadIsLowest, CountStands, NothingSkipped,
         EveryFileExamined, Listing
  <1>2. CASE BulkReturns
    BY <1>2 DEF BulkReturns, KeepLibrary, BulkInv, BulkShaped, NoBulk, ReadIsLowest,
       CountStands, NothingSkipped, EveryFileExamined, Listing
  <1>3. ASSUME NEW f \in Media, JobEnds(f) PROVE BulkInv'
    BY <1>1, <1>3 DEF JobEnds
  <1>4. UNCHANGED bulkVars => BulkInv'
    BY <1>1 DEF bulkVars
  <1> QED
    BY <1>2, <1>3, <1>4, SelectKeeps, CountKeeps, PageKeeps, ExamineKeeps, EntersKeeps,
       LeavesKeeps, EndKeepsExamined DEF BulkNext

\* An operation over a filter looks at every file that stayed in it, for any number of
\* files and any page size, as long as none leaves after a page was read and none enters
\* between a count and its page; one over ids looks at every id (bulk.go, listAll).
THEOREM AllExamined == BulkSpec => []EveryFileExamined
  <1>1. BulkInv => EveryFileExamined
    BY DEF BulkInv
  <1> QED
    BY <1>1, BulkInitial, BulkStep, PTL DEF BulkSpec

-----------------------------------------------------------------------------
(* The progress of an encode. *)

Key == {"out_time_us", "progress", "out_t"}
Line == [key : Key, value : Nat \union {NotANumber}]
Piece == {"text", "newline"}

ProgressShaped ==
    /\ ffmpeg \in [up : BOOLEAN, time : Nat, said : Nat, blocks : Nat, inBlock : BOOLEAN,
                   lines : Nat, inLine : BOOLEAN]
    /\ stdout \in Seq(Line) /\ stderr \in Seq(Piece)
    /\ parser \in [current : Nat, last : Nat]
    /\ throttle \in [latest : Nat, pending : BOOLEAN, last : Nat \union {Never}]
    /\ run = [at |-> run.at, finalOut |-> run.finalOut, tail |-> run.tail]
    /\ stored = [pct |-> stored.pct, failed |-> stored.failed, hasty |-> stored.hasty]
    /\ ticks \in Nat

\* The time the parser is at when it has read a line.
Reads(out, line) ==
    IF line.key = "out_time_us" /\ line.value # NotANumber THEN line.value ELSE out

\* at[i] is the time the parser will be at when it has read i of the lines that wait:
\* at the last one the time ffmpeg is at, and at the last report the time it said.
Hears(at) ==
    /\ at \in [0 .. Len(stdout) -> Nat]
    /\ at[0] = parser.current
    /\ \A i \in 1 .. Len(stdout) : at[i] = Reads(at[i - 1], stdout[i])
    /\ ffmpeg.up => at[Len(stdout)] = ffmpeg.time
    /\ \A i \in 1 .. Len(stdout) :
          /\ stdout[i].key = "progress"
          /\ \A j \in 1 .. Len(stdout) : j > i => stdout[j].key # "progress"
          => at[i - 1] = ffmpeg.said
AllIsHeard == \E at : Hears(at)

\* When no report waits, the last one has been passed on.
NoReportWaits == \A i \in 1 .. Len(stdout) : stdout[i].key # "progress"
LastIsPassedOn ==
    NoReportWaits => /\ parser.last = ffmpeg.said
                     /\ ffmpeg.blocks > 0 => throttle.last # Never

\* What the throttle does not hold is in the row.
HeldOrStored ==
    /\ throttle.pending => throttle.latest = parser.last /\ throttle.last # Never
    /\ ~throttle.pending /\ throttle.last # Never /\ ~stored.failed =>
          stored.pct = Percent(parser.last)
    /\ ~stored.hasty

Phases ==
    /\ run.at \in {"parsing", "waiting", "flush", "over"}
    /\ run.at # "parsing" => ~ffmpeg.up /\ stdout = <<>> /\ run.finalOut = parser.last
    /\ run.at \in {"flush", "over"} => stderr = <<>> /\ run.tail = LastLines
    /\ run.at = "over" => ~throttle.pending

\* The ring has the last of so many lines, and knows whether one is unfinished.  The slots
\* before the next hold the latest, the others those that were there a round before.
RingHas(r, copied) ==
    /\ r \in [buf : [0 .. (RingSize - 1) -> Nat], next : 0 .. (RingSize - 1), full : BOOLEAN,
              tail : Nat]
    /\ r.tail = IF copied.inLine THEN copied.lines + 1 ELSE 0
    /\ \A i \in 0 .. (RingSize - 1) : i < r.next => r.buf[i] = copied.lines - r.next + i + 1
    /\ ~r.full => r.next = copied.lines
    /\ r.full => /\ copied.lines >= RingSize
                 /\ \A i \in 0 .. (RingSize - 1) :
                       i >= r.next => r.buf[i] = copied.lines - r.next - RingSize + i + 1

\* at[i] is what has been copied when i of the pieces that wait have been.
Copies(at) ==
    /\ at \in [0 .. Len(stderr) -> [lines : Nat, inLine : BOOLEAN]]
    /\ RingHas(ring, at[0])
    /\ \A i \in 1 .. Len(stderr) :
          IF stderr[i] = "text"
          THEN ~at[i - 1].inLine /\ at[i] = [lines |-> at[i - 1].lines, inLine |-> TRUE]
          ELSE at[i - 1].inLine /\ at[i] = [lines |-> at[i - 1].lines + 1, inLine |-> FALSE]
    /\ at[Len(stderr)] = [lines |-> ffmpeg.lines, inLine |-> ffmpeg.inLine]
AllIsCopied == \E at : Copies(at)

ProgressInv ==
    ProgressShaped /\ AllIsHeard /\ LastIsPassedOn /\ HeldOrStored /\ Phases /\ AllIsCopied

LEMMA ProgressInitial == ProgressInit => ProgressInv
  <1> SUFFICES ASSUME ProgressInit PROVE ProgressInv
    OBVIOUS
  <1>1. ProgressShaped
    BY DEF ProgressInit, ProgressShaped, Line, Piece
  <1>2. LastIsPassedOn /\ HeldOrStored /\ Phases
    BY DEF ProgressInit, LastIsPassedOn, HeldOrStored, Phases
  <1>3. Len(stdout) = 0 /\ Len(stderr) = 0
    BY DEF ProgressInit
  <1>4. AllIsHeard
    <2> DEFINE at == [i \in 0 .. 0 |-> 0]
    <2>1. Hears(at)
      BY <1>3 DEF ProgressInit, Hears
    <2> QED
      BY <2>1 DEF AllIsHeard
  <1>5. AllIsCopied
    <2> DEFINE at == [i \in 0 .. 0 |-> [lines |-> 0, inLine |-> FALSE]]
    <2>1. RingHas(ring, at[0])
      BY ProgressAssumption DEF ProgressInit, RingHas
    <2>2. Copies(at)
      BY <1>3, <2>1 DEF ProgressInit, Copies
    <2> QED
      BY <2>2 DEF AllIsCopied
  <1> QED
    BY <1>1, <1>2, <1>4, <1>5 DEF ProgressInv

-----------------------------------------------------------------------------
(* The ring of lines. *)

LEMMA Below == ASSUME NEW a \in Nat, a < RingSize PROVE a % RingSize = a
  BY ProgressAssumption

LEMMA Around ==
    ASSUME NEW a \in Nat, RingSize <= a, a < RingSize + RingSize
    PROVE  a % RingSize = a - RingSize
  BY ProgressAssumption

\* The slots after, before and from one of them.
LEMMA SlotAfter ==
    ASSUME NEW x \in Nat, x < RingSize
    PROVE  \/ x + 1 < RingSize /\ (x + 1) % RingSize = x + 1
           \/ x + 1 = RingSize /\ (x + 1) % RingSize = 0
  <1> DEFINE a == x + 1
  <1>1. RingSize \in Nat \ {0} /\ a \in Nat
    BY ProgressAssumption
  <1>2. a < RingSize \/ a = RingSize
    BY <1>1
  <1>3. /\ a < RingSize => a % RingSize = a
        /\ a = RingSize => a % RingSize = a - RingSize
    <2> HIDE DEF a
    <2> QED
      BY <1>1, Below, Around
  <1> QED
    BY <1>1, <1>2, <1>3

LEMMA SlotBefore ==
    ASSUME NEW x \in Nat, x < RingSize
    PROVE  (x + RingSize - 1) % RingSize = IF x = 0 THEN RingSize - 1 ELSE x - 1
  <1> DEFINE a == x + RingSize - 1
  <1>1. RingSize \in Nat \ {0} /\ a \in Nat
    BY ProgressAssumption
  <1>2. /\ x = 0 => a < RingSize
        /\ x # 0 => RingSize <= a /\ a < RingSize + RingSize
    BY <1>1
  <1>3. /\ x = 0 => a % RingSize = a
        /\ x # 0 => a % RingSize = a - RingSize
    <2> HIDE DEF a
    <2> QED
      BY <1>1, <1>2, Below, Around
  <1> QED
    BY <1>1, <1>3

LEMMA SlotFrom ==
    ASSUME NEW x \in Nat, x < RingSize, NEW k \in 1 .. RingSize
    PROVE  (x + k - 1) % RingSize =
              IF x + k - 1 < RingSize THEN x + k - 1 ELSE x + k - 1 - RingSize
  <1> DEFINE a == x + k - 1
  <1>1. RingSize \in Nat \ {0} /\ a \in Nat /\ a < RingSize + RingSize
    BY ProgressAssumption
  <1>2. a % RingSize = IF a < RingSize THEN a ELSE a - RingSize
    <2> HIDE DEF a
    <2>1. a < RingSize \/ RingSize <= a
      BY <1>1
    <2> QED
      BY <1>1, <2>1, Below, Around
  <1> QED
    BY <1>1, <1>2

\* The ring's parts, as numbers.
LEMMA RingParts ==
    ASSUME NEW copied \in [lines : Nat, inLine : BOOLEAN], RingHas(ring, copied)
    PROVE  \E n \in Nat, x \in Nat, buf \in [0 .. (RingSize - 1) -> Nat], full \in BOOLEAN :
              /\ n = copied.lines /\ x < RingSize
              /\ ring = [buf |-> buf, next |-> x, full |-> full,
                         tail |-> IF copied.inLine THEN n + 1 ELSE 0]
              /\ \A i \in 0 .. (RingSize - 1) : i < x => buf[i] = n - x + i + 1
              /\ ~full => x = n
              /\ full => n >= RingSize
              /\ full => \A i \in 0 .. (RingSize - 1) :
                            i >= x => buf[i] = n - x - RingSize + i + 1
  <1>1. /\ copied.lines \in Nat /\ ring.next \in Nat /\ ring.next < RingSize
        /\ ring.buf \in [0 .. (RingSize - 1) -> Nat] /\ ring.full \in BOOLEAN
    BY ProgressAssumption DEF RingHas
  <1>2. ring = [buf |-> ring.buf, next |-> ring.next, full |-> ring.full,
                tail |-> IF copied.inLine THEN copied.lines + 1 ELSE 0]
    BY DEF RingHas
  <1>3. /\ \A i \in 0 .. (RingSize - 1) :
              i < ring.next => ring.buf[i] = copied.lines - ring.next + i + 1
        /\ ~ring.full => ring.next = copied.lines
        /\ ring.full => copied.lines >= RingSize
        /\ ring.full => \A i \in 0 .. (RingSize - 1) :
              i >= ring.next => ring.buf[i] = copied.lines - ring.next - RingSize + i + 1
    BY DEF RingHas
  <1> USE <1>1
  <1> WITNESS copied.lines \in Nat, ring.next \in Nat, ring.buf \in [0 .. (RingSize - 1) -> Nat],
              ring.full \in BOOLEAN
  <1> QED
    BY <1>1, <1>2, <1>3

LEMMA RingOfParts ==
    ASSUME NEW n \in Nat, NEW x \in Nat, NEW buf \in [0 .. (RingSize - 1) -> Nat],
           NEW full \in BOOLEAN, NEW inLine \in BOOLEAN, x < RingSize,
           \A i \in 0 .. (RingSize - 1) : i < x => buf[i] = n - x + i + 1,
           ~full => x = n,
           full => n >= RingSize,
           full => \A i \in 0 .. (RingSize - 1) : i >= x => buf[i] = n - x - RingSize + i + 1
    PROVE  RingHas([buf |-> buf, next |-> x, full |-> full,
                    tail |-> IF inLine THEN n + 1 ELSE 0], [lines |-> n, inLine |-> inLine])
  <1> DEFINE r == [buf |-> buf, next |-> x, full |-> full, tail |-> IF inLine THEN n + 1 ELSE 0]
             copied == [lines |-> n, inLine |-> inLine]
  <1>1. /\ r.buf = buf /\ r.next = x /\ r.full = full /\ copied.lines = n
        /\ copied.inLine = inLine /\ r.tail = IF inLine THEN n + 1 ELSE 0
    OBVIOUS
  <1>2. r \in [buf : [0 .. (RingSize - 1) -> Nat], next : 0 .. (RingSize - 1), full : BOOLEAN,
               tail : Nat]
    BY ProgressAssumption
  <1> HIDE DEF r, copied
  <1>3. RingHas(r, copied)
    BY <1>1, <1>2 DEF RingHas
  <1> QED
    BY <1>3 DEF r, copied

\* A line that ends takes the next slot.
LEMMA NewlineFits ==
    ASSUME NEW copied \in [lines : Nat, inLine : BOOLEAN], copied.inLine, RingHas(ring, copied)
    PROVE  RingHas(Push(ring, ring.tail), [lines |-> copied.lines + 1, inLine |-> FALSE])
  <1>0. RingSize \in Nat \ {0}
    BY ProgressAssumption
  <1>1. PICK n \in Nat, x \in Nat, buf \in [0 .. (RingSize - 1) -> Nat], full \in BOOLEAN :
              /\ n = copied.lines /\ x < RingSize
              /\ ring = [buf |-> buf, next |-> x, full |-> full,
                         tail |-> IF copied.inLine THEN n + 1 ELSE 0]
              /\ \A i \in 0 .. (RingSize - 1) : i < x => buf[i] = n - x + i + 1
              /\ ~full => x = n
              /\ full => n >= RingSize
              /\ full => \A i \in 0 .. (RingSize - 1) :
                            i >= x => buf[i] = n - x - RingSize + i + 1
    BY RingParts
  <1>9. RingSize \in Nat \ {0} /\ x < RingSize /\ (~full => x = n) /\ (full => n >= RingSize)
    BY <1>0, <1>1
  <1> DEFINE next == (x + 1) % RingSize
             new == [buf EXCEPT ![x] = n + 1]
  <1>2. /\ x + 1 < RingSize => next = x + 1
        /\ x + 1 = RingSize => next = 0
        /\ x + 1 < RingSize \/ x + 1 = RingSize
    BY SlotAfter, <1>9
  <1>3. /\ new \in [0 .. (RingSize - 1) -> Nat] /\ new[x] = n + 1
        /\ \A i \in 0 .. (RingSize - 1) : i # x => new[i] = buf[i]
    BY <1>0, <1>1
  <1>4. Push(ring, ring.tail) = [buf |-> new, next |-> next, full |-> full \/ next = 0,
                                 tail |-> 0]
    BY <1>1 DEF Push
  <1> HIDE DEF next, new
  <1>5. /\ next \in Nat /\ next < RingSize
        /\ \A i \in 0 .. (RingSize - 1) : i < next => new[i] = (n + 1) - next + i + 1
        /\ ~(full \/ next = 0) => next = n + 1
        /\ full \/ next = 0 => n + 1 >= RingSize
        /\ full \/ next = 0 => \A i \in 0 .. (RingSize - 1) :
              i >= next => new[i] = (n + 1) - next - RingSize + i + 1
    <2>1. CASE x + 1 < RingSize
      <3>1. next = x + 1
        BY <1>2, <2>1
      <3>2. ASSUME NEW i \in 0 .. (RingSize - 1), i < next
            PROVE  new[i] = (n + 1) - next + i + 1
        <4>1. CASE i = x
          BY <1>0, <1>3, <3>1, <4>1
        <4>2. CASE i # x
          <5>1. i < x /\ new[i] = buf[i]
            BY <1>0, <1>3, <3>1, <3>2, <4>2
          <5>2. buf[i] = n - x + i + 1
            BY <1>1, <5>1
          <5> QED
            BY <3>1, <5>1, <5>2
        <4> QED
          BY <4>1, <4>2
      <3>3. ASSUME NEW i \in 0 .. (RingSize - 1), i >= next, full
            PROVE  new[i] = (n + 1) - next - RingSize + i + 1
        <4>1. i >= x /\ new[i] = buf[i]
          BY <1>0, <1>3, <3>1, <3>3
        <4>2. buf[i] = n - x - RingSize + i + 1
          BY <1>1, <3>3, <4>1
        <4> QED
          BY <1>0, <3>1, <4>1, <4>2
      <3> QED
        BY <1>9, <2>1, <3>1, <3>2, <3>3
    <2>2. CASE x + 1 = RingSize
      <3>1. next = 0 /\ n + 1 >= RingSize
        BY <1>2, <1>9, <2>2
      <3>2. ASSUME NEW i \in 0 .. (RingSize - 1)
            PROVE  new[i] = (n + 1) - next - RingSize + i + 1
        <4>1. CASE i = x
          BY <1>0, <1>3, <2>2, <3>1, <4>1
        <4>2. CASE i # x
          <5>1. i < x /\ new[i] = buf[i]
            BY <1>0, <1>3, <2>2, <4>2
          <5>2. buf[i] = n - x + i + 1
            BY <1>1, <5>1
          <5> QED
            BY <1>0, <2>2, <3>1, <5>1, <5>2
        <4> QED
          BY <4>1, <4>2
      <3> QED
        BY <1>0, <3>1, <3>2
    <2> QED
      BY <1>2, <2>1, <2>2
  <1>6. RingHas([buf |-> new, next |-> next, full |-> full \/ next = 0,
                 tail |-> IF FALSE THEN (n + 1) + 1 ELSE 0], [lines |-> n + 1, inLine |-> FALSE])
    <2>1. n + 1 \in Nat /\ (full \/ next = 0) \in BOOLEAN /\ FALSE \in BOOLEAN
      OBVIOUS
    <2> QED
      BY ONLY <1>3, <1>5, <2>1, RingOfParts
  <1> QED
    BY <1>1, <1>4, <1>6

\* A line that begins is the one after the last.
LEMMA TextFits ==
    ASSUME NEW copied \in [lines : Nat, inLine : BOOLEAN], ~copied.inLine, RingHas(ring, copied)
    PROVE  RingHas([ring EXCEPT !.tail =
                       1 + (IF ring.next = 0 /\ ~ring.full THEN 0
                            ELSE ring.buf[(ring.next + RingSize - 1) % RingSize])],
                   [lines |-> copied.lines, inLine |-> TRUE])
  <1>0. RingSize \in Nat \ {0}
    BY ProgressAssumption
  <1>1. PICK n \in Nat, x \in Nat, buf \in [0 .. (RingSize - 1) -> Nat], full \in BOOLEAN :
              /\ n = copied.lines /\ x < RingSize
              /\ ring = [buf |-> buf, next |-> x, full |-> full,
                         tail |-> IF copied.inLine THEN n + 1 ELSE 0]
              /\ \A i \in 0 .. (RingSize - 1) : i < x => buf[i] = n - x + i + 1
              /\ ~full => x = n
              /\ full => n >= RingSize
              /\ full => \A i \in 0 .. (RingSize - 1) :
                            i >= x => buf[i] = n - x - RingSize + i + 1
    BY RingParts
  <1>9. RingSize \in Nat \ {0} /\ x < RingSize /\ (~full => x = n) /\ (full => n >= RingSize)
    BY <1>0, <1>1
  <1> DEFINE last == IF x = 0 /\ ~full THEN 0 ELSE buf[(x + RingSize - 1) % RingSize]
  <1>2. last = n
    <2>1. CASE x # 0
      <3>1. (x + RingSize - 1) % RingSize = x - 1
        BY <1>9, <2>1, SlotBefore
      <3>2. buf[x - 1] = n
        BY <1>0, <1>1, <2>1
      <3> QED
        BY <2>1, <3>1, <3>2
    <2>2. CASE x = 0 /\ full
      <3>1. (x + RingSize - 1) % RingSize = RingSize - 1
        BY <1>9, <2>2, SlotBefore
      <3>2. buf[RingSize - 1] = n - x - RingSize + (RingSize - 1) + 1
        BY <1>0, <1>1, <2>2
      <3> QED
        BY <1>0, <2>2, <3>1, <3>2
    <2>3. CASE x = 0 /\ ~full
      BY <1>1, <2>3
    <2> QED
      BY <2>1, <2>2, <2>3
  <1>3. RingHas([buf |-> buf, next |-> x, full |-> full,
                 tail |-> IF TRUE THEN n + 1 ELSE 0], [lines |-> n, inLine |-> TRUE])
    <2>1. TRUE \in BOOLEAN
      OBVIOUS
    <2> QED
      BY ONLY <1>1, <2>1, RingOfParts
  <1>4. [ring EXCEPT !.tail = 1 + last] =
           [buf |-> buf, next |-> x, full |-> full, tail |-> n + 1]
    BY <1>1, <1>2
  <1> QED
    BY <1>1, <1>3, <1>4

\* What the ring gives are the last lines of those copied, in their order.
LEMMA LinesOfRing ==
    ASSUME NEW copied \in [lines : Nat, inLine : BOOLEAN], RingHas(ring, copied)
    PROVE  LET first == IF copied.lines > RingSize THEN copied.lines - RingSize ELSE 0
               last == copied.lines + (IF copied.inLine THEN 1 ELSE 0)
           IN  Lines(ring) = [k \in 1 .. (last - first) |-> first + k]
  <1>0. RingSize \in Nat \ {0}
    BY ProgressAssumption
  <1>1. PICK n \in Nat, x \in Nat, buf \in [0 .. (RingSize - 1) -> Nat], full \in BOOLEAN :
              /\ n = copied.lines /\ x < RingSize
              /\ ring = [buf |-> buf, next |-> x, full |-> full,
                         tail |-> IF copied.inLine THEN n + 1 ELSE 0]
              /\ \A i \in 0 .. (RingSize - 1) : i < x => buf[i] = n - x + i + 1
              /\ ~full => x = n
              /\ full => n >= RingSize
              /\ full => \A i \in 0 .. (RingSize - 1) :
                            i >= x => buf[i] = n - x - RingSize + i + 1
    BY RingParts
  <1>9. RingSize \in Nat \ {0} /\ x < RingSize /\ (~full => x = n) /\ (full => n >= RingSize)
    BY <1>0, <1>1
  <1>2. PICK first \in Nat : first = IF n > RingSize THEN n - RingSize ELSE 0
    <2>1. (IF n > RingSize THEN n - RingSize ELSE 0) \in Nat
      BY <1>0
    <2> QED
      BY <2>1
  <1>3. PICK m \in Nat : m = n - first
    BY <1>0, <1>2
  <1> DEFINE kept == IF full
                     THEN [k \in 1 .. RingSize |-> buf[(x + k - 1) % RingSize]]
                     ELSE [k \in 1 .. x |-> buf[(k - 1) % RingSize]]
  <1>4. kept = [k \in 1 .. m |-> first + k]
    <2>1. CASE full
      <3>1. n >= RingSize /\ first = n - RingSize /\ m = RingSize
        BY <1>2, <1>3, <1>9, <2>1
      <3>2. ASSUME NEW k \in 1 .. RingSize
            PROVE  buf[(x + k - 1) % RingSize] = first + k
        <4>1. CASE x + k - 1 < RingSize
          <5>1. (x + k - 1) % RingSize = x + k - 1
            BY <1>9, <4>1, SlotFrom
          <5>2. buf[x + k - 1] = n - x - RingSize + (x + k - 1) + 1
            BY <1>0, <1>1, <2>1, <4>1
          <5> QED
            BY <1>0, <3>1, <5>1, <5>2
        <4>2. CASE x + k - 1 >= RingSize
          <5>1. (x + k - 1) % RingSize = x + k - 1 - RingSize
            <6>1. ~(x + k - 1 < RingSize)
              BY <1>9, <4>2
            <6>2. (x + k - 1) % RingSize =
                     IF x + k - 1 < RingSize THEN x + k - 1 ELSE x + k - 1 - RingSize
              BY <1>9, SlotFrom
            <6> QED
              BY <6>1, <6>2
          <5>2. buf[x + k - 1 - RingSize] = n - x + (x + k - 1 - RingSize) + 1
            BY <1>0, <1>1, <4>2
          <5> QED
            BY <1>0, <3>1, <5>1, <5>2
        <4> QED
          BY <1>0, <4>1, <4>2
      <3> QED
        BY <2>1, <3>1, <3>2
    <2>2. CASE ~full
      <3>1. x = n /\ first = 0 /\ m = x
        BY <1>0, <1>1, <1>2, <1>3, <2>2
      <3>2. ASSUME NEW k \in 1 .. x
            PROVE  buf[(k - 1) % RingSize] = first + k
        <4>1. (k - 1) % RingSize = k - 1
          <5>1. k - 1 \in Nat /\ k - 1 < RingSize
            BY <1>9
          <5> QED
            BY <5>1, Below
        <4>2. buf[k - 1] = n - x + (k - 1) + 1
          BY <1>0, <1>1
        <4> QED
          BY <3>1, <4>1, <4>2
      <3> QED
        BY <2>2, <3>1, <3>2
    <2> QED
      BY <2>1, <2>2
  <1>5. Lines(ring) = IF ring.tail = 0 THEN kept ELSE Append(kept, ring.tail)
    BY <1>1 DEF Lines
  <1> HIDE DEF kept
  <1>6. CASE copied.inLine
    <2>1. ring.tail = first + m + 1 /\ ring.tail # 0
      BY <1>1, <1>3, <1>6
    <2>2. Append([k \in 1 .. m |-> first + k], first + m + 1) = [k \in 1 .. (m + 1) |-> first + k]
      OBVIOUS
    <2>3. copied.lines + 1 - first = m + 1
      BY <1>1, <1>3
    <2>4. Lines(ring) = [k \in 1 .. (copied.lines + 1 - first) |-> first + k]
      BY <1>4, <1>5, <2>1, <2>2, <2>3
    <2>5. first = IF copied.lines > RingSize THEN copied.lines - RingSize ELSE 0
      BY <1>1, <1>2
    <2>6. (IF copied.inLine THEN 1 ELSE 0) = 1
      BY <1>6
    <2> QED
      BY <2>4, <2>5, <2>6
  <1>7. CASE ~copied.inLine
    <2>1. ring.tail = 0 /\ copied.lines + 0 - first = m
      BY <1>1, <1>3, <1>7
    <2>2. Lines(ring) = [k \in 1 .. (copied.lines + 0 - first) |-> first + k]
      BY <1>4, <1>5, <2>1
    <2>3. first = IF copied.lines > RingSize THEN copied.lines - RingSize ELSE 0
      BY <1>1, <1>2
    <2>4. (IF copied.inLine THEN 1 ELSE 0) = 0
      BY <1>7
    <2> QED
      BY <2>2, <2>3, <2>4
  <1> QED
    BY <1>6, <1>7

-----------------------------------------------------------------------------
(* The two streams. *)

\* A line ffmpeg writes: what it says is the time it was at.
LEMMA HearsMore ==
    ASSUME ProgressInv, NEW line \in Line, stdout' = Append(stdout, line), UNCHANGED parser,
           ffmpeg'.up => ffmpeg.up /\ ffmpeg'.time = Reads(ffmpeg.time, line),
           IF line.key = "progress" THEN ffmpeg.up /\ ffmpeg'.said = ffmpeg.time
           ELSE ffmpeg'.said = ffmpeg.said
    PROVE  AllIsHeard'
  <1>1. PICK at : Hears(at)
    BY DEF ProgressInv, AllIsHeard
  <1>2. PICK n \in Nat : n = Len(stdout)
    BY LenProperties DEF ProgressInv, ProgressShaped
  <1>3. /\ Len(stdout') = n + 1 /\ stdout'[n + 1] = line
        /\ \A i \in 1 .. n : stdout'[i] = stdout[i]
    BY <1>2, AppendProperties DEF ProgressInv, ProgressShaped
  <1>4. /\ at \in [0 .. n -> Nat] /\ at[0] = parser.current
        /\ \A i \in 1 .. n : at[i] = Reads(at[i - 1], stdout[i])
        /\ ffmpeg.up => at[n] = ffmpeg.time
        /\ \A i \in 1 .. n :
              /\ stdout[i].key = "progress"
              /\ \A j \in 1 .. n : j > i => stdout[j].key # "progress"
              => at[i - 1] = ffmpeg.said
    BY <1>1, <1>2 DEF Hears
  <1>5. PICK next \in Nat : next = Reads(at[n], line)
    <2>1. at[n] \in Nat
      BY <1>4
    <2>2. Reads(at[n], line) \in Nat
      BY <2>1 DEF Reads, Line
    <2> QED
      BY <2>2
  <1> DEFINE new == [i \in 0 .. n + 1 |-> IF i <= n THEN at[i] ELSE next]
  <1>6. /\ new \in [0 .. n + 1 -> Nat] /\ new[n + 1] = next
        /\ \A i \in 0 .. n : new[i] = at[i]
    BY <1>4
  <1> HIDE DEF new
  <1>7. new[0] = parser'.current
    BY <1>4, <1>6
  <1>8. \A i \in 1 .. (n + 1) : new[i] = Reads(new[i - 1], stdout'[i])
    <2> SUFFICES ASSUME NEW i \in 1 .. (n + 1) PROVE new[i] = Reads(new[i - 1], stdout'[i])
      OBVIOUS
    <2>1. CASE i = n + 1
      BY <1>3, <1>5, <1>6, <2>1
    <2>2. CASE i # n + 1
      <3>1. i \in 1 .. n /\ i \in 0 .. n /\ i - 1 \in 0 .. n
        BY <2>2
      <3> QED
        BY <1>3, <1>4, <1>6, <3>1
    <2> QED
      BY <2>1, <2>2
  <1>9. ffmpeg'.up => new[n + 1] = ffmpeg'.time
    BY <1>4, <1>5, <1>6
  <1>10. ASSUME NEW i \in 1 .. (n + 1), stdout'[i].key = "progress",
                \A j \in 1 .. (n + 1) : j > i => stdout'[j].key # "progress"
         PROVE  new[i - 1] = ffmpeg'.said
    <2>1. CASE i = n + 1
      <3>1. line.key = "progress" /\ new[i - 1] = at[n]
        BY <1>3, <1>6, <1>10, <2>1
      <3> QED
        BY <1>4, <3>1
    <2>2. CASE i # n + 1
      <3>1. i \in 1 .. n /\ i - 1 \in 0 .. n
        BY <2>2
      <3>2. n + 1 \in 1 .. (n + 1) /\ n + 1 > i
        BY <3>1
      <3>3. line.key # "progress"
        BY <1>3, <1>10, <3>2
      <3>4. \A j \in 1 .. n : j > i => stdout[j].key # "progress"
        <4> SUFFICES ASSUME NEW j \in 1 .. n, j > i PROVE stdout[j].key # "progress"
          OBVIOUS
        <4>1. j \in 1 .. (n + 1)
          OBVIOUS
        <4> QED
          BY <1>3, <1>10, <4>1
      <3>5. stdout[i].key = "progress"
        BY <1>3, <1>10, <3>1
      <3>6. at[i - 1] = ffmpeg.said
        BY <1>4, <3>1, <3>4, <3>5
      <3> QED
        BY <1>6, <3>1, <3>3, <3>6
    <2> QED
      BY <2>1, <2>2
  <1>11. Hears(new)'
    BY <1>3, <1>6, <1>7, <1>8, <1>9, <1>10 DEF Hears
  <1> QED
    BY <1>11 DEF AllIsHeard

\* A line the parser reads.
LEMMA HearsOn ==
    ASSUME ProgressInv, stdout # <<>>, stdout' = Tail(stdout), UNCHANGED ffmpeg,
           parser'.current = Reads(parser.current, Head(stdout))
    PROVE  /\ AllIsHeard'
           /\ Head(stdout) \in Line
           /\ Head(stdout).key = "progress" /\ NoReportWaits' => parser.current = ffmpeg.said
           /\ Head(stdout).key # "progress" /\ NoReportWaits' => NoReportWaits
  <1>1. PICK at : Hears(at)
    BY DEF ProgressInv, AllIsHeard
  <1>2. PICK n \in Nat : n + 1 = Len(stdout)
    <2>1. Len(stdout) \in Nat \ {0}
      BY EmptySeq DEF ProgressInv, ProgressShaped
    <2>2. Len(stdout) - 1 \in Nat /\ (Len(stdout) - 1) + 1 = Len(stdout)
      BY <2>1
    <2> QED
      BY <2>2
  <1>3. /\ Len(stdout') = n /\ Head(stdout) = stdout[1] /\ Head(stdout) \in Line
        /\ \A i \in 1 .. n : stdout'[i] = stdout[i + 1]
    <2>1. stdout \in Seq(Line)
      BY DEF ProgressInv, ProgressShaped
    <2>2. /\ Head(stdout) \in Line /\ Len(stdout') = Len(stdout) - 1
          /\ \A i \in 1 .. Len(stdout') : stdout'[i] = stdout[i + 1]
      BY <2>1, HeadTailProperties
    <2>3. Head(stdout) = stdout[1]
      BY <2>1
    <2> QED
      BY <1>2, <2>2, <2>3
  <1>4. /\ at \in [0 .. n + 1 -> Nat] /\ at[0] = parser.current
        /\ \A i \in 1 .. n + 1 : at[i] = Reads(at[i - 1], stdout[i])
        /\ ffmpeg.up => at[n + 1] = ffmpeg.time
        /\ \A i \in 1 .. n + 1 :
              /\ stdout[i].key = "progress"
              /\ \A j \in 1 .. n + 1 : j > i => stdout[j].key # "progress"
              => at[i - 1] = ffmpeg.said
    BY <1>1, <1>2 DEF Hears
  <1> DEFINE new == [i \in 0 .. n |-> at[i + 1]]
  <1>5. new \in [0 .. n -> Nat] /\ \A i \in 0 .. n : new[i] = at[i + 1]
    BY <1>4
  <1> HIDE DEF new
  <1>6. new[0] = parser'.current
    <2>1. at[1] = Reads(at[0], stdout[1])
      <3>1. 1 \in 1 .. n + 1 /\ 1 - 1 = 0
        OBVIOUS
      <3> QED
        BY <1>4, <3>1
    <2>2. new[0] = at[1]
      BY <1>5
    <2> QED
      BY <1>3, <1>4, <2>1, <2>2
  <1>7. \A i \in 1 .. n : new[i] = Reads(new[i - 1], stdout'[i])
    <2> SUFFICES ASSUME NEW i \in 1 .. n PROVE new[i] = Reads(new[i - 1], stdout'[i])
      OBVIOUS
    <2>1. i \in 0 .. n /\ i - 1 \in 0 .. n /\ i + 1 \in 1 .. n + 1 /\ (i + 1) - 1 = i
          /\ (i - 1) + 1 = i
      OBVIOUS
    <2>2. at[i + 1] = Reads(at[i], stdout[i + 1])
      BY <1>4, <2>1
    <2>3. new[i] = at[i + 1] /\ new[i - 1] = at[i]
      BY <1>5, <2>1
    <2> QED
      BY <1>3, <2>2, <2>3
  <1>8. ffmpeg'.up => new[n] = ffmpeg'.time
    BY <1>4, <1>5
  <1>9. ASSUME NEW i \in 1 .. n, stdout'[i].key = "progress",
               \A j \in 1 .. n : j > i => stdout'[j].key # "progress"
        PROVE  new[i - 1] = ffmpeg'.said
    <2>1. i - 1 \in 0 .. n /\ i + 1 \in 1 .. n + 1 /\ (i + 1) - 1 = i /\ (i - 1) + 1 = i
      OBVIOUS
    <2>2. ASSUME NEW j \in 1 .. n + 1, j > i + 1 PROVE stdout[j].key # "progress"
      <3>1. j - 1 \in 1 .. n /\ j - 1 > i /\ (j - 1) + 1 = j
        BY <2>2
      <3> QED
        BY <1>3, <1>9, <3>1
    <2>3. stdout[i + 1].key = "progress"
      BY <1>3, <1>9
    <2>4. at[i] = ffmpeg.said
      BY <1>4, <2>1, <2>2, <2>3
    <2> QED
      BY <1>5, <2>1, <2>4
  <1>10. Hears(new)'
    BY <1>3, <1>5, <1>6, <1>7, <1>8, <1>9 DEF Hears
  <1>11. NoReportWaits' => \A j \in 1 .. n + 1 : j > 1 => stdout[j].key # "progress"
    <2> SUFFICES ASSUME NoReportWaits', NEW j \in 1 .. n + 1, j > 1
                 PROVE  stdout[j].key # "progress"
      OBVIOUS
    <2>1. j - 1 \in 1 .. n /\ (j - 1) + 1 = j
      OBVIOUS
    <2> QED
      BY <1>3, <2>1 DEF NoReportWaits
  <1>12. Head(stdout).key = "progress" /\ NoReportWaits' => parser.current = ffmpeg.said
    <2> SUFFICES ASSUME Head(stdout).key = "progress", NoReportWaits'
                 PROVE  at[0] = ffmpeg.said
      BY <1>4
    <2>1. 1 \in 1 .. n + 1 /\ 1 - 1 = 0
      OBVIOUS
    <2> QED
      BY <1>3, <1>4, <1>11, <2>1
  <1>13. Head(stdout).key # "progress" /\ NoReportWaits' => NoReportWaits
    <2> SUFFICES ASSUME Head(stdout).key # "progress", NoReportWaits', NEW j \in 1 .. n + 1
                 PROVE  stdout[j].key # "progress"
      BY <1>2 DEF NoReportWaits
    <2>1. j = 1 \/ j > 1
      OBVIOUS
    <2> QED
      BY <1>3, <1>11, <2>1
  <1> QED
    BY <1>3, <1>10, <1>12, <1>13 DEF AllIsHeard

\* A piece of a line ffmpeg writes.
LEMMA CopiesMore ==
    ASSUME ProgressInv, NEW piece \in Piece, stderr' = Append(stderr, piece), UNCHANGED ring,
           IF piece = "text"
           THEN ~ffmpeg.inLine /\ ffmpeg'.inLine /\ ffmpeg'.lines = ffmpeg.lines
           ELSE ffmpeg.inLine /\ ~ffmpeg'.inLine /\ ffmpeg'.lines = ffmpeg.lines + 1,
           ffmpeg'.inLine \in BOOLEAN
    PROVE  AllIsCopied'
  <1>1. PICK at : Copies(at)
    BY DEF ProgressInv, AllIsCopied
  <1>2. PICK n \in Nat : n = Len(stderr)
    BY LenProperties DEF ProgressInv, ProgressShaped
  <1>3. /\ Len(stderr') = n + 1 /\ stderr'[n + 1] = piece
        /\ \A i \in 1 .. n : stderr'[i] = stderr[i]
    BY <1>2, AppendProperties DEF ProgressInv, ProgressShaped
  <1>4. /\ at \in [0 .. n -> [lines : Nat, inLine : BOOLEAN]] /\ RingHas(ring, at[0])
        /\ \A i \in 1 .. n :
              IF stderr[i] = "text"
              THEN ~at[i - 1].inLine /\ at[i] = [lines |-> at[i - 1].lines, inLine |-> TRUE]
              ELSE at[i - 1].inLine /\ at[i] = [lines |-> at[i - 1].lines + 1, inLine |-> FALSE]
        /\ at[n] = [lines |-> ffmpeg.lines, inLine |-> ffmpeg.inLine]
    BY <1>1, <1>2 DEF Copies
  <1>5. PICK next \in [lines : Nat, inLine : BOOLEAN] :
           next = [lines |-> ffmpeg'.lines, inLine |-> ffmpeg'.inLine]
    <2>1. ffmpeg.lines \in Nat /\ ffmpeg'.lines \in Nat
      BY DEF ProgressInv, ProgressShaped
    <2> QED
      BY <2>1
  <1> DEFINE new == [i \in 0 .. n + 1 |-> IF i <= n THEN at[i] ELSE next]
  <1>6. /\ new \in [0 .. n + 1 -> [lines : Nat, inLine : BOOLEAN]] /\ new[n + 1] = next
        /\ \A i \in 0 .. n : new[i] = at[i]
    BY <1>4
  <1> HIDE DEF new
  <1>7. RingHas(ring', new[0])
    BY <1>4, <1>6
  <1>8. ASSUME NEW i \in 1 .. (n + 1)
        PROVE  IF stderr'[i] = "text"
               THEN ~new[i - 1].inLine /\ new[i] = [lines |-> new[i - 1].lines, inLine |-> TRUE]
               ELSE new[i - 1].inLine
                    /\ new[i] = [lines |-> new[i - 1].lines + 1, inLine |-> FALSE]
    <2>1. CASE i = n + 1
      <3>1. new[i - 1] = at[n] /\ new[i] = next /\ stderr'[i] = piece
        BY <1>3, <1>6, <2>1
      <3>2. at[n].lines = ffmpeg.lines /\ at[n].inLine = ffmpeg.inLine
        BY <1>4
      <3> QED
        BY <1>5, <3>1, <3>2
    <2>2. CASE i # n + 1
      <3>1. i \in 1 .. n /\ i \in 0 .. n /\ i - 1 \in 0 .. n
        BY <2>2
      <3>2. new[i] = at[i] /\ new[i - 1] = at[i - 1] /\ stderr'[i] = stderr[i]
        BY <1>3, <1>6, <3>1
      <3> QED
        BY <1>4, <3>1, <3>2
    <2> QED
      BY <2>1, <2>2
  <1>9. Copies(new)'
    BY <1>3, <1>5, <1>6, <1>7, <1>8 DEF Copies, RingHas
  <1> QED
    BY <1>9 DEF AllIsCopied

\* A piece of a line that is copied into the ring.
LEMMA CopiesOn == ASSUME ProgressInv, CopyStderr PROVE AllIsCopied'
  <1>1. PICK at : Copies(at)
    BY DEF ProgressInv, AllIsCopied
  <1>2. PICK n \in Nat : n + 1 = Len(stderr)
    <2>1. Len(stderr) \in Nat \ {0}
      BY EmptySeq DEF ProgressInv, ProgressShaped, CopyStderr
    <2>2. Len(stderr) - 1 \in Nat /\ (Len(stderr) - 1) + 1 = Len(stderr)
      BY <2>1
    <2> QED
      BY <2>2
  <1>3. /\ Len(stderr') = n /\ Head(stderr) = stderr[1] /\ Head(stderr) \in Piece
        /\ \A i \in 1 .. n : stderr'[i] = stderr[i + 1]
    <2>1. stderr \in Seq(Piece) /\ stderr # <<>> /\ stderr' = Tail(stderr)
      BY DEF ProgressInv, ProgressShaped, CopyStderr
    <2>2. /\ Head(stderr) \in Piece /\ Len(stderr') = Len(stderr) - 1
          /\ \A i \in 1 .. Len(stderr') : stderr'[i] = stderr[i + 1]
      BY <2>1, HeadTailProperties
    <2>3. Head(stderr) = stderr[1]
      BY <2>1
    <2> QED
      BY <1>2, <2>2, <2>3
  <1>4. /\ at \in [0 .. n + 1 -> [lines : Nat, inLine : BOOLEAN]] /\ RingHas(ring, at[0])
        /\ \A i \in 1 .. n + 1 :
              IF stderr[i] = "text"
              THEN ~at[i - 1].inLine /\ at[i] = [lines |-> at[i - 1].lines, inLine |-> TRUE]
              ELSE at[i - 1].inLine /\ at[i] = [lines |-> at[i - 1].lines + 1, inLine |-> FALSE]
        /\ at[n + 1] = [lines |-> ffmpeg.lines, inLine |-> ffmpeg.inLine]
    BY <1>1, <1>2 DEF Copies
  <1>5. /\ at[0] \in [lines : Nat, inLine : BOOLEAN]
        /\ IF Head(stderr) = "text"
           THEN ~at[0].inLine /\ at[1] = [lines |-> at[0].lines, inLine |-> TRUE]
           ELSE at[0].inLine /\ at[1] = [lines |-> at[0].lines + 1, inLine |-> FALSE]
    <2>1. 1 \in 1 .. n + 1 /\ 1 - 1 = 0 /\ 0 \in 0 .. n + 1
      OBVIOUS
    <2> QED
      BY <1>3, <1>4, <2>1
  <1>6. RingHas(ring', at[1])
    <2>1. CASE Head(stderr) = "newline"
      <3>1. ring' = Push(ring, ring.tail)
        BY <2>1 DEF CopyStderr
      <3> QED
        BY <1>4, <1>5, <2>1, <3>1, NewlineFits
    <2>2. CASE Head(stderr) = "text"
      <3>1. ring' = [ring EXCEPT !.tail =
                       1 + (IF ring.next = 0 /\ ~ring.full THEN 0
                            ELSE ring.buf[(ring.next + RingSize - 1) % RingSize])]
        BY <2>2 DEF CopyStderr
      <3> QED
        BY <1>4, <1>5, <2>2, <3>1, TextFits
    <2> QED
      BY <1>3, <2>1, <2>2 DEF Piece
  <1> DEFINE new == [i \in 0 .. n |-> at[i + 1]]
  <1>7. /\ new \in [0 .. n -> [lines : Nat, inLine : BOOLEAN]]
        /\ \A i \in 0 .. n : new[i] = at[i + 1]
    BY <1>4
  <1> HIDE DEF new
  <1>8. ASSUME NEW i \in 1 .. n
        PROVE  IF stderr'[i] = "text"
               THEN ~new[i - 1].inLine /\ new[i] = [lines |-> new[i - 1].lines, inLine |-> TRUE]
               ELSE new[i - 1].inLine
                    /\ new[i] = [lines |-> new[i - 1].lines + 1, inLine |-> FALSE]
    <2>1. i \in 0 .. n /\ i - 1 \in 0 .. n /\ i + 1 \in 1 .. n + 1 /\ (i + 1) - 1 = i
          /\ (i - 1) + 1 = i
      OBVIOUS
    <2>2. new[i] = at[i + 1] /\ new[i - 1] = at[i] /\ stderr'[i] = stderr[i + 1]
      BY <1>3, <1>7, <2>1
    <2> QED
      BY <1>4, <2>1, <2>2
  <1>9. RingHas(ring', new[0]) /\ new[n] = [lines |-> ffmpeg.lines, inLine |-> ffmpeg.inLine]
    BY <1>4, <1>6, <1>7
  <1>10. Copies(new)'
    BY <1>3, <1>7, <1>8, <1>9 DEF Copies, CopyStderr, KeepFFmpeg, RingHas
  <1> QED
    BY <1>10 DEF AllIsCopied

\* When nothing waits, the ring gives the last lines of all.
LEMMA RingIsLast == ASSUME ProgressInv, stderr = <<>> PROVE Lines(ring) = LastLines
  <1>1. PICK at : Copies(at)
    BY DEF ProgressInv, AllIsCopied
  <1>2. /\ RingHas(ring, at[0]) /\ at[0] = [lines |-> ffmpeg.lines, inLine |-> ffmpeg.inLine]
        /\ at[0] \in [lines : Nat, inLine : BOOLEAN]
    BY <1>1 DEF Copies
  <1>3. at[0].lines = ffmpeg.lines /\ at[0].inLine = ffmpeg.inLine
    BY <1>2
  <1> QED
    BY <1>2, <1>3, LinesOfRing DEF LastLines

-----------------------------------------------------------------------------
(* Every step. *)

\* Nothing but the time ffmpeg is at and its reports matters to what is heard.
LEMMA HearsStill ==
    ASSUME AllIsHeard, UNCHANGED <<stdout, parser>>, ffmpeg'.up => ffmpeg.up,
           ffmpeg'.time = ffmpeg.time, ffmpeg'.said = ffmpeg.said
    PROVE  AllIsHeard'
  <1>1. PICK at : Hears(at)
    BY DEF AllIsHeard
  <1>2. Hears(at)'
    BY <1>1 DEF Hears
  <1> QED
    BY <1>2 DEF AllIsHeard

LEMMA CopiesStill ==
    ASSUME AllIsCopied, UNCHANGED <<stderr, ring>>,
           ffmpeg'.lines = ffmpeg.lines, ffmpeg'.inLine = ffmpeg.inLine
    PROVE  AllIsCopied'
  <1>1. PICK at : Copies(at)
    BY DEF AllIsCopied
  <1>2. Copies(at)'
    BY <1>1 DEF Copies, RingHas
  <1> QED
    BY <1>2 DEF AllIsCopied

LEMMA LineParts ==
    ASSUME NEW v \in Nat \union {NotANumber}
    PROVE  \A key \in Key :
              LineOf(key, v) \in Line /\ LineOf(key, v).key = key /\ LineOf(key, v).value = v
  <1> SUFFICES ASSUME NEW key \in Key
               PROVE  /\ LineOf(key, v) \in Line /\ LineOf(key, v).key = key
                      /\ LineOf(key, v).value = v
    OBVIOUS
  <1>1. LineOf(key, v) = [key |-> key, value |-> v]
    BY DEF LineOf
  <1> QED
    BY <1>1 DEF Line

LEMMA ReportsKeep == ASSUME ProgressInv, WriteTime \/ WriteBlock \/ Exits PROVE ProgressInv'
  <1>1. ProgressShaped /\ UNCHANGED <<parser, throttle, ring, run, stored, ticks, stderr>>
    BY DEF ProgressInv, WriteTime, WriteBlock, Exits, KeepRunner
  <1>2. ffmpeg.up /\ run.at = "parsing"
    BY DEF ProgressInv, Phases, WriteTime, WriteBlock, Exits
  <1>3. \/ /\ UNCHANGED stdout
           /\ ffmpeg' = [ffmpeg EXCEPT !.up = FALSE]
        \/ \E line \in Line :
              /\ stdout' = Append(stdout, line)
              /\ ffmpeg' \in [up : BOOLEAN, time : Nat, said : Nat, blocks : Nat,
                              inBlock : BOOLEAN, lines : Nat, inLine : BOOLEAN]
              /\ ffmpeg'.up => ffmpeg.up /\ ffmpeg'.time = Reads(ffmpeg.time, line)
              /\ IF line.key = "progress" THEN ffmpeg'.said = ffmpeg.time
                 ELSE ffmpeg'.said = ffmpeg.said /\ ffmpeg'.blocks = ffmpeg.blocks
              /\ ffmpeg'.lines = ffmpeg.lines /\ ffmpeg'.inLine = ffmpeg.inLine
    <2>1. CASE WriteTime
      <3>1. PICK v \in {ffmpeg.time + 1, NotANumber} :
               /\ stdout' = Append(stdout, LineOf("out_time_us", v))
               /\ ffmpeg' = [ffmpeg EXCEPT !.inBlock = TRUE,
                                           !.time = IF v = NotANumber THEN ffmpeg.time ELSE v]
        BY <2>1 DEF WriteTime
      <3> DEFINE line == LineOf("out_time_us", v)
                 time == IF v = NotANumber THEN ffmpeg.time ELSE v
      <3>2. ffmpeg.time \in Nat /\ ffmpeg.time + 1 \in Nat /\ time \in Nat
        BY <1>1 DEF ProgressShaped
      <3>3. line \in Line /\ line.key = "out_time_us" /\ Reads(ffmpeg.time, line) = time
        <4>1. line \in Line /\ line.key = "out_time_us" /\ line.value = v
          <5>1. v \in Nat \union {NotANumber} /\ "out_time_us" \in Key
            BY <3>2 DEF Key
          <5> QED
            BY <5>1, LineParts
        <4> HIDE DEF line
        <4> QED
          BY <4>1 DEF Reads
      <3> HIDE DEF line, time
      <3>4. ffmpeg' = [ffmpeg EXCEPT !.inBlock = TRUE, !.time = time]
        BY <3>1 DEF time
      <3>5. /\ ffmpeg' \in [up : BOOLEAN, time : Nat, said : Nat, blocks : Nat,
                            inBlock : BOOLEAN, lines : Nat, inLine : BOOLEAN]
            /\ ffmpeg'.up = ffmpeg.up /\ ffmpeg'.time = time /\ ffmpeg'.said = ffmpeg.said
            /\ ffmpeg'.blocks = ffmpeg.blocks /\ ffmpeg'.lines = ffmpeg.lines
            /\ ffmpeg'.inLine = ffmpeg.inLine
        BY <1>1, <3>2, <3>4 DEF ProgressShaped
      <3>6. stdout' = Append(stdout, line)
        BY <3>1 DEF line
      <3> QED
        BY <3>3, <3>5, <3>6
    <2>2. CASE WriteBlock
      <3> DEFINE line == LineOf("progress", 0)
      <3>1. line \in Line /\ line.key = "progress" /\ Reads(ffmpeg.time, line) = ffmpeg.time
        <4>1. line \in Line /\ line.key = "progress"
          <5>1. 0 \in Nat \union {NotANumber} /\ "progress" \in Key
            BY DEF Key
          <5> QED
            BY <5>1, LineParts
        <4> HIDE DEF line
        <4> QED
          BY <4>1 DEF Reads
      <3>2. PICK t \in Nat, n \in Nat :
               /\ t = ffmpeg.time
               /\ ffmpeg' = [ffmpeg EXCEPT !.inBlock = FALSE, !.said = t, !.blocks = n]
        <4>1. ffmpeg' = [ffmpeg EXCEPT !.inBlock = FALSE, !.said = ffmpeg.time,
                                       !.blocks = ffmpeg.blocks + 1]
          BY <2>2 DEF WriteBlock
        <4>2. ffmpeg.time \in Nat /\ ffmpeg.blocks + 1 \in Nat
          BY <1>1 DEF ProgressShaped
        <4> QED
          BY <4>1, <4>2
      <3>3. /\ ffmpeg' \in [up : BOOLEAN, time : Nat, said : Nat, blocks : Nat,
                            inBlock : BOOLEAN, lines : Nat, inLine : BOOLEAN]
            /\ ffmpeg'.up = ffmpeg.up /\ ffmpeg'.time = ffmpeg.time
            /\ ffmpeg'.said = ffmpeg.time /\ ffmpeg'.lines = ffmpeg.lines
            /\ ffmpeg'.inLine = ffmpeg.inLine
        BY <1>1, <3>2 DEF ProgressShaped
      <3>4. stdout' = Append(stdout, line)
        BY <2>2 DEF WriteBlock
      <3> HIDE DEF line
      <3> QED
        BY <3>1, <3>3, <3>4
    <2>3. CASE Exits
      <3>1. ffmpeg' = [ffmpeg EXCEPT !.up = FALSE]
        BY <2>3 DEF Exits
      <3>2. /\ ffmpeg' \in [up : BOOLEAN, time : Nat, said : Nat, blocks : Nat,
                            inBlock : BOOLEAN, lines : Nat, inLine : BOOLEAN]
            /\ ~ffmpeg'.up /\ ffmpeg'.said = ffmpeg.said /\ ffmpeg'.blocks = ffmpeg.blocks
            /\ ffmpeg'.lines = ffmpeg.lines /\ ffmpeg'.inLine = ffmpeg.inLine
        BY <1>1, <3>1 DEF ProgressShaped
      <3>3. /\ LineOf("out_time_us", 0) \in Line /\ LineOf("out_t", NotANumber) \in Line
            /\ LineOf("out_time_us", 0).key # "progress"
            /\ LineOf("out_t", NotANumber).key # "progress"
        <4>1. 0 \in Nat \union {NotANumber} /\ NotANumber \in Nat \union {NotANumber}
          OBVIOUS
        <4>2. /\ "out_time_us" # "progress" /\ "out_t" # "progress"
              /\ "out_time_us" \in Key /\ "out_t" \in Key
          BY DEF Key
        <4> QED
          BY <4>1, <4>2, LineParts
      <3>4. \/ UNCHANGED stdout
            \/ stdout' = Append(stdout, LineOf("out_time_us", 0))
            \/ stdout' = Append(stdout, LineOf("out_t", NotANumber))
        BY <2>3 DEF Exits
      <3> QED
        BY <3>1, <3>2, <3>3, <3>4
    <2> QED
      BY <2>1, <2>2, <2>3
  <1>4. CASE UNCHANGED stdout /\ ffmpeg' = [ffmpeg EXCEPT !.up = FALSE]
    <2>1. /\ ffmpeg' \in [up : BOOLEAN, time : Nat, said : Nat, blocks : Nat,
                          inBlock : BOOLEAN, lines : Nat, inLine : BOOLEAN]
          /\ ~ffmpeg'.up /\ ffmpeg'.time = ffmpeg.time /\ ffmpeg'.said = ffmpeg.said
          /\ ffmpeg'.blocks = ffmpeg.blocks /\ ffmpeg'.lines = ffmpeg.lines
          /\ ffmpeg'.inLine = ffmpeg.inLine
      BY <1>1, <1>4 DEF ProgressShaped
    <2>2. ProgressShaped'
      BY <1>1, <1>4, <2>1 DEF ProgressShaped
    <2>3. AllIsHeard' /\ AllIsCopied'
      BY <1>1, <1>4, <2>1, HearsStill, CopiesStill DEF ProgressInv
    <2>4. LastIsPassedOn' /\ HeldOrStored' /\ Phases'
      BY <1>1, <1>2, <1>4, <2>1 DEF ProgressInv, LastIsPassedOn, NoReportWaits, HeldOrStored,
         Phases
    <2> QED
      BY <2>2, <2>3, <2>4 DEF ProgressInv
  <1>5. ASSUME NEW line \in Line,
               /\ stdout' = Append(stdout, line)
               /\ ffmpeg' \in [up : BOOLEAN, time : Nat, said : Nat, blocks : Nat,
                               inBlock : BOOLEAN, lines : Nat, inLine : BOOLEAN]
               /\ ffmpeg'.up => ffmpeg.up /\ ffmpeg'.time = Reads(ffmpeg.time, line)
               /\ IF line.key = "progress" THEN ffmpeg'.said = ffmpeg.time
                  ELSE ffmpeg'.said = ffmpeg.said /\ ffmpeg'.blocks = ffmpeg.blocks
               /\ ffmpeg'.lines = ffmpeg.lines /\ ffmpeg'.inLine = ffmpeg.inLine
        PROVE  ProgressInv'
    <2>1. /\ stdout' \in Seq(Line) /\ Len(stdout') = Len(stdout) + 1 /\ Len(stdout) \in Nat
          /\ stdout'[Len(stdout) + 1] = line
          /\ \A i \in 1 .. Len(stdout) : stdout'[i] = stdout[i]
      BY <1>1, <1>5, AppendProperties, LenProperties DEF ProgressShaped
    <2>2. ProgressShaped'
      BY <1>1, <1>5, <2>1 DEF ProgressShaped
    <2>3. AllIsHeard' /\ AllIsCopied'
      BY <1>1, <1>2, <1>5, HearsMore, CopiesStill DEF ProgressInv
    <2>4. NoReportWaits' => line.key # "progress" /\ NoReportWaits
      <3> SUFFICES ASSUME NoReportWaits' PROVE line.key # "progress" /\ NoReportWaits
        OBVIOUS
      <3>1. \A i \in 1 .. Len(stdout) + 1 : stdout'[i].key # "progress"
        BY <2>1 DEF NoReportWaits
      <3> QED
        BY <2>1, <3>1 DEF NoReportWaits
    <2>5. LastIsPassedOn'
      BY <1>1, <1>5, <2>4 DEF ProgressInv, LastIsPassedOn
    <2>6. HeldOrStored' /\ Phases'
      BY <1>1, <1>2 DEF ProgressInv, HeldOrStored, Phases
    <2> QED
      BY <2>2, <2>3, <2>5, <2>6 DEF ProgressInv
  <1> QED
    BY <1>3, <1>4, <1>5

LEMMA LinesKeep == ASSUME ProgressInv, WriteText \/ WriteNewline PROVE ProgressInv'
  <1>1. /\ ProgressShaped /\ UNCHANGED <<parser, throttle, ring, run, stored, ticks, stdout>>
        /\ ffmpeg.up /\ run.at = "parsing"
    BY DEF ProgressInv, WriteText, WriteNewline, KeepRunner, Phases
  <1>2. \E piece \in Piece :
           /\ stderr' = Append(stderr, piece)
           /\ IF piece = "text"
              THEN ~ffmpeg.inLine /\ ffmpeg'.inLine /\ ffmpeg'.lines = ffmpeg.lines
              ELSE ffmpeg.inLine /\ ~ffmpeg'.inLine /\ ffmpeg'.lines = ffmpeg.lines + 1
    BY <1>1 DEF WriteText, WriteNewline, Piece, ProgressShaped
  <1>3. PICK piece \in Piece :
           /\ stderr' = Append(stderr, piece)
           /\ IF piece = "text"
              THEN ~ffmpeg.inLine /\ ffmpeg'.inLine /\ ffmpeg'.lines = ffmpeg.lines
              ELSE ffmpeg.inLine /\ ~ffmpeg'.inLine /\ ffmpeg'.lines = ffmpeg.lines + 1
    BY <1>2
  <1>4. /\ ffmpeg' \in [up : BOOLEAN, time : Nat, said : Nat, blocks : Nat, inBlock : BOOLEAN,
                        lines : Nat, inLine : BOOLEAN]
        /\ ffmpeg'.up = ffmpeg.up /\ ffmpeg'.time = ffmpeg.time /\ ffmpeg'.said = ffmpeg.said
        /\ ffmpeg'.blocks = ffmpeg.blocks
    <2>1. ffmpeg.lines + 1 \in Nat
      BY <1>1 DEF ProgressShaped
    <2>2. PICK n \in Nat, open \in BOOLEAN :
             \/ ffmpeg' = [ffmpeg EXCEPT !.inLine = open]
             \/ ffmpeg' = [ffmpeg EXCEPT !.inLine = open, !.lines = n]
      BY <2>1 DEF WriteText, WriteNewline
    <2> QED
      BY <1>1, <2>2 DEF ProgressShaped
  <1>5. stderr' \in Seq(Piece)
    BY <1>1, <1>3, AppendProperties DEF ProgressShaped
  <1>6. ProgressShaped'
    BY <1>1, <1>4, <1>5 DEF ProgressShaped
  <1>7. AllIsHeard' /\ AllIsCopied'
    BY <1>1, <1>3, <1>4, HearsStill, CopiesMore DEF ProgressInv
  <1>8. LastIsPassedOn' /\ HeldOrStored' /\ Phases'
    BY <1>1, <1>4 DEF ProgressInv, LastIsPassedOn, NoReportWaits, HeldOrStored, Phases
  <1> QED
    BY <1>6, <1>7, <1>8 DEF ProgressInv

\* What a store leaves in the row.
LEMMA StoreKeeps ==
    ASSUME ProgressShaped, ~stored.hasty, NEW out, Store(out),
           ~(throttle.last # Never /\ ticks - throttle.last < Interval /\ run.at = "parsing")
    PROVE  /\ stored' = [pct |-> stored'.pct, failed |-> stored'.failed, hasty |-> stored'.hasty]
           /\ ~stored'.hasty /\ (~stored'.failed => stored'.pct = Percent(out))
  <1> DEFINE hasty == stored.hasty \/ /\ throttle.last # Never
                                      /\ ticks - throttle.last < Interval
                                      /\ run.at = "parsing"
  <1>1. PICK failed \in BOOLEAN :
           stored' = [pct |-> IF failed THEN stored.pct ELSE Percent(out), failed |-> failed,
                      hasty |-> hasty]
    BY DEF Store
  <1>2. ~hasty
    OBVIOUS
  <1> HIDE DEF hasty
  <1> QED
    BY <1>1, <1>2

LEMMA ParseKeeps == ASSUME ProgressInv, ParseLine PROVE ProgressInv'
  <1> DEFINE line == Head(stdout)
  <1>1. /\ ProgressShaped /\ UNCHANGED <<ffmpeg, ticks, stderr, ring, run>>
        /\ run.at = "parsing" /\ stdout # <<>> /\ stdout' = Tail(stdout)
    BY DEF ProgressInv, ParseLine, KeepFFmpeg
  <1>2. /\ parser' \in [current : Nat, last : Nat]
        /\ parser'.current = Reads(parser.current, line)
        /\ parser'.last = IF line.key = "progress" THEN parser.current ELSE parser.last
    <2>1. line \in Line
      BY <1>1, HeadTailProperties DEF ProgressShaped
    <2>2. /\ line.value \in Nat \union {NotANumber}
          /\ parser = [current |-> parser.current, last |-> parser.last]
          /\ parser.current \in Nat /\ parser.last \in Nat
      BY <1>1, <2>1 DEF Line, ProgressShaped
    <2>3. CASE line.key = "progress"
      <3>1. parser' = [parser EXCEPT !.last = parser.current]
        BY <2>3 DEF ParseLine
      <3> QED
        BY <2>2, <2>3, <3>1 DEF Reads
    <2>4. CASE line.key = "out_time_us"
      <3>1. parser' = [parser EXCEPT !.current = IF line.value = NotANumber THEN parser.current
                                                 ELSE line.value]
        BY <2>4 DEF ParseLine
      <3> QED
        BY <2>2, <2>4, <3>1 DEF Reads
    <2>5. CASE line.key \notin {"progress", "out_time_us"}
      <3>1. parser' = parser
        BY <2>5 DEF ParseLine
      <3> QED
        BY <2>2, <2>5, <3>1 DEF Reads
    <2> QED
      BY <2>3, <2>4, <2>5
  <1>3. /\ AllIsHeard' /\ line \in Line
        /\ line.key = "progress" /\ NoReportWaits' => parser.current = ffmpeg.said
        /\ line.key # "progress" /\ NoReportWaits' => NoReportWaits
    BY <1>1, <1>2, HearsOn
  <1>4. AllIsCopied'
    BY <1>1, CopiesStill DEF ProgressInv
  <1>5. stdout' \in Seq(Line)
    BY <1>1, HeadTailProperties DEF ProgressShaped
  <1> HIDE DEF line
  <1>6. /\ throttle' \in [latest : Nat, pending : BOOLEAN, last : Nat \union {Never}]
        /\ stored' = [pct |-> stored'.pct, failed |-> stored'.failed, hasty |-> stored'.hasty]
        /\ HeldOrStored'
        /\ line.key = "progress" => throttle'.last # Never
        /\ throttle.last # Never => throttle'.last # Never
    <2>1. CASE line.key = "progress"
      <3> DEFINE out == parser.current
      <3>1. Update(out) /\ parser'.last = out /\ out \in Nat
        BY <1>1, <1>2, <2>1 DEF ParseLine, line, ProgressShaped
      <3> HIDE DEF out
      <3>2. CASE throttle.last # Never /\ ticks - throttle.last < Interval
        <4>1. throttle' = [throttle EXCEPT !.latest = out, !.pending = TRUE] /\ UNCHANGED stored
          BY <3>1, <3>2 DEF Update
        <4>2. /\ throttle' \in [latest : Nat, pending : BOOLEAN, last : Nat \union {Never}]
              /\ throttle'.latest = out /\ throttle'.pending /\ throttle'.last = throttle.last
          BY <1>1, <3>1, <4>1 DEF ProgressShaped
        <4>3. HeldOrStored'
          BY <3>1, <3>2, <4>1, <4>2 DEF ProgressInv, HeldOrStored
        <4> QED
          BY <1>1, <3>2, <4>1, <4>2, <4>3 DEF ProgressShaped
      <3>3. CASE ~(throttle.last # Never /\ ticks - throttle.last < Interval)
        <4>1. throttle' = [latest |-> out, pending |-> FALSE, last |-> ticks] /\ Store(out)
          BY <3>1, <3>3 DEF Update
        <4>2. /\ throttle' \in [latest : Nat, pending : BOOLEAN, last : Nat \union {Never}]
              /\ ~throttle'.pending /\ throttle'.last = ticks /\ ticks # Never
          BY <1>1, <3>1, <4>1, ProgressAssumption DEF ProgressShaped
        <4>3. /\ stored' = [pct |-> stored'.pct, failed |-> stored'.failed,
                            hasty |-> stored'.hasty]
              /\ ~stored'.hasty /\ (~stored'.failed => stored'.pct = Percent(out))
          BY <1>1, <3>3, <4>1, StoreKeeps DEF ProgressInv, HeldOrStored
        <4>4. HeldOrStored'
          BY <3>1, <4>2, <4>3 DEF HeldOrStored
        <4> QED
          BY <4>2, <4>3, <4>4
      <3> QED
        BY <3>2, <3>3
    <2>2. CASE line.key # "progress"
      <3>1. UNCHANGED <<throttle, stored>> /\ parser'.last = parser.last
        BY <1>2, <2>2 DEF ParseLine, line
      <3> QED
        BY <1>1, <2>2, <3>1 DEF ProgressInv, HeldOrStored, ProgressShaped
    <2> QED
      BY <2>1, <2>2
  <1>7. ProgressShaped'
    BY <1>1, <1>2, <1>5, <1>6 DEF ProgressShaped
  <1>8. LastIsPassedOn'
    BY <1>1, <1>2, <1>3, <1>6 DEF ProgressInv, LastIsPassedOn
  <1>9. Phases'
    BY <1>1 DEF ProgressInv, Phases
  <1> QED
    BY <1>3, <1>4, <1>6, <1>7, <1>8, <1>9 DEF ProgressInv

LEMMA ParseEndKeeps == ASSUME ProgressInv, ParseEnds PROVE ProgressInv'
  <1>1. /\ UNCHANGED <<ffmpeg, ticks, stdout, stderr, parser, throttle, ring, stored>>
        /\ stdout = <<>> /\ ~ffmpeg.up /\ run.at = "parsing"
        /\ run' = [run EXCEPT !.at = "waiting", !.finalOut = parser.last]
    BY DEF ParseEnds, KeepFFmpeg
  <1>2. /\ run' = [at |-> run'.at, finalOut |-> run'.finalOut, tail |-> run'.tail]
        /\ run'.at = "waiting" /\ run'.finalOut = parser.last
    BY <1>1 DEF ProgressInv, ProgressShaped
  <1>3. ProgressShaped' /\ LastIsPassedOn' /\ HeldOrStored' /\ Phases'
    BY <1>1, <1>2 DEF ProgressInv, ProgressShaped, LastIsPassedOn, NoReportWaits, HeldOrStored,
       Phases
  <1>4. AllIsHeard' /\ AllIsCopied'
    BY <1>1, HearsStill, CopiesStill DEF ProgressInv
  <1> QED
    BY <1>3, <1>4 DEF ProgressInv

LEMMA CopyKeeps == ASSUME ProgressInv, CopyStderr PROVE ProgressInv'
  <1>1. /\ UNCHANGED <<ffmpeg, ticks, stdout, parser, throttle, run, stored>>
        /\ stderr # <<>> /\ stderr' = Tail(stderr)
    BY DEF CopyStderr, KeepFFmpeg
  <1>2. stderr' \in Seq(Piece)
    BY <1>1, HeadTailProperties DEF ProgressInv, ProgressShaped
  <1>3. ProgressShaped' /\ LastIsPassedOn' /\ HeldOrStored' /\ Phases'
    BY <1>1, <1>2 DEF ProgressInv, ProgressShaped, LastIsPassedOn, NoReportWaits, HeldOrStored,
       Phases
  <1>4. AllIsHeard'
    BY <1>1, HearsStill DEF ProgressInv
  <1> QED
    BY <1>3, <1>4, CopiesOn DEF ProgressInv

LEMMA WaitKeeps == ASSUME ProgressInv, WaitEnds PROVE ProgressInv'
  <1>1. /\ UNCHANGED <<ffmpeg, ticks, stdout, stderr, parser, throttle, ring, stored>>
        /\ stderr = <<>> /\ ~ffmpeg.up /\ run.at = "waiting"
        /\ run' = [run EXCEPT !.at = "flush", !.tail = Lines(ring)]
    BY DEF WaitEnds, KeepFFmpeg
  <1>2. Lines(ring) = LastLines
    BY <1>1, RingIsLast
  <1>3. /\ run' = [at |-> run'.at, finalOut |-> run'.finalOut, tail |-> run'.tail]
        /\ run'.at = "flush" /\ run'.finalOut = run.finalOut /\ run'.tail = LastLines
    BY <1>1, <1>2 DEF ProgressInv, ProgressShaped
  <1>4. LastLines' = LastLines
    BY <1>1 DEF LastLines
  <1>5. Phases'
    BY <1>1, <1>3, <1>4 DEF ProgressInv, Phases
  <1>6. ProgressShaped' /\ LastIsPassedOn' /\ HeldOrStored'
    BY <1>1, <1>3 DEF ProgressInv, ProgressShaped, LastIsPassedOn, NoReportWaits, HeldOrStored
  <1>7. AllIsHeard' /\ AllIsCopied'
    BY <1>1, HearsStill, CopiesStill DEF ProgressInv
  <1> QED
    BY <1>5, <1>6, <1>7 DEF ProgressInv

LEMMA FlushKeeps == ASSUME ProgressInv, Flush PROVE ProgressInv'
  <1>1. /\ UNCHANGED <<ffmpeg, ticks, stdout, stderr, parser, ring>>
        /\ run.at = "flush" /\ run' = [run EXCEPT !.at = "over"]
        /\ IF throttle.pending
           THEN /\ Store(throttle.latest)
                /\ throttle' = [throttle EXCEPT !.pending = FALSE, !.last = ticks]
           ELSE UNCHANGED <<throttle, stored>>
    BY DEF Flush, KeepFFmpeg
  <1>2. /\ run' = [at |-> run'.at, finalOut |-> run'.finalOut, tail |-> run'.tail]
        /\ run'.at = "over" /\ run'.finalOut = run.finalOut /\ run'.tail = run.tail
    BY <1>1 DEF ProgressInv, ProgressShaped
  <1>3. /\ throttle' \in [latest : Nat, pending : BOOLEAN, last : Nat \union {Never}]
        /\ stored' = [pct |-> stored'.pct, failed |-> stored'.failed, hasty |-> stored'.hasty]
        /\ HeldOrStored' /\ ~throttle'.pending
        /\ throttle.last # Never => throttle'.last # Never
    <2>1. CASE throttle.pending
      <3>1. throttle.latest = parser.last /\ parser' = parser
        BY <1>1, <2>1 DEF ProgressInv, HeldOrStored
      <3>2. /\ stored' = [pct |-> stored'.pct, failed |-> stored'.failed, hasty |-> stored'.hasty]
            /\ ~stored'.hasty /\ (~stored'.failed => stored'.pct = Percent(parser.last))
        BY <1>1, <2>1, <3>1, StoreKeeps DEF ProgressInv, HeldOrStored
      <3>3. /\ throttle' \in [latest : Nat, pending : BOOLEAN, last : Nat \union {Never}]
            /\ ~throttle'.pending /\ throttle'.last = ticks /\ ticks # Never
        BY <1>1, <2>1, ProgressAssumption DEF ProgressInv, ProgressShaped
      <3>4. HeldOrStored'
        BY <3>1, <3>2, <3>3 DEF HeldOrStored
      <3> QED
        BY <3>2, <3>3, <3>4
    <2>2. CASE ~throttle.pending
      BY <1>1, <2>2 DEF ProgressInv, ProgressShaped, HeldOrStored
    <2> QED
      BY <2>1, <2>2
  <1>4. LastLines' = LastLines
    BY <1>1 DEF LastLines
  <1>5. Phases'
    BY <1>1, <1>2, <1>3, <1>4 DEF ProgressInv, Phases
  <1>6. ProgressShaped' /\ LastIsPassedOn'
    BY <1>1, <1>2, <1>3 DEF ProgressInv, ProgressShaped, LastIsPassedOn, NoReportWaits
  <1>7. AllIsHeard' /\ AllIsCopied'
    BY <1>1, HearsStill, CopiesStill DEF ProgressInv
  <1> QED
    BY <1>3, <1>5, <1>6, <1>7 DEF ProgressInv

LEMMA ProgressStep == ProgressInv /\ [ProgressNext]_progressVars => ProgressInv'
  <1> SUFFICES ASSUME ProgressInv, [ProgressNext]_progressVars PROVE ProgressInv'
    OBVIOUS
  <1>1. CASE /\ UNCHANGED <<ffmpeg, stdout, stderr, parser, throttle, ring, run, stored>>
             /\ ticks' \in {ticks, ticks + 1}
    <2>1. ProgressShaped' /\ LastIsPassedOn' /\ HeldOrStored'
      BY <1>1 DEF ProgressInv, ProgressShaped, LastIsPassedOn, NoReportWaits, HeldOrStored
    <2>2. Phases'
      <3>1. LastLines' = LastLines
        BY <1>1 DEF LastLines
      <3> QED
        BY <1>1, <3>1 DEF ProgressInv, Phases
    <2>3. AllIsHeard' /\ AllIsCopied'
      BY <1>1, HearsStill, CopiesStill DEF ProgressInv
    <2> QED
      BY <2>1, <2>2, <2>3 DEF ProgressInv
  <1>2. TimePasses \/ UNCHANGED progressVars => ProgressInv'
    BY <1>1 DEF TimePasses, progressVars
  <1> QED
    BY <1>2, ReportsKeep, LinesKeep, ParseKeeps, ParseEndKeeps, CopyKeeps, WaitKeeps, FlushKeeps
    DEF ProgressNext

\* However ffmpeg ends, the run's result has the time of its last whole report and the last
\* lines of stderr in their order, for any size of the ring and any number of lines, and the
\* row shows the last report unless the last store failed (runner.go, progress.go).
THEOREM NothingLost == ProgressSpec => []NothingIsLost
  <1>1. ProgressInv => NothingIsLost
    <2> SUFFICES ASSUME ProgressInv PROVE NothingIsLost
      OBVIOUS
    <2>1. ~stored.hasty
      BY DEF ProgressInv, HeldOrStored
    <2>2. ASSUME run.at = "over"
          PROVE  /\ run.finalOut = ffmpeg.said /\ run.tail = LastLines
                 /\ ffmpeg.blocks > 0 /\ ~stored.failed => stored.pct = Percent(ffmpeg.said)
      <3>1. /\ stdout = <<>> /\ run.finalOut = parser.last /\ run.tail = LastLines
            /\ ~throttle.pending
        BY <2>2 DEF ProgressInv, Phases
      <3>2. parser.last = ffmpeg.said /\ (ffmpeg.blocks > 0 => throttle.last # Never)
        BY <3>1 DEF ProgressInv, LastIsPassedOn, NoReportWaits
      <3>3. throttle.last # Never /\ ~stored.failed => stored.pct = Percent(parser.last)
        BY <3>1 DEF ProgressInv, HeldOrStored
      <3> QED
        BY <3>1, <3>2, <3>3
    <2> QED
      BY <2>1, <2>2 DEF NothingIsLost
  <1> QED
    BY <1>1, ProgressInitial, ProgressStep, PTL DEF ProgressSpec

-----------------------------------------------------------------------------
(* The schedule of the scans. *)

LEMMA GreatestOf ==
    ASSUME NEW a \in Int, NEW b \in Int, NEW S \in SUBSET (a .. b), S # {}
    PROVE  \E m \in S : \A n \in S : n <= m
  <1> DEFINE R == {ss \in Nat \X Nat : ss[1] < ss[2]}
             T == {b - m : m \in S}
  <1>1. IsWellFoundedOn(R, Nat)
    BY NatLessThanWellFounded DEF OpToRel
  <1>2. \A n \in Nat, m \in Nat : <<n, m>> \in R <=> n < m
    OBVIOUS
  <1>3. T \subseteq Nat /\ T # {}
    <2>1. ASSUME NEW n \in S PROVE b - n \in Nat
      OBVIOUS
    <2> QED
      BY <2>1
  <1>4. \A n \in S : b - n \in T /\ n \in Int
    OBVIOUS
  <1>5. \A k \in T : \E m \in S : k = b - m
    OBVIOUS
  <1> HIDE DEF R, T
  <1>6. PICK k \in T : \A n \in T : <<n, k>> \notin R
    BY <1>1, <1>3, WFMin
  <1>7. PICK m \in S : k = b - m
    BY <1>5
  <1>8. ASSUME NEW n \in S PROVE n <= m
    <2>1. b - n \in Nat /\ k \in Nat /\ ~(b - n < k)
      BY <1>2, <1>3, <1>4, <1>6
    <2> QED
      BY <1>4, <1>7, <2>1
  <1> QED
    BY <1>8

-----------------------------------------------------------------------------
(* Days, hours and minutes. *)

LEMMA Skips ==
    ASSUME NEW m \in Nat
    PROVE  /\ DayMinutes \in Nat \ {0} /\ MinutesPerHour <= DayMinutes
           /\ m < (DayOf(m) + 1) * DayMinutes /\ (DayOf(m) + 1) * DayMinutes <= m + DayMinutes
           /\ m < (m \div MinutesPerHour + 1) * MinutesPerHour
           /\ (m \div MinutesPerHour + 1) * MinutesPerHour <= m + DayMinutes
           /\ (DayOf(m) + 1) * DayMinutes \in Int
           /\ (m \div MinutesPerHour + 1) * MinutesPerHour \in Int
           /\ DayOf(m) \in Nat
           /\ HourOf(m) \in 0 .. (HoursPerDay - 1) /\ MinuteOf(m) \in 0 .. (MinutesPerHour - 1)
  <1>1. ASSUME NEW k \in Nat \ {0}
        PROVE  m \div k \in Nat /\ m < (m \div k + 1) * k /\ (m \div k + 1) * k <= m + k
    <2>1. PICK q \in Int, r \in Int : q = m \div k /\ r = m % k
      OBVIOUS
    <2>2. m = k * q + r /\ 0 <= r /\ r < k /\ 0 <= q
      BY <2>1
    <2>3. (q + 1) * k = k * q + k
      OBVIOUS
    <2> QED
      BY <2>1, <2>2, <2>3
  <1>2. DayMinutes \in Nat \ {0} /\ MinutesPerHour <= DayMinutes
    <2>1. ASSUME NEW a \in Nat \ {0}, NEW b \in Nat \ {0} PROVE a * b \in Nat \ {0} /\ a <= a * b
      OBVIOUS
    <2> QED
      BY <2>1, CalendarAssumption DEF DayMinutes
  <1>3. PICK a \in Nat \ {0}, b \in Nat \ {0}, c \in Nat \ {0} :
           a = MinutesPerHour /\ b = HoursPerDay /\ c = DayMinutes
    BY <1>2, CalendarAssumption
  <1>4. m \div c \in Nat /\ m < (m \div c + 1) * c /\ (m \div c + 1) * c <= m + c
    BY <1>1
  <1>5. m \div a \in Nat /\ m < (m \div a + 1) * a /\ (m \div a + 1) * a <= m + a
    BY <1>1
  <1>6. (m \div a + 1) * a <= m + c /\ (m \div a + 1) * a \in Int /\ (m \div c + 1) * c \in Int
    <2>1. PICK x \in Int : x = (m \div a + 1) * a
      BY <1>5
    <2> QED
      BY <1>2, <1>3, <1>4, <1>5, <2>1
  <1>7. (m \div a) % b \in 0 .. (b - 1) /\ m % a \in 0 .. (a - 1)
    BY <1>5
  <1> QED
    BY <1>2, <1>3, <1>4, <1>5, <1>6, <1>7 DEF DayOf, HourOf, MinuteOf

-----------------------------------------------------------------------------
(* The search for the next match. *)

\* What the search does at one minute, given what it finds at later ones.
Search(s, limit, f, m) ==
    IF m >= limit THEN NoTime
    ELSE IF ~MatchesDay(s, DayOf(m)) THEN f[(DayOf(m) + 1) * DayMinutes]
    ELSE IF HourOf(m) \notin s.hour
         THEN f[(m \div MinutesPerHour + 1) * MinutesPerHour]
    ELSE IF MinuteOf(m) \notin s.minute THEN f[m + 1]
    ELSE m

\* A minute the search may end at.
Matches(s, m) ==
    MatchesDay(s, DayOf(m)) /\ HourOf(m) \in s.hour /\ MinuteOf(m) \in s.minute

LEMMA SearchStep ==
    ASSUME NEW s, NEW limit \in Nat, NEW last, last = limit + DayMinutes, NEW m \in Nat, NEW f
    PROVE  /\ \/ Search(s, limit, f, m) = NoTime
              \/ Search(s, limit, f, m) = m /\ Matches(s, m)
              \/ \E k \in (m + 1) .. last : Search(s, limit, f, m) = f[k]
           /\ m < limit /\ Matches(s, m) => Search(s, limit, f, m) = m
           /\ \A g : (\A k \in (m + 1) .. last : f[k] = g[k])
                     => Search(s, limit, f, m) = Search(s, limit, g, m)
  <1>1. PICK c \in Nat \ {0} : c = DayMinutes
    BY Skips
  <1>2. PICK d, h, n :
           d = (DayOf(m) + 1) * DayMinutes /\ h = (m \div MinutesPerHour + 1) * MinutesPerHour
           /\ n = m + 1
    OBVIOUS
  <1>3. m < limit => /\ d \in (m + 1) .. last
                     /\ h \in (m + 1) .. last
                     /\ n \in (m + 1) .. last
    <2>1. m < d /\ d <= m + c /\ m < h /\ h <= m + c /\ d \in Int /\ h \in Int
      BY <1>1, <1>2, Skips
    <2> QED
      BY <1>1, <1>2, <2>1
  <1>4. \A e : Search(s, limit, e, m) =
                 IF m >= limit THEN NoTime
                 ELSE IF ~MatchesDay(s, DayOf(m)) THEN e[d]
                 ELSE IF HourOf(m) \notin s.hour THEN e[h]
                 ELSE IF MinuteOf(m) \notin s.minute THEN e[n]
                 ELSE m
    BY <1>2 DEF Search
  <1>5. m >= limit <=> ~(m < limit)
    OBVIOUS
  <1> QED
    BY <1>3, <1>4, <1>5 DEF Matches

\* A function the search defines, from one minute to its last.
Searches(s, limit, a, last, f) == f = [m \in a .. last |-> Search(s, limit, f, m)]

\* The search is defined at every minute from t on.
LEMMA SearchIsDefined ==
    ASSUME NEW s, NEW t \in Nat, NEW limit \in Nat, t <= limit,
           NEW last, last = limit + DayMinutes
    PROVE  \E f : Searches(s, limit, t, last, f)
  <1> DEFINE Good(k) == \E f : Searches(s, limit, k, last, f)
             Bad == {k \in t .. last : ~Good(k)}
  <1>1. last \in Nat /\ last >= limit
    BY Skips
  <1>2. Good(last)
    <2> DEFINE f == [m \in last .. last |-> NoTime]
    <2>1. \A g : Search(s, limit, g, last) = NoTime
      BY <1>1 DEF Search
    <2>2. f = [m \in last .. last |-> Search(s, limit, f, m)]
      <3>1. \A m \in last .. last : m = last
        BY <1>1
      <3> QED
        BY <2>1, <3>1
    <2> QED
      BY <2>2 DEF Searches
  <1>3. ASSUME NEW k \in t .. last, k # last, Good(k + 1) PROVE Good(k)
    <2>1. PICK f : f = [m \in (k + 1) .. last |-> Search(s, limit, f, m)]
      BY <1>3 DEF Searches
    <2> DEFINE g == [m \in k .. last |-> IF m = k THEN Search(s, limit, f, k) ELSE f[m]]
    <2>2. \A m \in (k + 1) .. last : f[m] = g[m]
      BY <1>1
    <2>3. ASSUME NEW m \in k .. last PROVE Search(s, limit, f, m) = Search(s, limit, g, m)
      <3>1. m \in Nat /\ \A x \in (m + 1) .. last : f[x] = g[x]
        BY <1>1, <2>2
      <3> HIDE DEF g
      <3> QED
        BY <3>1, SearchStep
    <2>4. \A m \in k .. last : g[m] = Search(s, limit, f, m)
      <3>1. \A m \in k .. last : m # k => m \in (k + 1) .. last
        BY <1>1
      <3> QED
        BY <2>1, <3>1
    <2>5. g = [m \in k .. last |-> Search(s, limit, g, m)]
      <3>1. g = [m \in k .. last |-> g[m]]
        OBVIOUS
      <3> HIDE DEF g
      <3> QED
        BY <2>3, <2>4, <3>1
    <2> HIDE DEF g
    <2> QED
      BY <2>5 DEF Searches
  <1>4. Bad = {}
    <2> SUFFICES ASSUME Bad # {} PROVE FALSE
      OBVIOUS
    <2>1. PICK k \in Bad : \A n \in Bad : n <= k
      <3>1. Bad \in SUBSET (t .. last) /\ t \in Int /\ last \in Int
        BY <1>1
      <3> HIDE DEF Bad
      <3> QED
        BY <3>1, GreatestOf
    <2>2. k \in t .. last /\ ~Good(k)
      OBVIOUS
    <2> HIDE DEF Good
    <2>3. k # last
      BY <1>2, <2>2
    <2>4. k + 1 \in t .. last /\ k + 1 \notin Bad
      BY <1>1, <2>1, <2>2, <2>3
    <2>5. Good(k + 1)
      BY <2>4
    <2> QED
      BY <1>3, <2>2, <2>3, <2>5
  <1>5. t \in t .. last
    BY <1>1
  <1> HIDE DEF Good
  <1>6. Good(t)
    BY <1>4, <1>5
  <1> QED
    BY <1>6 DEF Good

\* The search ends at a match after t, or finds none; and it finds the next minute if
\* that one matches (cron.go Next).
LEMMA NextIsFound ==
    ASSUME NEW s, NEW t \in Nat
    PROVE  /\ NextMatch(s, t) # NoTime =>
                 /\ NextMatch(s, t) \in Nat /\ NextMatch(s, t) > t
                 /\ Matches(s, NextMatch(s, t))
           /\ Matches(s, t + 1) => NextMatch(s, t) = t + 1
  <1>1. PICK limit \in Nat : limit = t + SearchDays * DayMinutes /\ t + 1 < limit
    <2>1. PICK x \in Int : x = SearchDays * DayMinutes /\ x > 1
      BY SearchAssumption, Skips
    <2> QED
      BY <2>1
  <1>2. PICK last \in Nat : last = limit + DayMinutes /\ last >= limit
    BY Skips
  <1> DEFINE G == CHOOSE g : g = [m \in t .. last |-> Search(s, limit, g, m)]
  <1>3. G = [m \in t .. last |-> Search(s, limit, G, m)]
    <2>1. PICK g : Searches(s, limit, t, last, g)
      <3>1. t <= limit /\ last = limit + DayMinutes
        BY <1>1, <1>2
      <3> HIDE DEF G
      <3> QED
        BY <3>1, SearchIsDefined
    <2>2. g = [m \in t .. last |-> Search(s, limit, g, m)]
      BY <2>1 DEF Searches
    <2> QED
      BY <2>2
  <1>4. NextMatch(s, t) = G[t + 1]
    BY <1>1, <1>2 DEF NextMatch, Search
  <1> HIDE DEF G
  <1>5. \A m \in t .. last : m \in Nat /\ G[m] = Search(s, limit, G, m)
    BY <1>3
  <1> DEFINE Ends(m) == G[m] = NoTime \/ (G[m] \in Nat /\ G[m] >= m /\ Matches(s, G[m]))
             Bad == {m \in t .. last : ~Ends(m)}
  <1>6. Bad = {}
    <2> SUFFICES ASSUME Bad # {} PROVE FALSE
      OBVIOUS
    <2>1. PICK m \in Bad : \A n \in Bad : n <= m
      <3>1. Bad \in SUBSET (t .. last) /\ t \in Int /\ last \in Int
        BY <1>1, <1>2
      <3> HIDE DEF Bad
      <3> QED
        BY <3>1, GreatestOf
    <2>2. m \in t .. last /\ ~Ends(m)
      OBVIOUS
    <2>3. m \in Nat /\ G[m] = Search(s, limit, G, m) /\ m >= m
      BY <1>2, <1>5, <2>2
    <2>4. PICK k \in (m + 1) .. last : G[m] = G[k]
      <3>1. \/ Search(s, limit, G, m) = NoTime
            \/ Search(s, limit, G, m) = m /\ Matches(s, m)
            \/ \E k \in (m + 1) .. last : Search(s, limit, G, m) = G[k]
        BY <1>2, <2>3, SearchStep
      <3> QED
        BY <2>2, <2>3, <3>1
    <2>5. k \in t .. last /\ ~(k <= m) /\ k \in Nat /\ k >= m
      BY <1>2, <2>3, <2>4
    <2>6. Ends(k)
      BY <2>1, <2>5
    <2>7. G[k] \in Nat /\ G[k] >= k => G[k] >= m
      BY <2>3, <2>5
    <2> QED
      BY <2>2, <2>4, <2>6, <2>7
  <1>7. t + 1 \in t .. last
    BY <1>1, <1>2
  <1>8. Ends(t + 1)
    BY <1>6, <1>7
  <1>9. G[t + 1] \in Nat /\ G[t + 1] >= t + 1 => G[t + 1] > t
    OBVIOUS
  <1>10. Matches(s, t + 1) => G[t + 1] = t + 1
    <2>1. t + 1 < limit /\ Matches(s, t + 1) => Search(s, limit, G, t + 1) = t + 1
      <3>1. t + 1 \in Nat
        OBVIOUS
      <3> QED
        BY <1>2, <3>1, SearchStep
    <2> QED
      BY <1>1, <1>5, <1>7, <2>1
  <1> QED
    BY <1>4, <1>8, <1>9, <1>10

\* The numbers up to the next multiple of k have the same quotient.
LEMMA SameQuotient ==
    ASSUME NEW k \in Nat \ {0}, NEW m \in Nat, NEW j \in Nat, m <= j, j < (m \div k + 1) * k
    PROVE  j \div k = m \div k
  <1>1. PICK q \in Int, r \in Int :
           q = m \div k /\ m = k * q + r /\ 0 <= r /\ r < k /\ 0 <= q
    <2>1. PICK z \in Int, u \in Int : z = m \div k /\ u = m % k
      OBVIOUS
    <2>2. m = k * z + u /\ 0 <= u /\ u < k /\ 0 <= z
      BY <2>1
    <2> QED
      BY <2>1, <2>2
  <1>2. PICK p \in Int, x \in Int :
           p = j \div k /\ j = k * p + x /\ 0 <= x /\ x < k /\ 0 <= p
    <2>1. PICK z \in Int, u \in Int : z = j \div k /\ u = j % k
      OBVIOUS
    <2>2. j = k * z + u /\ 0 <= u /\ u < k /\ 0 <= z
      BY <2>1
    <2> QED
      BY <2>1, <2>2
  <1>3. ASSUME NEW a \in Nat, NEW b \in Nat, a < b PROVE k * a + k <= k * b
    <2>1. PICK e \in Nat : b = a + 1 + e
      <3>1. b - a - 1 \in Nat /\ b = a + 1 + (b - a - 1)
        BY <1>3
      <3> QED
        BY <3>1
    <2>2. k * b = k * a + k + k * e /\ k * e >= 0 /\ k * a \in Int /\ k * e \in Int
      BY <2>1
    <2> QED
      BY <2>2
  <1>4. k * q \in Int /\ k * p \in Int /\ (q + 1) * k = k * q + k
    OBVIOUS
  <1>5. ~(p < q)
    <2>1. SUFFICES ASSUME p < q PROVE FALSE
      OBVIOUS
    <2>2. k * p + k <= k * q
      BY <1>1, <1>2, <1>3, <2>1
    <2> QED
      BY <1>1, <1>2, <1>4, <2>2
  <1>6. ~(q < p)
    <2>1. SUFFICES ASSUME q < p PROVE FALSE
      OBVIOUS
    <2>2. k * q + k <= k * p
      BY <1>1, <1>2, <1>3, <2>1
    <2> QED
      BY <1>1, <1>2, <1>4, <2>2
  <1> QED
    BY <1>1, <1>2, <1>5, <1>6

\* What a step of the search passes over cannot match.
LEMMA PassesOver ==
    ASSUME NEW s, NEW limit \in Nat, NEW last, last = limit + DayMinutes, NEW m \in Nat, NEW f
    PROVE  \/ m >= limit /\ Search(s, limit, f, m) = NoTime
           \/ m < limit /\ Search(s, limit, f, m) = m /\ Matches(s, m)
           \/ /\ m < limit
              /\ \E k \in (m + 1) .. last :
                    /\ Search(s, limit, f, m) = f[k]
                    /\ \A j \in m .. (k - 1) : ~Matches(s, j)
  <1>1. PICK c \in Nat \ {0}, a \in Nat \ {0} : c = DayMinutes /\ a = MinutesPerHour
    BY Skips, CalendarAssumption
  <1>2. PICK d \in Int, h \in Int :
           d = (DayOf(m) + 1) * DayMinutes /\ h = (m \div MinutesPerHour + 1) * MinutesPerHour
    BY Skips
  <1>3. m < limit => /\ d \in (m + 1) .. last
                     /\ h \in (m + 1) .. last
                     /\ m + 1 \in (m + 1) .. last
    <2>1. m < d /\ d <= m + c /\ m < h /\ h <= m + c
      BY <1>1, <1>2, Skips
    <2> QED
      BY <1>1, <1>2, <2>1
  <1>4. Search(s, limit, f, m) =
           IF m >= limit THEN NoTime
           ELSE IF ~MatchesDay(s, DayOf(m)) THEN f[d]
           ELSE IF HourOf(m) \notin s.hour THEN f[h]
           ELSE IF MinuteOf(m) \notin s.minute THEN f[m + 1]
           ELSE m
    BY <1>2 DEF Search
  <1>5. ASSUME NEW j \in m .. (d - 1) PROVE DayOf(j) = DayOf(m)
    <2>1. j \in Nat /\ m <= j /\ j < (m \div c + 1) * c
      BY <1>1, <1>2 DEF DayOf
    <2> QED
      BY <1>1, <2>1, SameQuotient DEF DayOf
  <1>6. ASSUME NEW j \in m .. (h - 1) PROVE HourOf(j) = HourOf(m)
    <2>1. j \in Nat /\ m <= j /\ j < (m \div a + 1) * a
      BY <1>1, <1>2
    <2>2. j \div a = m \div a
      BY <2>1, SameQuotient
    <2> QED
      BY <1>1, <2>2 DEF HourOf
  <1>7. CASE m >= limit
    BY <1>4, <1>7
  <1>8. CASE m < limit /\ ~MatchesDay(s, DayOf(m))
    <2>1. Search(s, limit, f, m) = f[d]
      BY <1>4, <1>8
    <2>2. \A j \in m .. (d - 1) : ~Matches(s, j)
      BY <1>5, <1>8 DEF Matches
    <2> QED
      BY <1>3, <1>8, <2>1, <2>2
  <1>9. CASE m < limit /\ MatchesDay(s, DayOf(m)) /\ HourOf(m) \notin s.hour
    <2>1. Search(s, limit, f, m) = f[h]
      BY <1>4, <1>9
    <2>2. \A j \in m .. (h - 1) : ~Matches(s, j)
      BY <1>6, <1>9 DEF Matches
    <2> QED
      BY <1>3, <1>9, <2>1, <2>2
  <1>10. CASE /\ m < limit /\ MatchesDay(s, DayOf(m)) /\ HourOf(m) \in s.hour
              /\ MinuteOf(m) \notin s.minute
    <2>1. Search(s, limit, f, m) = f[m + 1]
      BY <1>4, <1>10
    <2>2. \A j \in m .. (m + 1 - 1) : j = m
      OBVIOUS
    <2>3. \A j \in m .. (m + 1 - 1) : ~Matches(s, j)
      BY <1>10, <2>2 DEF Matches
    <2> QED
      BY <1>3, <1>10, <2>1, <2>3
  <1>11. CASE m < limit /\ Matches(s, m)
    BY <1>4, <1>11 DEF Matches
  <1> QED
    BY <1>7, <1>8, <1>9, <1>10, <1>11 DEF Matches

\* The search finds the first match within its reach, and none only if there is none:
\* no skip over a day or an hour jumps over a minute that matches.
LEMMA NextIsFirst ==
    ASSUME NEW s, NEW t \in Nat
    PROVE  /\ NextMatch(s, t) # NoTime =>
                 /\ NextMatch(s, t) \in (t + 1) .. (t + SearchDays * DayMinutes - 1)
                 /\ Matches(s, NextMatch(s, t))
                 /\ \A j \in (t + 1) .. (NextMatch(s, t) - 1) : ~Matches(s, j)
           /\ NextMatch(s, t) = NoTime =>
                 \A j \in (t + 1) .. (t + SearchDays * DayMinutes - 1) : ~Matches(s, j)
  <1>1. PICK limit \in Nat : /\ limit = t + SearchDays * DayMinutes /\ t + 1 < limit
                             /\ limit - 1 = t + SearchDays * DayMinutes - 1
    <2>1. PICK x \in Int : x = SearchDays * DayMinutes /\ x > 1
      BY SearchAssumption, Skips
    <2> QED
      BY <2>1
  <1>2. PICK last \in Nat : last = limit + DayMinutes /\ last >= limit
    BY Skips
  <1> DEFINE G == CHOOSE g : g = [m \in t .. last |-> Search(s, limit, g, m)]
  <1>3. G = [m \in t .. last |-> Search(s, limit, G, m)]
    <2>1. PICK g : Searches(s, limit, t, last, g)
      <3>1. t <= limit /\ last = limit + DayMinutes
        BY <1>1, <1>2
      <3> HIDE DEF G
      <3> QED
        BY <3>1, SearchIsDefined
    <2>2. g = [m \in t .. last |-> Search(s, limit, g, m)]
      BY <2>1 DEF Searches
    <2> QED
      BY <2>2
  <1>4. NextMatch(s, t) = G[t + 1]
    BY <1>1, <1>2 DEF NextMatch, Search
  <1> HIDE DEF G
  <1>5. \A m \in t .. last : m \in Nat /\ G[m] = Search(s, limit, G, m)
    BY <1>3
  <1> DEFINE First(m) ==
        \/ /\ G[m] \in m .. (limit - 1) /\ Matches(s, G[m])
           /\ \A j \in m .. (G[m] - 1) : ~Matches(s, j)
        \/ G[m] = NoTime /\ \A j \in m .. (limit - 1) : ~Matches(s, j)
             Bad == {m \in t .. last : ~First(m)}
  <1>6. Bad = {}
    <2> SUFFICES ASSUME Bad # {} PROVE FALSE
      OBVIOUS
    <2>1. PICK m \in Bad : \A n \in Bad : n <= m
      <3>1. Bad \in SUBSET (t .. last) /\ t \in Int /\ last \in Int
        BY <1>1, <1>2
      <3> HIDE DEF Bad
      <3> QED
        BY <3>1, GreatestOf
    <2>2. m \in t .. last /\ ~First(m) /\ m \in Nat /\ G[m] = Search(s, limit, G, m)
      BY <1>5
    <2>3. CASE m >= limit /\ G[m] = NoTime
      <3>1. \A j \in m .. (limit - 1) : FALSE
        BY <2>2, <2>3
      <3> QED
        BY <2>2, <2>3, <3>1
    <2>4. CASE m < limit /\ G[m] = m /\ Matches(s, m)
      <3>1. G[m] \in m .. (limit - 1) /\ \A j \in m .. (G[m] - 1) : FALSE
        BY <2>2, <2>4
      <3> QED
        BY <2>2, <2>4, <3>1
    <2>5. ASSUME m < limit, NEW k \in (m + 1) .. last, G[m] = G[k],
                 \A j \in m .. (k - 1) : ~Matches(s, j)
          PROVE  FALSE
      <3>1. k \in t .. last /\ ~(k <= m) /\ k \in Nat
        BY <2>2
      <3>2. First(k)
        BY <2>1, <3>1
      <3>3. CASE /\ G[k] \in k .. (limit - 1) /\ Matches(s, G[k])
                 /\ \A j \in k .. (G[k] - 1) : ~Matches(s, j)
        <4>1. G[m] \in m .. (limit - 1)
          BY <2>2, <2>5, <3>1, <3>3
        <4>2. \A j \in m .. (G[m] - 1) : j \in m .. (k - 1) \/ j \in k .. (G[k] - 1)
          BY <2>2, <2>5, <3>1, <3>3
        <4> QED
          BY <2>2, <2>5, <3>3, <4>1, <4>2
      <3>4. CASE G[k] = NoTime /\ \A j \in k .. (limit - 1) : ~Matches(s, j)
        <4>1. \A j \in m .. (limit - 1) : j \in m .. (k - 1) \/ j \in k .. (limit - 1)
          BY <2>2, <3>1
        <4> QED
          BY <2>2, <2>5, <3>4, <4>1
      <3> QED
        BY <3>2, <3>3, <3>4
    <2> QED
      <3> HIDE DEF First, Bad
      <3> QED
        BY <1>2, <2>2, <2>3, <2>4, <2>5, PassesOver
  <1>7. t + 1 \in t .. last
    BY <1>1, <1>2
  <1>8. First(t + 1)
    BY <1>6, <1>7
  <1>9. PICK n, hi : n = NextMatch(s, t) /\ n = G[t + 1] /\ hi = limit - 1
                     /\ hi = t + SearchDays * DayMinutes - 1
    BY <1>1, <1>4
  <1>10. \/ /\ n \in (t + 1) .. hi /\ Matches(s, n)
            /\ \A j \in (t + 1) .. (n - 1) : ~Matches(s, j)
         \/ n = NoTime /\ \A j \in (t + 1) .. hi : ~Matches(s, j)
    <2>1. \/ /\ G[t + 1] \in (t + 1) .. (limit - 1) /\ Matches(s, G[t + 1])
             /\ \A j \in (t + 1) .. (G[t + 1] - 1) : ~Matches(s, j)
          \/ G[t + 1] = NoTime /\ \A j \in (t + 1) .. (limit - 1) : ~Matches(s, j)
      BY <1>8
    <2>2. n = G[t + 1] /\ hi = limit - 1
      BY <1>9
    <2> HIDE DEF First, Bad
    <2> QED
      BY <2>1, <2>2
  <1>11. NoTime \notin (t + 1) .. hi
    BY <1>9 DEF NoTime
  <1> QED
    BY <1>9, <1>10, <1>11

-----------------------------------------------------------------------------
(* What an expression says. *)

\* A part read number by number, its numbers counted from the field's first.
LEMMA PartMeans ==
    ASSUME NEW min \in Int, NEW max \in Int, NEW p \in CronPart, PartFits(p, min, max),
           NEW v \in min .. max, NEW q, q.star = p.star, q.lo = p.lo - min, q.hi = p.hi - min,
           q.step = p.step
    PROVE  v \in PartValues(p, min, max) <=> PartSays(q, v - min)
  <1>1. PICK lo \in Int, hi \in Int, n \in Int :
           p.star \in BOOLEAN /\ lo = p.lo /\ hi = p.hi /\ n = p.step
    BY DEF CronPart
  <1>2. n >= 0 /\ (p.star \/ (min <= lo /\ lo <= hi /\ hi <= max))
    BY <1>1 DEF PartFits
  <1>3. CASE p.star
    <2>1. v \in PartValues(p, min, max) <=> n = 0 \/ (v - min) % n = 0
      BY <1>1, <1>3 DEF PartValues, PartLast
    <2>2. PartSays(q, v - min) <=> n = 0 \/ (v - min) % n = 0
      BY <1>1, <1>3 DEF PartSays
    <2> QED
      BY <2>1, <2>2
  <1>4. CASE ~p.star
    <2>1. PICK last \in Int : last = IF n # 0 /\ lo = hi THEN max ELSE hi
      BY <1>1
    <2>2. v \in PartValues(p, min, max) <=>
             lo <= v /\ v <= last /\ (n = 0 \/ (v - lo) % n = 0)
      BY <1>1, <1>4, <2>1 DEF PartValues, PartLast
    <2>3. (v - min) - q.lo = v - lo
      BY <1>1
    <2>4. /\ v - min = q.lo <=> v = lo
          /\ q.lo < v - min <=> lo < v
          /\ v - min <= q.hi <=> v <= hi
          /\ q.lo = q.hi <=> lo = hi
          /\ v - min > q.lo <=> lo < v
      BY <1>1
    <2>5. PartSays(q, v - min) <=>
             \/ v = lo
             \/ lo < v /\ v <= hi /\ (n = 0 \/ (v - lo) % n = 0)
             \/ lo = hi /\ n # 0 /\ lo < v /\ (v - lo) % n = 0
      BY <1>1, <1>4, <2>3, <2>4 DEF PartSays
    <2>6. v = lo => (n = 0 \/ (v - lo) % n = 0)
      <3>1. ASSUME NEW k \in Nat \ {0} PROVE 0 % k = 0
        OBVIOUS
      <3> QED
        BY <1>2, <3>1
    <2> QED
      BY <1>2, <1>4, <2>1, <2>2, <2>5, <2>6
  <1> QED
    BY <1>1, <1>3, <1>4

LEMMA FieldMeans ==
    ASSUME NEW max \in Int, NEW f \in SUBSET CronPart
    PROVE  /\ FieldFits(f, 0, max) =>
                 \A v \in 0 .. max : v \in FieldValues(f, 0, max) <=> FieldSays(f, v)
           /\ FieldFits(f, 1, max) =>
                 \A v \in 1 .. max : v \in FieldValues(f, 1, max) <=> FieldSays(FromOne(f), v - 1)
  <1>1. ASSUME FieldFits(f, 0, max), NEW v \in 0 .. max
        PROVE  v \in FieldValues(f, 0, max) <=> FieldSays(f, v)
    <2>1. ASSUME NEW p \in f PROVE v \in PartValues(p, 0, max) <=> PartSays(p, v)
      <3>1. p \in CronPart /\ PartFits(p, 0, max) /\ p.lo \in Int /\ p.hi \in Int
        BY <1>1 DEF FieldFits, CronPart
      <3>2. p.lo = p.lo - 0 /\ p.hi = p.hi - 0 /\ v - 0 = v
        BY <3>1
      <3>3. v \in PartValues(p, 0, max) <=> PartSays(p, v - 0)
        BY <3>1, <3>2, PartMeans
      <3> QED
        BY <3>2, <3>3
    <2> QED
      BY <2>1 DEF FieldValues, FieldSays
  <1>2. ASSUME FieldFits(f, 1, max), NEW v \in 1 .. max
        PROVE  v \in FieldValues(f, 1, max) <=> FieldSays(FromOne(f), v - 1)
    <2> DEFINE Q(p) == [p EXCEPT !.lo = @ - 1, !.hi = @ - 1]
    <2>1. ASSUME NEW p \in f PROVE v \in PartValues(p, 1, max) <=> PartSays(Q(p), v - 1)
      <3>1. p \in CronPart /\ PartFits(p, 1, max)
        BY <1>2 DEF FieldFits
      <3>2. PICK q : q = Q(p)
        OBVIOUS
      <3>3. q.star = p.star /\ q.lo = p.lo - 1 /\ q.hi = p.hi - 1 /\ q.step = p.step
        BY <3>1, <3>2 DEF CronPart
      <3>4. v \in PartValues(p, 1, max) <=> PartSays(q, v - 1)
        BY <3>1, <3>3, PartMeans
      <3> QED
        BY <3>2, <3>4
    <2>2. FromOne(f) = {Q(p) : p \in f}
      BY DEF FromOne
    <2>3. FieldSays(FromOne(f), v - 1) <=> \E p \in f : PartSays(Q(p), v - 1)
      <3> HIDE DEF Q
      <3> QED
        BY <2>2 DEF FieldSays
    <2> HIDE DEF Q
    <2> QED
      BY <2>1, <2>3 DEF FieldValues
  <1> QED
    BY <1>1, <1>2

\* A minute of the calendar matches what was parsed of an expression exactly if the
\* expression says it, read field by field and number by number.
LEMMA ParsedMeans ==
    ASSUME NEW cron \in Crons, Readable(cron), NEW m \in Nat, DayOf(m) \in DOMAIN Calendar
    PROVE  Matches(ParseCron(cron), m) <=> CronSays(cron, m)
  <1>1. PICK minute, hour, dom, month, dow :
           /\ minute = cron.minute /\ hour = cron.hour /\ dom = cron.dom /\ month = cron.month
           /\ dow = cron.dow
           /\ minute \in SUBSET CronPart /\ hour \in SUBSET CronPart /\ dom \in SUBSET CronPart
           /\ month \in SUBSET CronPart /\ dow \in SUBSET CronPart
    BY CronsAssumption
  <1>2. /\ FieldFits(minute, 0, MinutesPerHour - 1) /\ FieldFits(hour, 0, HoursPerDay - 1)
        /\ FieldFits(dom, 1, MonthDays) /\ FieldFits(month, 1, YearMonths)
        /\ FieldFits(dow, 0, WeekDays)
    BY <1>1 DEF Readable
  <1>3. PICK date : /\ date = Calendar[DayOf(m)]
                    /\ date.dom \in 1 .. MonthDays /\ date.month \in 1 .. YearMonths
                    /\ date.dow \in 0 .. (WeekDays - 1)
    BY CalendarAssumption
  <1>4. PICK s : s = ParseCron(cron)
    OBVIOUS
  <1>5. /\ s.minute = FieldValues(minute, 0, MinutesPerHour - 1)
        /\ s.hour = FieldValues(hour, 0, HoursPerDay - 1)
        /\ s.dom = FieldValues(dom, 1, MonthDays) /\ s.month = FieldValues(month, 1, YearMonths)
        /\ s.dow = IF WeekDays \in FieldValues(dow, 0, WeekDays)
                   THEN FieldValues(dow, 0, WeekDays) \union {0} ELSE FieldValues(dow, 0, WeekDays)
        /\ s.domRestricted = Restricted(dom) /\ s.dowRestricted = Restricted(dow)
    BY <1>1, <1>4 DEF ParseCron
  <1>6. MinuteOf(m) \in s.minute <=> FieldSays(minute, MinuteOf(m))
    <2>1. MinuteOf(m) \in 0 .. (MinutesPerHour - 1) /\ MinutesPerHour - 1 \in Int
      BY Skips, CalendarAssumption
    <2> QED
      BY <1>1, <1>2, <1>5, <2>1, FieldMeans
  <1>7. HourOf(m) \in s.hour <=> FieldSays(hour, HourOf(m))
    <2>1. HourOf(m) \in 0 .. (HoursPerDay - 1) /\ HoursPerDay - 1 \in Int
      BY Skips, CalendarAssumption
    <2> QED
      BY <1>1, <1>2, <1>5, <2>1, FieldMeans
  <1>8. date.dom \in s.dom <=> FieldSays(FromOne(dom), date.dom - 1)
    BY <1>1, <1>2, <1>3, <1>5, FieldMeans, CalendarAssumption
  <1>9. date.month \in s.month <=> FieldSays(FromOne(month), date.month - 1)
    BY <1>1, <1>2, <1>3, <1>5, FieldMeans, CalendarAssumption
  <1>10. date.dow \in s.dow <=>
            FieldSays(dow, date.dow) \/ (date.dow = 0 /\ FieldSays(dow, WeekDays))
    <2>1. WeekDays \in 0 .. WeekDays /\ date.dow \in 0 .. WeekDays /\ WeekDays \in Int
      BY <1>3, CalendarAssumption
    <2>2. /\ WeekDays \in FieldValues(dow, 0, WeekDays) <=> FieldSays(dow, WeekDays)
          /\ date.dow \in FieldValues(dow, 0, WeekDays) <=> FieldSays(dow, date.dow)
      BY <1>1, <1>2, <2>1, FieldMeans
    <2> QED
      BY <1>5, <2>2
  <1>11. /\ s.domRestricted <=> ~AllStars(dom)
         /\ s.dowRestricted <=> ~AllStars(dow)
    BY <1>5 DEF Restricted, AllStars
  <1> DEFINE D == FieldSays(FromOne(dom), date.dom - 1)
             W == FieldSays(dow, date.dow) \/ (date.dow = 0 /\ FieldSays(dow, WeekDays))
  <1>12. CronSays(cron, m) <=>
            /\ FieldSays(minute, MinuteOf(m)) /\ FieldSays(hour, HourOf(m))
            /\ FieldSays(FromOne(month), date.month - 1)
            /\ \/ D /\ W
               \/ D /\ ~AllStars(dom) /\ ~AllStars(dow)
               \/ W /\ ~AllStars(dom) /\ ~AllStars(dow)
    BY <1>1, <1>3 DEF CronSays
  <1>13. Matches(s, m) <=>
            /\ MinuteOf(m) \in s.minute /\ HourOf(m) \in s.hour /\ date.month \in s.month
            /\ IF s.domRestricted /\ s.dowRestricted
               THEN date.dom \in s.dom \/ date.dow \in s.dow
               ELSE date.dom \in s.dom /\ date.dow \in s.dow
    BY <1>3 DEF Matches, MatchesDay
  <1> HIDE DEF D, W
  <1>14. date.dom \in s.dom <=> D
    BY <1>8 DEF D
  <1>15. date.dow \in s.dow <=> W
    BY <1>10 DEF W
  <1> QED
    BY <1>4, <1>6, <1>7, <1>9, <1>11, <1>12, <1>13, <1>14, <1>15

\* The next minute of a readable expression is the first one after t that it says, read
\* field by field and number by number, as far as the search goes; there is none only if
\* the expression says none of them (cron.go ParseCron, Next).
THEOREM NextSaysFirst ==
    ASSUME NEW cron \in Crons, Readable(cron), NEW t \in Nat,
           \A m \in (t + 1) .. (t + SearchDays * DayMinutes - 1) : DayOf(m) \in DOMAIN Calendar
    PROVE  LET found == NextMatch(ParseCron(cron), t)
               reach == (t + 1) .. (t + SearchDays * DayMinutes - 1)
           IN  \/ /\ found \in reach /\ CronSays(cron, found)
                  /\ \A m \in (t + 1) .. (found - 1) : ~CronSays(cron, m)
               \/ found = NoTime /\ \A m \in reach : ~CronSays(cron, m)
  <1>1. PICK next, hi :
           next = NextMatch(ParseCron(cron), t) /\ hi = t + SearchDays * DayMinutes - 1
    OBVIOUS
  <1>2. ASSUME NEW m \in (t + 1) .. hi
        PROVE  Matches(ParseCron(cron), m) <=> CronSays(cron, m)
    <2>1. m \in Nat /\ DayOf(m) \in DOMAIN Calendar
      <3>1. PICK x \in Int : x = SearchDays * DayMinutes
        BY SearchAssumption, Skips
      <3> QED
        BY <1>1, <1>2, <3>1
    <2> QED
      BY <2>1, ParsedMeans
  <1>3. /\ next # NoTime =>
              /\ next \in (t + 1) .. hi /\ Matches(ParseCron(cron), next)
              /\ \A j \in (t + 1) .. (next - 1) : ~Matches(ParseCron(cron), j)
        /\ next = NoTime => \A j \in (t + 1) .. hi : ~Matches(ParseCron(cron), j)
    BY <1>1, NextIsFirst
  <1>4. CASE next # NoTime
    <2>1. \A j \in (t + 1) .. (next - 1) : j \in (t + 1) .. hi
      <3>1. PICK x \in Int : x = SearchDays * DayMinutes
        BY SearchAssumption, Skips
      <3> QED
        BY <1>1, <1>3, <1>4, <3>1
    <2> QED
      BY <1>1, <1>2, <1>3, <1>4, <2>1
  <1>5. CASE next = NoTime
    BY <1>1, <1>2, <1>3, <1>5
  <1> QED
    BY <1>4, <1>5


-----------------------------------------------------------------------------
(* The loop. *)

\* The minute after a tick.
LEMMA NextMinute ==
    ASSUME NEW k \in Nat \ {0}, NEW t \in Nat, NEW q, q = t \div k
    PROVE  /\ q \in Nat /\ t < (q + 1) * k /\ (q + 1) * k <= t + k /\ (q + 1) * k \in Nat
           /\ \A m \in Nat : t < m * k /\ m * k <= t + k => m = q + 1
  <1>1. PICK r \in Int : t = k * q + r /\ 0 <= r /\ r < k /\ q \in Nat
    <2>1. t = k * (t \div k) + (t % k) /\ t % k \in 0 .. (k - 1) /\ t \div k \in Nat
      OBVIOUS
    <2> QED
      BY <2>1
  <1>2. PICK x \in Nat : x = q * k /\ x = k * q /\ x <= t /\ t < x + k /\ (q + 1) * k = x + k
    BY <1>1
  <1>3. ASSUME NEW m \in Nat, t < m * k, m * k <= t + k PROVE m = q + 1
    <2>1. PICK y \in Nat : y = m * k /\ y > x - k + k /\ y < x + k + k
      BY <1>2, <1>3
    <2>2. m <= q => y <= x
      BY <1>1, <1>2, <2>1
    <2>3. m >= q + 2 => y >= x + k + k
      <3>1. (q + 2) * k = x + k + k
        BY <1>1, <1>2
      <3>2. m >= q + 2 => m * k >= (q + 2) * k
        BY <1>1
      <3> QED
        BY <2>1, <3>1, <3>2
    <2> QED
      BY <1>1, <2>1, <2>2, <2>3
  <1>4. (q + 1) * k \in Nat
    BY <1>1
  <1> QED
    BY <1>1, <1>2, <1>3, <1>4

LEMMA Divides ==
    ASSUME NEW k \in Nat \ {0}, NEW a \in Nat, NEW b \in Nat
    PROVE  /\ a <= b => a \div k <= b \div k
           /\ a \div k \in Nat
           /\ (a * k) \div k = a /\ (a * k) % k = 0
           /\ a % k = 0 => (a \div k) * k = a
  <1>1. a <= b => a \div k <= b \div k
    <2>1. PICK p \in Nat, r \in Nat : p = a \div k /\ a = k * p + r /\ r < k
      OBVIOUS
    <2>2. PICK q \in Nat, s \in Nat : q = b \div k /\ b = k * q + s /\ s < k
      OBVIOUS
    <2>3. ASSUME a <= b, p >= q + 1 PROVE FALSE
      <3>1. k * p >= k * (q + 1) /\ k * (q + 1) = k * q + k
        BY <2>3
      <3>2. PICK x \in Nat, y \in Nat : x = k * p /\ y = k * q
        OBVIOUS
      <3> QED
        BY <2>1, <2>2, <2>3, <3>1, <3>2
    <2> QED
      BY <2>1, <2>2, <2>3
  <1>2. (a * k) \div k = a /\ (a * k) % k = 0
    OBVIOUS
  <1>3. a % k = 0 => (a \div k) * k = a
    OBVIOUS
  <1> QED
    BY <1>1, <1>2, <1>3

\* Since the tick t of its last look the loop has slept towards the next minute, if what
\* it read names that minute, and for a minute otherwise.
SleptSince(t) ==
    LET next == t \div MinuteTicks + 1
        named == loop.read.enabled /\ Readable(loop.read.cron)
                 /\ Matches(ParseCron(loop.read.cron), next)
    IN  /\ loop.fire <=> named
        /\ loop.wake = IF loop.fire THEN next * MinuteTicks ELSE t + MinuteTicks
        /\ loop.fire => loop.read \in ScanSettings

LoopSleeps ==
    /\ loop = [pc |-> loop.pc, wake |-> loop.wake, fire |-> loop.fire, read |-> loop.read]
    /\ loop.pc = "asleep" => \E t \in 0 .. now : SleptSince(t)

TimeInv == now \in 0 .. Horizon /\ scanSettings \in ScanSettings /\ LoopSleeps

LEMMA TurnSleeps == ASSUME TimeInv, Turn PROVE TimeInv'
  <1>1. PICK read : read = scanSettings /\ read \in ScanSettings
    BY DEF TimeInv
  <1>2. PICK t \in Nat : t = MinuteNow /\ t = now \div MinuteTicks
    BY SchedulerAssumption, Divides DEF TimeInv, MinuteNow
  <1>3. PICK k \in Nat \ {0} : k = MinuteTicks
    BY SchedulerAssumption
  <1>4. now \in Nat /\ t = now \div k
    BY <1>2, <1>3 DEF TimeInv
  <1>5. PICK x : x = IF read.enabled /\ Readable(read.cron)
                     THEN NextMatch(ParseCron(read.cron), t) ELSE NoTime
    OBVIOUS
  <1>6. /\ UNCHANGED <<now, scanSettings>>
        /\ IF x = NoTime \/ x * k - now > k
           THEN Sleep(k, FALSE, read) ELSE Sleep(x * k - now, TRUE, read)
    BY <1>1, <1>2, <1>3, <1>5 DEF Turn, TooLong, RecheckInterval
  <1> DEFINE Named(m) == read.enabled /\ Readable(read.cron) /\ Matches(ParseCron(read.cron), m)
  <1>7. /\ x # NoTime => x \in Nat /\ x > t /\ Named(x)
        /\ Named(t + 1) => x = t + 1
    BY <1>5, NextIsFound
  <1>8. /\ t + 1 \in Nat /\ now < (t + 1) * k /\ (t + 1) * k <= now + k /\ (t + 1) * k \in Nat
        /\ \A m \in Nat : now < m * k /\ m * k <= now + k => m = t + 1
    BY ONLY <1>4, k \in Nat \ {0}, NextMinute
  <1> HIDE DEF Named
  <1>9. t + 1 # NoTime
    BY DEF NoTime
  <1>10. CASE x = NoTime \/ x * k - now > k
    <2>1. ~Named(t + 1)
      <3>1. ASSUME x = t + 1 PROVE FALSE
        <4>1. PICK y \in Nat : y = (t + 1) * k /\ y <= now + k
          BY <1>8
        <4>2. ~(y - now > k)
          BY <1>4, <4>1
        <4> QED
          BY <1>9, <1>10, <3>1, <4>1, <4>2
      <3> QED
        BY <1>7, <3>1
    <2>2. loop' = [pc |-> "asleep", wake |-> now + k, fire |-> FALSE, read |-> read]
      BY <1>6, <1>10 DEF Sleep
    <2>3. SleptSince(now)'
      <3>1. loop'.wake = now + k /\ loop'.fire = FALSE /\ loop'.read = read /\ now' = now
        BY <1>6, <2>2
      <3> QED
        BY <1>2, <1>3, <2>1, <3>1 DEF SleptSince, Named
    <2> QED
      BY <1>4, <1>6, <2>2, <2>3 DEF TimeInv, LoopSleeps
  <1>11. CASE ~(x = NoTime \/ x * k - now > k)
    <2>1. x \in Nat /\ x > t /\ Named(x)
      BY <1>7, <1>11
    <2>2. x = t + 1
      <3>1. PICK y \in Nat : y = x * k
        BY <2>1
      <3>2. y <= now + k
        BY <1>4, <1>11, <3>1
      <3>3. PICK z \in Nat : z = (t + 1) * k /\ now < z
        BY <1>8
      <3>4. x >= t + 1
        BY <2>1
      <3>5. x * k >= (t + 1) * k
        BY <2>1, <3>4
      <3>6. now < y
        BY <1>4, <3>1, <3>3, <3>5
      <3> QED
        BY <1>8, <2>1, <3>1, <3>2, <3>6
    <2>3. loop' = [pc |-> "asleep", wake |-> (t + 1) * k, fire |-> TRUE, read |-> read]
      <3>1. now + (x * k - now) = (t + 1) * k
        BY <1>4, <1>8, <2>2
      <3> QED
        BY <1>6, <1>11, <3>1 DEF Sleep
    <2>4. SleptSince(now)'
      <3>1. /\ loop'.wake = (t + 1) * k /\ loop'.fire = TRUE /\ loop'.read = read /\ now' = now
            /\ read \in ScanSettings' /\ Named(t + 1)
        BY <1>1, <1>6, <2>1, <2>2, <2>3 DEF ScanSettings
      <3> QED
        BY <1>2, <1>3, <3>1 DEF SleptSince, Named, ScanSettings
    <2> QED
      BY <1>4, <1>6, <2>3, <2>4 DEF TimeInv, LoopSleeps
  <1> QED
    BY <1>10, <1>11

LEMMA TimeInvHolds == SchedulerSpec => []TimeInv
  <1>1. SchedulerInit => TimeInv
    BY SchedulerAssumption DEF SchedulerInit, TimeInv, LoopSleeps
  <1>2. TimeInv /\ [SchedulerNext]_schedulerVars => TimeInv'
    <2> SUFFICES ASSUME TimeInv, [SchedulerNext]_schedulerVars PROVE TimeInv'
      OBVIOUS
    <2>1. CASE Turn
      BY <2>1, TurnSleeps
    <2>2. CASE SettingsUnread
      <3>1. loop' = [pc |-> "asleep", wake |-> now + MinuteTicks, fire |-> FALSE, read |-> Unread]
            /\ UNCHANGED <<now, scanSettings>>
        BY <2>2 DEF SettingsUnread, Sleep, RecheckInterval
      <3>2. SleptSince(now)'
        <4>1. loop'.wake = now + MinuteTicks /\ loop'.fire = FALSE /\ ~loop'.read.enabled
          BY <3>1 DEF Unread
        <4> QED
          BY <3>1, <4>1 DEF SleptSince
      <3> QED
        BY <3>1, <3>2 DEF TimeInv, LoopSleeps
    <2>3. CASE Wake
      BY <2>3 DEF Wake, TimeInv, LoopSleeps
    <2>4. CASE ScanEnds
      BY <2>4 DEF ScanEnds, TimeInv, LoopSleeps
    <2>5. CASE RestartLoop
      BY <2>5 DEF RestartLoop, TimeInv, LoopSleeps
    <2>6. CASE ChangeScanSettings
      <3>1. \A t : SleptSince(t)' <=> SleptSince(t)
        BY <2>6 DEF ChangeScanSettings, SleptSince, ScanSettings
      <3> QED
        BY <2>6, <3>1 DEF ChangeScanSettings, TimeInv, LoopSleeps, ScanSettings
    <2>7. CASE Tick
      <3>1. \A t : SleptSince(t)' <=> SleptSince(t)
        BY <2>7 DEF Tick, SleptSince, ScanSettings
      <3>2. now' \in 0 .. Horizon /\ \A t \in 0 .. now : t \in 0 .. now'
        BY <2>7, SchedulerAssumption DEF Tick, TimeInv
      <3> QED
        BY <2>7, <3>1, <3>2 DEF Tick, TimeInv, LoopSleeps, ScanSettings
    <2>8. CASE UNCHANGED schedulerVars
      <3>1. \A t : SleptSince(t)' <=> SleptSince(t)
        BY <2>8 DEF schedulerVars, SleptSince, ScanSettings
      <3> QED
        BY <2>8, <3>1 DEF schedulerVars, TimeInv, LoopSleeps, ScanSettings
    <2> QED
      BY <2>1, <2>2, <2>3, <2>4, <2>5, <2>6, <2>7, <2>8 DEF SchedulerNext
  <1> QED
    BY <1>1, <1>2, PTL DEF SchedulerSpec

\* The calendar has the days of every minute the clock reaches.
LEMMA CalendarReaches ==
    ASSUME NEW m \in Nat, m <= Horizon \div MinuteTicks
    PROVE  DayOf(m) \in DOMAIN Calendar
  <1>1. DayMinutes \in Nat \ {0} /\ Horizon \div MinuteTicks \in Nat
    BY Skips, SchedulerAssumption, Divides
  <1>2. PICK k \in Nat \ {0}, last \in Nat : k = DayMinutes /\ last = Horizon \div MinuteTicks
    BY <1>1
  <1>3. m \div k <= last \div k /\ m \div k \in Nat /\ last \div k \in Nat
    BY <1>2, Divides
  <1>4. DayOf(m) \in 0 .. DayOf(Horizon \div MinuteTicks)
    BY <1>2, <1>3 DEF DayOf
  <1> QED
    BY <1>4, SchedulerAssumption

\* When the clock reaches a minute the expression names, a loop that is asleep and not
\* late wakes at that very tick to scan; and a scan starts only in a minute the
\* expression it read names (scheduler.go Run and nextWait, cron.go): for every calendar,
\* every expression, and settings that change and loops that are late at any time.
THEOREM FiresOnSchedule == SchedulerSpec => ScansOnSchedule
  <1> DEFINE Kept ==
        /\ now' # now /\ now' % MinuteTicks = 0 /\ OnTime /\ Wanted(MinuteNow')
           => loop.fire /\ loop.wake = now'
        /\ loop'.pc = "scan" /\ loop.pc # "scan"
           => /\ loop.read.enabled
              /\ CronSays(loop.read.cron, loop.wake \div MinuteTicks)
              /\ loop.wake % MinuteTicks = 0
  <1>1. TimeInv /\ [SchedulerNext]_schedulerVars => [Kept]_schedulerVars
    <2> SUFFICES ASSUME TimeInv, SchedulerNext PROVE Kept
      BY DEF schedulerVars
    <2> PICK k \in Nat \ {0} : k = MinuteTicks
      BY SchedulerAssumption
    <2>1. now \in Nat /\ Horizon \in Nat /\ now <= Horizon
      BY SchedulerAssumption DEF TimeInv
    <2>2. ASSUME now' # now, now' % MinuteTicks = 0, OnTime, Wanted(MinuteNow')
          PROVE  loop.fire /\ loop.wake = now'
      <3>1. now' = now + 1 /\ now' \in Nat /\ now' <= Horizon /\ UNCHANGED scanSettings
        BY <2>1, <2>2 DEF SchedulerNext, Turn, SettingsUnread, Sleep, Wake, ScanEnds, RestartLoop,
           ChangeScanSettings, Tick
      <3>2. PICK m \in Nat : m = now' \div k /\ m * k = now' /\ m <= Horizon \div k
        BY <2>1, <2>2, <3>1, Divides
      <3>3. PICK t \in 0 .. now : SleptSince(t)
        BY <2>2 DEF OnTime, TimeInv, LoopSleeps
      <3>4. PICK q : q = t \div k
        OBVIOUS
      <3>5. /\ q \in Nat /\ t < (q + 1) * k /\ (q + 1) * k <= t + k /\ (q + 1) * k \in Nat
            /\ \A n \in Nat : t < n * k /\ n * k <= t + k => n = q + 1
        <4>1. t \in Nat
          BY <2>1
        <4> QED
          BY ONLY <3>4, <4>1, k \in Nat \ {0}, NextMinute
      <3>6. PICK z \in Nat : z = (q + 1) * k /\ z <= t + k
        BY <3>5
      <3>7. loop.wake = IF loop.fire THEN z ELSE t + k
        BY <3>3, <3>4, <3>6 DEF SleptSince
      <3>8. m = q + 1
        <4>1. loop.wake > now
          BY <2>2 DEF OnTime
        <4>2. now' <= t + k /\ t < now'
          BY <2>1, <3>1, <3>6, <3>7, <4>1
        <4> QED
          BY <3>2, <3>5, <4>2
      <3>9. loop.read = scanSettings /\ Readable(loop.read.cron) /\ loop.read.enabled
            /\ CronSays(loop.read.cron, m)
        BY <2>2, <3>1, <3>2 DEF OnTime, Wanted, MinuteNow
      <3>10. loop.read.cron \in Crons
        BY <3>9 DEF TimeInv, ScanSettings
      <3>11. Matches(ParseCron(loop.read.cron), m)
        BY <3>2, <3>9, <3>10, CalendarReaches, ParsedMeans
      <3>12. loop.fire
        BY <3>3, <3>4, <3>8, <3>9, <3>11 DEF SleptSince
      <3> QED
        BY <3>2, <3>6, <3>7, <3>8, <3>12
    <2>3. ASSUME loop'.pc = "scan", loop.pc # "scan"
          PROVE  /\ loop.read.enabled
                 /\ CronSays(loop.read.cron, loop.wake \div MinuteTicks)
                 /\ loop.wake % MinuteTicks = 0
      <3>1. loop.pc = "asleep" /\ loop.wake <= now /\ loop.fire
        BY <2>3 DEF SchedulerNext, Turn, SettingsUnread, Sleep, Wake, ScanEnds, RestartLoop,
           ChangeScanSettings, Tick, TimeInv, LoopSleeps
      <3>2. PICK t \in 0 .. now : SleptSince(t)
        BY <3>1 DEF TimeInv, LoopSleeps
      <3>3. PICK m \in Nat : m = t \div k + 1
        BY <2>1, Divides
      <3>4. loop.wake = m * k /\ loop.read \in ScanSettings /\ loop.read.enabled
            /\ Readable(loop.read.cron) /\ Matches(ParseCron(loop.read.cron), m)
        BY <3>1, <3>2, <3>3 DEF SleptSince
      <3>5. loop.wake \div k = m /\ loop.wake % k = 0 /\ loop.wake \in Nat
        BY <3>4, Divides
      <3>6. m <= Horizon \div k
        <4>1. loop.wake <= Horizon
          BY <2>1, <3>1, <3>5
        <4> QED
          BY <2>1, <3>5, <4>1, Divides
      <3>7. loop.read.cron \in Crons
        BY <3>4 DEF ScanSettings
      <3>8. CronSays(loop.read.cron, m)
        BY <3>4, <3>6, <3>7, CalendarReaches, ParsedMeans
      <3> QED
        BY <3>4, <3>5, <3>8
    <2> QED
      BY <2>2, <2>3
  <1> QED
    BY <1>1, TimeInvHolds, PTL DEF SchedulerSpec, ScansOnSchedule

=============================================================================
