----------------------------- MODULE Promotion -----------------------------
(***************************************************************************)
(* The replacement of one library file by what was encoded from it         *)
(* (internal/promote), with everything that touches the same path: the     *)
(* worker's pipeline around it (internal/job/execute.go), the analyzer     *)
(* that keeps the media row's fingerprint fresh (internal/ingest),         *)
(* recovery after a crash or a power cut, and the outside world that       *)
(* replaces files when it likes.                                           *)
(*                                                                         *)
(* File contents are versions.  A sparse fingerprint is taken to identify  *)
(* its version, so an equal fingerprint stands for an equal size and       *)
(* mtime too.  The queue is reduced to the latest job of this one file:    *)
(* who may write its row, and in which order, is the subject of JobQueue.  *)
(***************************************************************************)
EXTENDS Naturals

CONSTANTS
    MaxVersions,  \* bound: contents ever written, the first import included
    MaxJobs,      \* bound: job rows for the file
    MaxCrashes,   \* bound: deaths of the process
    MaxOutside,   \* bound: imports and rewrites by someone else
    MaxAnalyses,  \* bound: analyses of the file by a scan, webhook or user
    ByHand        \* whether a user may queue the file or restart its job

ASSUME PromotionAssumption ==
    /\ MaxVersions \in Nat \ {0} /\ MaxJobs \in Nat \ {0}
    /\ MaxCrashes \in Nat /\ MaxOutside \in Nat /\ MaxAnalyses \in Nat
    /\ ByHand \in BOOLEAN

VARIABLES
    \* --- contents: who made a version, for which source, and whether it is sound
    made, from, sound,
    \* --- directory entries
    library,    \* the library path
    staged,     \* .codarr-staging-<id>, beside the destination or on another device
    copied,     \* its copy beside the destination, in the second case
    \* --- database
    row,        \* the media_files row
    job,        \* the latest jobs row of the file
    \* --- memory
    up,         \* recovery is over: the worker and the API run
    worker,     \* the pipeline's position and what it has read
    pending,    \* Service.pending: the promotion is to be resumed
    analysis,   \* one call of the analyzer
    \* --- history and bounds
    touched,    \* someone else replaced the file since the job's preflight
    excused,    \* outputs whose recording the code gives up or that are misjudged
    crashes, outside, analyses

contents == <<made, from, sound>>
files == <<library, staged, copied>>
db == <<row, job>>
history == <<touched, excused>>
bounds == <<crashes, outside, analyses>>
vars == <<contents, files, db, up, worker, pending, analysis, history, bounds>>

Version == 1 .. MaxVersions
JobId == 1 .. MaxJobs
None == 0
Makers == {"import", "rewrite", "codarr"}
NoFile == [v |-> None, whole |-> FALSE, synced |-> FALSE]
File == [v : Version \union {None}, whole : BOOLEAN, synced : BOOLEAN]
Complete(v) == [v |-> v, whole |-> TRUE, synced |-> TRUE]

JobStates == {"queued", "running", "verifying", "promoting", "awaiting",
              "done", "failed", "cancelled"}
ActiveStates == {"queued", "running", "verifying", "promoting", "awaiting"}
WorkerPoints == {"idle", "preflight", "attempt", "encode", "encoding", "finalise", "probe",
                 "verify", "stage", "copying", "guard", "recheck", "renamed", "record",
                 "regret"}
AnalysisPoints == {"idle", "upsert", "probe", "decide", "enqueue"}

Idle == [pc |-> "idle", job |-> None, fp |-> None, probed |-> None, temp |-> FALSE, identity |-> None]
NoAnalysis == [pc |-> "idle", fp |-> None, probed |-> None, out |-> None]

RowRecord == [fp : Version \union {None}, out : Version \union {None},
              probed : Version \union {None},
              status : {"new", "analyzed", "skipped", "queued", "processing", "done", "failed"}]
JobRecord == [id : JobId, state : JobStates, staged : BOOLEAN, temp : BOOLEAN]
WorkerRecord == [pc : WorkerPoints, job : JobId \union {None}, fp : Version \union {None},
                 probed : Version \union {None}, temp : BOOLEAN,
                 identity : Version \union {None}]
AnalysisRecord == [pc : AnalysisPoints, fp : Version \union {None},
                   probed : Version \union {None}, out : Version \union {None}]

TypeOK ==
    /\ made \in [Version -> Makers \union {"none"}]
    /\ from \in [Version -> Version \union {None}]
    /\ sound \in [Version -> BOOLEAN]
    /\ library \in File
    /\ staged \in [JobId -> File] /\ copied \in [JobId -> File]
    /\ row \in RowRecord /\ job \in JobRecord
    /\ up \in BOOLEAN /\ pending \in BOOLEAN
    /\ worker \in WorkerRecord /\ analysis \in AnalysisRecord
    /\ touched \in BOOLEAN /\ excused \in SUBSET Version
    /\ crashes \in Nat /\ outside \in Nat /\ analyses \in Nat

\* A library with one imported file, as the first scan leaves it.
Init ==
    /\ made = [v \in Version |-> IF v = 1 THEN "import" ELSE "none"]
    /\ from = [v \in Version |-> None]
    /\ sound = [v \in Version |-> TRUE]
    /\ library = Complete(1)
    /\ staged = [j \in JobId |-> NoFile] /\ copied = [j \in JobId |-> NoFile]
    /\ row = [fp |-> 1, out |-> None, probed |-> 1, status |-> "queued"]
    /\ job = [id |-> 1, state |-> "queued", staged |-> FALSE, temp |-> FALSE]
    /\ up = TRUE /\ worker = Idle /\ pending = FALSE /\ analysis = NoAnalysis
    /\ touched = FALSE /\ excused = {}
    /\ crashes = 0 /\ outside = 0 /\ analyses = 0

-----------------------------------------------------------------------------
(* Contents. *)

Unused(v) == made[v] = "none" /\ \A u \in Version : made[u] = "none" => v <= u

\* An output carries the CODARR tags; so does what a muxer rewrites it into.
Tagged(v) == v # None /\ made[v] \in {"codarr", "rewrite"}

\* decide.Engine.Plan over the probe of v: our own sound output complies, and a
\* rewrite of it holds streams the policy removes.
PlansAsSkip(v) == made[v] = "codarr"

\* CheckSkip: tag, policy and fingerprint together.
CheckSkip(probed, fp, out) == Tagged(probed) /\ out # None /\ fp = out

KeepContents == UNCHANGED contents
Goto(pc) == worker' = [worker EXCEPT !.pc = pc]
At(pc) == up /\ worker.pc = pc
KeepOutsiders == UNCHANGED <<up, pending, analysis, bounds>>

-----------------------------------------------------------------------------
(* The pipeline: load, preflight, encode. *)

\* The job ends without having replaced anything: finishFailed, or
\* finishCancelled for a job the user stopped.
Ends(state) ==
    /\ job' = [job EXCEPT !.state = state]
    /\ row' = [row EXCEPT !.status = IF state = "failed" THEN "failed" ELSE "analyzed"]
    /\ worker' = Idle

\* RunOnce finds nothing to do.
Polls ==
    /\ up /\ worker.pc = "idle" /\ ~pending /\ job.state # "queued"
    /\ UNCHANGED vars

\* ClaimNextJob and load: the row as it is now, re-planned.
Load ==
    /\ up /\ worker.pc = "idle" /\ ~pending /\ job.state = "queued"
    /\ IF PlansAsSkip(row.probed)
       THEN Ends("failed")
       ELSE /\ job' = [job EXCEPT !.state = "running"]
            /\ row' = [row EXCEPT !.status = "processing"]
            /\ worker' = [Idle EXCEPT !.pc = "preflight", !.job = job.id,
                                      !.fp = row.fp, !.probed = row.probed]
    /\ KeepContents /\ KeepOutsiders /\ UNCHANGED <<files, history>>

\* Deviation: the source's fingerprint is not compared again.
PreflightTrustsRow ==
    /\ At("preflight")
    /\ \E temp \in BOOLEAN : worker' = [worker EXCEPT !.pc = "attempt", !.temp = temp]
    /\ touched' = FALSE
    /\ KeepContents /\ KeepOutsiders /\ UNCHANGED <<files, db, excused>>

\* Preflight: the source is what analysis recorded, and where to stage.
Preflight ==
    /\ At("preflight")
    /\ library.v # None /\ library.v = worker.fp
    /\ \E temp \in BOOLEAN : worker' = [worker EXCEPT !.pc = "attempt", !.temp = temp]
    /\ touched' = FALSE
    /\ KeepContents /\ KeepOutsiders /\ UNCHANGED <<files, db, excused>>

\* It changed, has links, or there is no room.
PreflightFails ==
    /\ At("preflight")
    /\ \E state \in {"failed", "cancelled"} : Ends(state)
    /\ KeepContents /\ KeepOutsiders /\ UNCHANGED <<files, history>>

\* attempt: the staging path is on the row before ffmpeg starts.
RecordExecution ==
    /\ At("attempt")
    /\ job' = [job EXCEPT !.staged = TRUE, !.temp = worker.temp]
    /\ Goto("encode")
    /\ KeepContents /\ KeepOutsiders /\ UNCHANGED <<files, row, history>>

\* ffmpeg opens whatever the path names now and writes a new version; "from" is
\* the content the loaded row described, which is what the plan was made for.
EncodeBegins ==
    /\ At("encode") /\ library.v # None
    /\ \E v \in Version, ok \in BOOLEAN :
          /\ Unused(v)
          /\ made' = [made EXCEPT ![v] = "codarr"]
          /\ from' = [from EXCEPT ![v] = worker.fp]
          /\ sound' = [sound EXCEPT ![v] = ok]
          /\ staged' = [staged EXCEPT ![job.id] = [v |-> v, whole |-> FALSE, synced |-> FALSE]]
    /\ Goto("encoding")
    /\ KeepOutsiders /\ UNCHANGED <<library, copied, db, history>>

EncodeEnds ==
    /\ At("encoding")
    /\ staged' = [staged EXCEPT ![job.id].whole = TRUE]
    /\ Goto("finalise")
    /\ KeepContents /\ KeepOutsiders /\ UNCHANGED <<library, copied, db, history>>

\* Any of these steps failing, or a cancel reaching them: removeStaging knows the
\* staging path only, not the copy made beside the destination.
GivesUp ==
    /\ up /\ worker.pc \in {"attempt", "encode", "encoding", "finalise", "probe", "stage",
                             "copying", "guard", "recheck"}
    /\ \E state \in {"failed", "cancelled"} : Ends(state)
    /\ staged' = [staged EXCEPT ![job.id] = NoFile]
    /\ KeepContents /\ KeepOutsiders /\ UNCHANGED <<library, copied, history>>

-----------------------------------------------------------------------------
(* finalise and Promote. *)

EnterVerifying ==
    /\ At("finalise")
    /\ job' = [job EXCEPT !.state = "verifying"]
    /\ Goto("probe")
    /\ KeepContents /\ KeepOutsiders /\ UNCHANGED <<files, row, history>>

EnterPromoting ==
    /\ At("probe")
    /\ job' = [job EXCEPT !.state = "promoting"]
    /\ Goto("verify")
    /\ KeepContents /\ KeepOutsiders /\ UNCHANGED <<files, row, history>>

\* Verify: duration, streams, codecs and size, over a file ffprobe can read.
Verifies(f) == f.v # None /\ f.whole /\ sound[f.v]

Verify ==
    /\ At("verify") /\ Verifies(staged[job.id])
    /\ library.v # None
    /\ Goto("stage")
    /\ KeepContents /\ KeepOutsiders /\ UNCHANGED <<files, db, history>>

\* A verification failure keeps the staging file; nothing else does.
VerifyFails ==
    /\ At("verify")
    /\ \/ Ends("failed") /\ UNCHANGED staged
       \/ /\ \E state \in {"failed", "cancelled"} : Ends(state)
          /\ staged' = [staged EXCEPT ![job.id] = NoFile]
    /\ KeepContents /\ KeepOutsiders /\ UNCHANGED <<library, copied, history>>

\* stageOnDestination: a copy beside the destination, synced when it is complete.
Stage ==
    /\ At("stage")
    /\ IF worker.temp
       THEN /\ copied' = [copied EXCEPT ![job.id] =
                  [v |-> staged[job.id].v, whole |-> FALSE, synced |-> FALSE]]
            /\ Goto("copying")
       ELSE Goto("guard") /\ UNCHANGED copied
    /\ KeepContents /\ KeepOutsiders /\ UNCHANGED <<library, staged, db, history>>

CopyEnds ==
    /\ At("copying")
    /\ copied' = [copied EXCEPT ![job.id] = [staged[job.id] EXCEPT !.synced = TRUE]]
    /\ Goto("guard")
    /\ KeepContents /\ KeepOutsiders /\ UNCHANGED <<library, staged, db, history>>

\* waitForStreamEnd, and recheckAndRename's second look: Plex streams the file.
Blocked ==
    /\ up /\ worker.pc \in {"guard", "recheck"}
    /\ job' = [job EXCEPT !.state = "awaiting"]
    /\ Goto("guard")
    /\ KeepContents /\ KeepOutsiders /\ UNCHANGED <<files, row, history>>

\* Deviation: the replacement is renamed without having been flushed.
SkipSync ==
    /\ At("guard")
    /\ Goto("recheck")
    /\ KeepContents /\ KeepOutsiders /\ UNCHANGED <<files, db, history>>

\* sync: file and directory, before the last look at Plex.
Sync ==
    /\ At("guard")
    /\ IF worker.temp
       THEN copied' = [copied EXCEPT ![job.id].synced = TRUE] /\ UNCHANGED staged
       ELSE staged' = [staged EXCEPT ![job.id].synced = TRUE] /\ UNCHANGED copied
    /\ Goto("recheck")
    /\ KeepContents /\ KeepOutsiders /\ UNCHANGED <<library, db, history>>

\* rename(2) over the source.
Rename ==
    /\ At("recheck")
    /\ IF worker.temp
       THEN library' = copied[job.id] /\ copied' = [copied EXCEPT ![job.id] = NoFile]
                                      /\ UNCHANGED staged
       ELSE library' = staged[job.id] /\ staged' = [staged EXCEPT ![job.id] = NoFile]
                                      /\ UNCHANGED copied
    /\ Goto("renamed")
    /\ KeepContents /\ KeepOutsiders /\ UNCHANGED <<db, history>>

\* restore and recordIdentity: the fingerprint of what is there now, or none.
RecordIdentity ==
    /\ At("renamed")
    /\ \E id \in {library.v, None} : worker' = [worker EXCEPT !.pc = "record", !.identity = id]
    /\ KeepContents /\ KeepOutsiders /\ UNCHANGED <<files, db, history>>

\* Deviation: an identity that could not be taken leaves the row as it was.
RecordsJobOnly(id) == row' = [row EXCEPT !.status = "done"]

\* Deviation: the job's last state is written where the file's status belongs.
RecordsJobState(id) == row' = [row EXCEPT !.fp = id, !.out = id, !.status = "promoting"]

\* RecordPromotion on the media row: the output's identity becomes the file's.
RecordsOutput(id) == row' = [row EXCEPT !.fp = id, !.out = id, !.status = "done"]

\* NotifyPromoted, then settle's RecordPromotion, which is made even when the
\* mode, the mtime or the identity could not be restored or taken.
Record ==
    /\ At("record")
    /\ RecordsOutput(worker.identity)
    /\ job' = [job EXCEPT !.state = "done"]
    /\ \/ worker.identity # None /\ worker' = Idle
       \/ Goto("regret")
    /\ excused' = IF worker.identity = None THEN excused \union ({library.v} \ {None}) ELSE excused
    /\ KeepContents /\ KeepOutsiders /\ UNCHANGED <<files, touched>>

\* The error that settle carried on past fails the job after all; someone may
\* have queued the file anew by then.
Regrets ==
    /\ At("regret")
    /\ job' = IF job.id = worker.job THEN [job EXCEPT !.state = "failed"] ELSE job
    /\ row' = [row EXCEPT !.status = "failed"]
    /\ worker' = Idle
    /\ staged' = [staged EXCEPT ![worker.job] = NoFile]
    /\ KeepContents /\ KeepOutsiders /\ UNCHANGED <<library, copied, history>>

-----------------------------------------------------------------------------
(* The analyzer: one call, over a path others are replacing. *)

KeepWorker == UNCHANGED <<contents, files, up, worker, pending, touched, crashes, outside>>

\* inspect and Sparse.
AnalyzeReads ==
    /\ up /\ analysis.pc = "idle" /\ analyses < MaxAnalyses
    /\ library.v # None
    /\ analysis' = [NoAnalysis EXCEPT !.pc = "upsert", !.fp = library.v]
    /\ analyses' = analyses + 1
    /\ KeepWorker /\ UNCHANGED <<db, excused>>

\* UpsertMediaFile: the fingerprint moves, the stored probe and plan stay; the
\* row it returns names the output recorded so far.  An output nobody has
\* recorded yet is from now on the row's own content.
AnalyzeUpserts ==
    /\ analysis.pc = "upsert"
    /\ row' = [row EXCEPT !.fp = analysis.fp, !.status = "new"]
    /\ analysis' = [analysis EXCEPT !.pc = "probe", !.out = row.out]
    /\ excused' = IF made[analysis.fp] = "codarr" /\ row.out # analysis.fp
                  THEN excused \union {analysis.fp} ELSE excused
    /\ KeepWorker /\ UNCHANGED <<job, analyses>>

\* ffprobe, of what the path names by now, or not at all.
AnalyzeProbes ==
    /\ analysis.pc = "probe"
    /\ \/ /\ library.v # None
          /\ analysis' = [analysis EXCEPT !.pc = "decide", !.probed = library.v]
          /\ UNCHANGED row
       \/ /\ analysis' = NoAnalysis
          /\ row' = [row EXCEPT !.status = "failed"]
    /\ KeepWorker /\ UNCHANGED <<job, analyses, excused>>

\* decide and UpdateMediaAnalysis.
AnalyzeDecides ==
    /\ analysis.pc = "decide"
    /\ \E status \in {"done", "skipped", "analyzed"} :
          /\ status = "done" <=> CheckSkip(analysis.probed, analysis.fp, analysis.out)
          /\ status = "analyzed" => ~PlansAsSkip(analysis.probed)
          /\ status = "skipped" => PlansAsSkip(analysis.probed)
          /\ row' = [row EXCEPT !.fp = analysis.fp, !.probed = analysis.probed, !.status = status]
          /\ analysis' = IF status = "analyzed" THEN [analysis EXCEPT !.pc = "enqueue"]
                         ELSE NoAnalysis
    /\ excused' = IF made[analysis.fp] = "codarr" /\ row.out # analysis.fp
                  THEN excused \union {analysis.fp} ELSE excused
    /\ KeepWorker /\ UNCHANGED <<job, analyses>>

\* EnqueueJob: a new row, unless one is active.
NewJob ==
    /\ job.id < MaxJobs
    /\ job' = [id |-> job.id + 1, state |-> "queued", staged |-> FALSE, temp |-> FALSE]
    /\ row' = [row EXCEPT !.status = "queued"]

AnalyzeEnqueues ==
    /\ analysis.pc = "enqueue"
    /\ \/ job.state \notin ActiveStates /\ NewJob
       \/ (job.state \in ActiveStates \/ job.id = MaxJobs) /\ UNCHANGED <<job, row>>
    /\ analysis' = NoAnalysis
    /\ KeepWorker /\ UNCHANGED <<analyses, excused>>

-----------------------------------------------------------------------------
(* The user and the outside world. *)

KeepMachine ==
    UNCHANGED <<staged, copied, up, worker, pending, analysis, crashes, analyses, excused>>

\* Enqueue: a stored plan that writes is all it asks for.
UserQueues ==
    /\ ByHand /\ up
    /\ ~PlansAsSkip(row.probed)
    /\ job.state \notin ActiveStates
    /\ NewJob
    /\ KeepMachine /\ UNCHANGED <<contents, library, touched, outside>>

\* RestartJob, of a job whose run is over (JobQueue has the one that is not).
UserRestarts ==
    /\ ByHand /\ up
    /\ job.state \in {"failed", "cancelled"} /\ worker.pc = "idle"
    /\ job' = [job EXCEPT !.state = "queued", !.staged = FALSE]
    /\ row' = [row EXCEPT !.status = "queued"]
    /\ KeepMachine /\ UNCHANGED <<contents, library, touched, outside>>

\* An import, or a muxer's rewrite that carries the tags over.
OutsiderWrites ==
    /\ outside < MaxOutside /\ outside' = outside + 1
    /\ \E v \in Version, maker \in {"import", "rewrite"} :
          /\ Unused(v)
          /\ maker = "rewrite" => Tagged(library.v)
          /\ made' = [made EXCEPT ![v] = maker]
          /\ library' = Complete(v)
    /\ touched' = TRUE
    /\ KeepMachine /\ UNCHANGED <<from, sound, db>>

OutsiderDeletes ==
    /\ outside < MaxOutside /\ outside' = outside + 1
    /\ library.v # None
    /\ library' = NoFile
    /\ touched' = TRUE
    /\ KeepMachine /\ UNCHANGED <<contents, db>>

-----------------------------------------------------------------------------
(* Death and recovery. *)

\* A power cut tears what was not flushed; a kill does not.  The rename itself is
\* durable: NFS answers RENAME from stable storage.
Torn(f) == IF f.synced THEN f ELSE [f EXCEPT !.whole = FALSE]

Crash ==
    /\ crashes < MaxCrashes /\ crashes' = crashes + 1
    /\ up' = FALSE
    /\ worker' = Idle /\ pending' = FALSE /\ analysis' = NoAnalysis
    /\ \/ UNCHANGED files
       \/ /\ library' = Torn(library)
          /\ staged' = [j \in JobId |-> Torn(staged[j])]
          /\ copied' = [j \in JobId |-> Torn(copied[j])]
    /\ UNCHANGED <<contents, db, history, outside, analyses>>

KeepInRecovery ==
    UNCHANGED <<contents, library, copied, up, worker, analysis, touched, bounds>>

RemovesStaging ==
    staged' = IF job.staged THEN [staged EXCEPT ![job.id] = NoFile] ELSE staged

\* Back to the head of the queue, or failed at the attempt cap.
Requeues ==
    \E state \in {"queued", "failed"} :
        /\ job' = [job EXCEPT !.state = state, !.staged = FALSE]
        /\ row' = [row EXCEPT !.status = state]

\* Died while encoding or verifying: what is staged is debris.
RecoverDied ==
    /\ ~up /\ job.state \in {"running", "verifying"}
    /\ RemovesStaging /\ Requeues
    /\ KeepInRecovery /\ UNCHANGED <<pending, excused>>

\* stagingVerifies decides before anyone looks at the library file.
StagingVerifies == job.staged /\ Verifies(staged[job.id])

\* recoverAwaiting.  On another device the staged file outlives its rename: the
\* promotion is then resumed although it had landed.
RecoverResumes ==
    /\ ~up /\ job.state = "awaiting" /\ ~pending
    /\ StagingVerifies
    /\ pending' = TRUE
    /\ excused' = IF staged[job.id].v = library.v THEN excused \union {library.v} ELSE excused
    /\ KeepInRecovery /\ UNCHANGED <<staged, db>>

\* Awaiting with a staging file that no longer verifies, or promoting.
NeedsVerdict == ~up /\ ~pending /\ job.state \in {"promoting", "awaiting"}

\* verdictSourceIntact: the fingerprint the row holds.
RecoverIntact ==
    /\ NeedsVerdict
    /\ row.fp # None /\ library.v = row.fp
    /\ RemovesStaging /\ Requeues
    /\ KeepInRecovery /\ UNCHANGED <<pending, excused>>

\* verdictPromoted: not the row's fingerprint, and tagged.
RecoverPromoted ==
    /\ NeedsVerdict
    /\ library.v # row.fp /\ Tagged(library.v)
    /\ RecordsOutput(library.v)
    /\ job' = [job EXCEPT !.state = "done"]
    /\ KeepInRecovery /\ UNCHANGED <<staged, pending, excused>>

\* verdictUnknown: gone, unreadable, or someone else's.
RecoverUndecidable ==
    /\ NeedsVerdict
    /\ job' = [job EXCEPT !.state = "failed"]
    /\ row' = [row EXCEPT !.status = "failed"]
    /\ excused' = IF library.v # None THEN excused \union {library.v} ELSE excused
    /\ KeepInRecovery /\ UNCHANGED <<staged, pending>>

Recovered == job.state \notin {"running", "verifying", "promoting"}
             /\ (job.state = "awaiting" => pending)

\* Sweep: everything staged but the one path a resumed job claims.
SweepOrphans ==
    /\ ~up /\ Recovered
    /\ staged' = [j \in JobId |-> IF pending /\ j = job.id THEN staged[j] ELSE NoFile]
    /\ copied' = [j \in JobId |-> NoFile]
    /\ up' = TRUE
    /\ UNCHANGED <<contents, library, db, worker, analysis, pending, history, bounds>>

\* resume, ahead of the queue: taskFromRow, then finalise.
Resume ==
    /\ up /\ worker.pc = "idle" /\ pending
    /\ pending' = FALSE
    /\ worker' = [Idle EXCEPT !.pc = "finalise", !.job = job.id, !.fp = row.fp,
                              !.probed = row.probed, !.temp = job.temp]
    /\ UNCHANGED <<contents, files, db, up, analysis, history, bounds>>

-----------------------------------------------------------------------------
Pipeline ==
    \/ Polls \/ Load \/ Preflight \/ PreflightFails \/ RecordExecution
    \/ EncodeBegins \/ EncodeEnds \/ GivesUp
    \/ EnterVerifying \/ EnterPromoting \/ Verify \/ VerifyFails
    \/ Stage \/ CopyEnds \/ Blocked \/ Sync \/ Rename
    \/ RecordIdentity \/ Record \/ Regrets
    \/ Resume

Analyzer ==
    \/ AnalyzeReads \/ AnalyzeUpserts \/ AnalyzeProbes \/ AnalyzeDecides \/ AnalyzeEnqueues

Outside == UserQueues \/ UserRestarts \/ OutsiderWrites \/ OutsiderDeletes

Recover ==
    \/ RecoverDied \/ RecoverResumes \/ RecoverIntact \/ RecoverPromoted
    \/ RecoverUndecidable \/ SweepOrphans

Next == Pipeline \/ Analyzer \/ Outside \/ Crash \/ Recover

Spec == Init /\ [][Next]_vars

-----------------------------------------------------------------------------
(* What promotion promises. *)

\* Whoever reads the library path finds a complete and sound file: no interleaving
\* of encode, copy, flush, rename, power cut and resumed promotion shows a torn
\* file or one verification would refuse.
LibraryAlwaysPlayable == library.v # None => library.whole /\ sound[library.v]

\* A version of ours appears under the library's name: outsiders write new ones.
Replaces == library' # library /\ library'.v # None /\ made[library'.v] = "codarr"

\* A rename replaces only the content the job's row described when it was loaded
\* (or that output itself, resumed), unless someone else replaced the file after
\* the preflight: no stale row, late analysis, re-queue or second job makes one
\* import stand in for another.
ReplacesOnlyWhatWasAnalysed ==
    [][Replaces /\ ~touched => library.v \in {from[library'.v], library'.v}]_vars

\* Once nobody is promoting, an output found in the library is the one the row
\* records as Codarr's, whatever crashed after the rename.  Excused are the
\* outputs whose identity could not be taken, that recovery failed as
\* undecidable or resumed although they had landed, or that an analysis
\* fingerprinted before they were recorded.
WrittenIsRecorded ==
    (up /\ worker.pc = "idle" /\ ~pending /\ library.v # None)
    => \/ made[library.v] # "codarr"
       \/ row.out = library.v
       \/ library.v \in excused

\* Recovery's verdict "the source is intact" is never about the output: the
\* comment on promotionVerdict relies on the fingerprint to prove the source.
IntactIsTheSource ==
    [][NeedsVerdict /\ job'.state = "queued" =>
          ~ \E v \in Version : v = library.v /\ made[v] = "codarr" /\ row.out # v]_vars

\* An output Codarr recorded, untouched since, is never encoded again.
NeverEncodesOwnOutput ==
    [][\A v \in Version : made[v] = "none" /\ made'[v] = "codarr" =>
          ~(made[library.v] = "codarr" /\ row.out = library.v)]_vars
=============================================================================
