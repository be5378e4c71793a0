--------------------------- MODULE PromotionProofs ---------------------------
(***************************************************************************)
(* What holds of the library path, for every bound of Promotion.           *)
(*                                                                         *)
(* Whoever reads it finds a complete and sound file. The argument follows  *)
(* one output through the pipeline: what is past verification is sound and *)
(* whole on the staging path, what is past the copy is so beside the       *)
(* destination too, and what is past the flush can no longer be torn by a  *)
(* power cut.                                                              *)
(*                                                                         *)
(* What is replaced is what was analysed. The argument follows the source: *)
(* until the encode begins the library holds what preflight compared, and  *)
(* from then on what the staged output was made from, through waits,       *)
(* crashes and resumptions.                                                *)
(*                                                                         *)
(* What is installed is recorded. An output the row does not name is about *)
(* to be recorded, or died on its way there and recovery will look at it;  *)
(* and the row's fingerprint is never that of such an output, so that      *)
(* recovery cannot take it for the source.                                 *)
(***************************************************************************)
EXTENDS Promotion, TLAPS

-----------------------------------------------------------------------------
(* Types. *)

\* What an analysis has read stays at hand until it is written.
AnalysisReads == analysis.pc \in {"upsert", "probe", "decide"} => analysis.fp \in Version

\* A file is a version with two flags, whatever is done to its flags.
LEMMA FileType ==
    /\ NoFile \in File
    /\ \A v \in Version, w \in BOOLEAN, s \in BOOLEAN :
          [v |-> v, whole |-> w, synced |-> s] \in File
    /\ \A f \in File : /\ [f EXCEPT !.whole = TRUE] \in File
                      /\ [f EXCEPT !.synced = TRUE] \in File
                      /\ Torn(f) \in File
                      /\ f.v \in Version \union {None}
                      /\ [v |-> f.v, whole |-> FALSE, synced |-> FALSE] \in File
    BY DEF File, NoFile, None, Torn

\* One entry of a directory changes.
LEMMA EntryType ==
    ASSUME NEW d \in [JobId -> File], NEW j, NEW f \in File
    PROVE  [d EXCEPT ![j] = f] \in [JobId -> File]
    OBVIOUS

\* What the types say of the records read before they are written.
LEMMA Held ==
    ASSUME TypeOK
    PROVE  /\ job.id \in JobId /\ job.state \in JobStates
           /\ job.staged \in BOOLEAN /\ job.temp \in BOOLEAN
           /\ row.fp \in Version \union {None} /\ row.out \in Version \union {None}
           /\ row.probed \in Version \union {None}
           /\ worker.fp \in Version \union {None}
           /\ worker.identity \in Version \union {None}
           /\ worker.temp \in BOOLEAN
           /\ library.v \in Version \union {None}
    BY DEF TypeOK, JobRecord, RowRecord, WorkerRecord, File

\* A run that fails or is cancelled keeps the types.
LEMMA EndsType ==
    ASSUME TypeOK, NEW state \in {"failed", "cancelled"}, Ends(state)
    PROVE  job' \in JobRecord /\ row' \in RowRecord /\ worker' \in WorkerRecord
    BY DEF TypeOK, Ends, JobRecord, RowRecord, WorkerRecord, JobStates, WorkerPoints,
       Idle, None

\* A new row's id is within the bound.
LEMMA NewJobType ==
    ASSUME TypeOK, NewJob
    PROVE  job' \in JobRecord /\ row' \in RowRecord
  <1>1. job.id + 1 \in JobId
    BY Held, PromotionAssumption DEF NewJob, JobId
  <1>2. job' \in JobRecord
    BY <1>1 DEF NewJob, JobRecord, JobStates
  <1>3. row' \in RowRecord
    BY DEF TypeOK, NewJob, RowRecord
  <1> QED
    BY <1>2, <1>3

\* A run that ends leaves the row to others.
LEMMA EndsMoves ==
    ASSUME TypeOK, NEW state \in {"failed", "cancelled"}, Ends(state)
    PROVE  /\ worker'.pc = "idle"
           /\ job'.id = job.id /\ job'.state = state
    BY DEF TypeOK, JobRecord, Ends, Idle

\* After a claim the worker is idle again or before its preflight.
LEMMA LoadPoint ==
    ASSUME TypeOK, Load
    PROVE  worker'.pc \in {"idle", "preflight"}
  <1>1. CASE PlansAsSkip(row.probed)
    BY <1>1, EndsMoves DEF Load
  <1>2. CASE ~PlansAsSkip(row.probed)
    BY <1>2 DEF Load, Idle
  <1> QED
    BY <1>1, <1>2

\* Every step of the pipeline keeps the types.
LEMMA PipelineType ==
    ASSUME TypeOK, AnalysisReads, Pipeline
    PROVE  TypeOK' /\ AnalysisReads'
  <1>1. ASSUME Polls PROVE TypeOK' /\ AnalysisReads'
    BY <1>1 DEF TypeOK, AnalysisReads, Polls, vars, contents, files, db, history, bounds
  <1>2. ASSUME Load PROVE TypeOK' /\ AnalysisReads'
    <2>1. row' \in RowRecord
      <3>1. CASE PlansAsSkip(row.probed)
        BY <1>2, <3>1, EndsType DEF Load
      <3>2. CASE ~PlansAsSkip(row.probed)
        BY <1>2, <3>2 DEF TypeOK, Load, RowRecord
      <3> QED
        BY <3>1, <3>2
    <2>2. job' \in JobRecord
      <3>1. CASE PlansAsSkip(row.probed)
        BY <1>2, <3>1, EndsType DEF Load
      <3>2. CASE ~PlansAsSkip(row.probed)
        BY <1>2, <3>2 DEF TypeOK, Load, JobRecord, JobStates
      <3> QED
        BY <3>1, <3>2
    <2>3. worker' \in WorkerRecord
      <3>1. CASE PlansAsSkip(row.probed)
        BY <1>2, <3>1, EndsType DEF Load
      <3>2. CASE ~PlansAsSkip(row.probed)
        BY <1>2, <3>2, Held DEF Load, Idle, None, WorkerRecord, WorkerPoints
      <3> QED
        BY <3>1, <3>2
    <2> QED
      BY <1>2, <2>1, <2>2, <2>3 DEF TypeOK, AnalysisReads, Load, Ends, KeepContents,
         KeepOutsiders, files, history, contents, bounds
  <1>3. ASSUME Preflight PROVE TypeOK' /\ AnalysisReads'
    <2>1. worker' \in WorkerRecord
      <3>1. worker \in WorkerRecord
        BY <1>3 DEF TypeOK
      <3> QED
        BY <1>3, <3>1 DEF Preflight, WorkerRecord, WorkerPoints
    <2> QED
      BY <1>3, <2>1 DEF TypeOK, AnalysisReads, Preflight, KeepContents, KeepOutsiders,
         files, db, contents, bounds
  <1>4. ASSUME PreflightFails PROVE TypeOK' /\ AnalysisReads'
    <2>1. row' \in RowRecord
      BY <1>4, EndsType DEF PreflightFails
    <2>2. job' \in JobRecord
      BY <1>4, EndsType DEF PreflightFails
    <2>3. worker' \in WorkerRecord
      BY <1>4, EndsType DEF PreflightFails
    <2> QED
      BY <1>4, <2>1, <2>2, <2>3 DEF TypeOK, AnalysisReads, PreflightFails, Ends,
         KeepContents, KeepOutsiders, files, history, contents, bounds
  <1>5. ASSUME RecordExecution PROVE TypeOK' /\ AnalysisReads'
    <2>1. job' \in JobRecord
      BY <1>5, Held DEF TypeOK, RecordExecution, JobRecord
    <2>2. worker' \in WorkerRecord
      BY <1>5 DEF TypeOK, AnalysisReads, RecordExecution, Goto, WorkerRecord,
         WorkerPoints, JobRecord, RowRecord, File, Version, JobId
    <2> QED
      BY <1>5, <2>1, <2>2 DEF TypeOK, AnalysisReads, RecordExecution, Goto, KeepContents,
         KeepOutsiders, files, history, contents, bounds
  <1>6. ASSUME EncodeBegins PROVE TypeOK' /\ AnalysisReads'
    <2>1. made' \in [Version -> Makers \union {"none"}]
      BY <1>6 DEF TypeOK, EncodeBegins, Makers
    <2>2. from' \in [Version -> Version \union {None}]
      BY <1>6, Held DEF TypeOK, EncodeBegins
    <2>3. sound' \in [Version -> BOOLEAN]
      BY <1>6 DEF TypeOK, EncodeBegins
    <2>4. staged' \in [JobId -> File]
      <3>1. PICK v \in Version : staged' = [staged EXCEPT ![job.id] =
                                  [v |-> v, whole |-> FALSE, synced |-> FALSE]]
        BY <1>6 DEF EncodeBegins
      <3> QED
        BY <3>1, FileType, EntryType DEF TypeOK
    <2>5. worker' \in WorkerRecord
      BY <1>6 DEF TypeOK, AnalysisReads, EncodeBegins, None, Goto, WorkerRecord,
         WorkerPoints, JobRecord, RowRecord, File, Version, JobId
    <2> QED
      BY <1>6, <2>1, <2>2, <2>3, <2>4, <2>5 DEF TypeOK, AnalysisReads, EncodeBegins, Goto,
         KeepOutsiders, db, history, bounds
  <1>7. ASSUME EncodeEnds PROVE TypeOK' /\ AnalysisReads'
    <2>1. staged' \in [JobId -> File]
      BY <1>7, Held, FileType, EntryType DEF TypeOK, EncodeEnds
    <2>2. worker' \in WorkerRecord
      BY <1>7 DEF TypeOK, AnalysisReads, EncodeEnds, Goto, WorkerRecord, WorkerPoints,
         JobRecord, RowRecord, File, Version, JobId
    <2> QED
      BY <1>7, <2>1, <2>2 DEF TypeOK, AnalysisReads, EncodeEnds, Goto, KeepContents,
         KeepOutsiders, db, history, contents, bounds
  <1>8. ASSUME GivesUp PROVE TypeOK' /\ AnalysisReads'
    <2>1. staged' \in [JobId -> File]
      BY <1>8, FileType, EntryType DEF TypeOK, GivesUp
    <2>2. row' \in RowRecord
      BY <1>8, EndsType DEF GivesUp
    <2>3. job' \in JobRecord
      BY <1>8, EndsType DEF GivesUp
    <2>4. worker' \in WorkerRecord
      BY <1>8, EndsType DEF GivesUp
    <2> QED
      BY <1>8, <2>1, <2>2, <2>3, <2>4 DEF TypeOK, AnalysisReads, GivesUp, Ends,
         KeepContents, KeepOutsiders, history, contents, bounds
  <1>9. ASSUME EnterVerifying PROVE TypeOK' /\ AnalysisReads'
    <2>1. job' \in JobRecord
      BY <1>9 DEF TypeOK, AnalysisReads, EnterVerifying, JobRecord, JobStates
    <2>2. worker' \in WorkerRecord
      BY <1>9 DEF TypeOK, AnalysisReads, EnterVerifying, Goto, WorkerRecord, WorkerPoints,
         JobRecord, RowRecord, File, Version, JobId
    <2> QED
      BY <1>9, <2>1, <2>2 DEF TypeOK, AnalysisReads, EnterVerifying, Goto, KeepContents,
         KeepOutsiders, files, history, contents, bounds
  <1>10. ASSUME EnterPromoting PROVE TypeOK' /\ AnalysisReads'
    <2>1. job' \in JobRecord
      BY <1>10 DEF TypeOK, AnalysisReads, EnterPromoting, JobRecord, JobStates
    <2>2. worker' \in WorkerRecord
      BY <1>10 DEF TypeOK, AnalysisReads, EnterPromoting, Goto, WorkerRecord,
         WorkerPoints, JobRecord, RowRecord, File, Version, JobId
    <2> QED
      BY <1>10, <2>1, <2>2 DEF TypeOK, AnalysisReads, EnterPromoting, Goto, KeepContents,
         KeepOutsiders, files, history, contents, bounds
  <1>11. ASSUME Verify PROVE TypeOK' /\ AnalysisReads'
    <2>1. worker' \in WorkerRecord
      BY <1>11 DEF TypeOK, AnalysisReads, Verify, Verifies, None, Goto, WorkerRecord,
         WorkerPoints, JobRecord, RowRecord, File, Version, JobId
    <2> QED
      BY <1>11, <2>1 DEF TypeOK, AnalysisReads, Verify, Goto, KeepContents, KeepOutsiders,
         files, db, history, contents, bounds
  <1>12. ASSUME VerifyFails PROVE TypeOK' /\ AnalysisReads'
    <2>1. staged' \in [JobId -> File]
      BY <1>12, FileType, EntryType DEF TypeOK, VerifyFails
    <2>2. row' \in RowRecord
      BY <1>12, EndsType DEF VerifyFails
    <2>3. job' \in JobRecord
      BY <1>12, EndsType DEF VerifyFails
    <2>4. worker' \in WorkerRecord
      BY <1>12, EndsType DEF VerifyFails
    <2> QED
      BY <1>12, <2>1, <2>2, <2>3, <2>4 DEF TypeOK, AnalysisReads, VerifyFails, Ends,
         KeepContents, KeepOutsiders, history, contents, bounds
  <1>13. ASSUME Stage PROVE TypeOK' /\ AnalysisReads'
    <2>1. copied' \in [JobId -> File]
      <3>1. [v |-> staged[job.id].v, whole |-> FALSE, synced |-> FALSE] \in File
        BY Held, FileType DEF TypeOK
      <3> QED
        BY <1>13, <3>1, EntryType DEF TypeOK, Stage
    <2>2. worker' \in WorkerRecord
      BY <1>13 DEF TypeOK, AnalysisReads, Stage, Goto, WorkerRecord, WorkerPoints,
         JobRecord, RowRecord, File, Version, JobId
    <2> QED
      BY <1>13, <2>1, <2>2 DEF TypeOK, AnalysisReads, Stage, Goto, KeepContents,
         KeepOutsiders, db, history, contents, bounds
  <1>14. ASSUME CopyEnds PROVE TypeOK' /\ AnalysisReads'
    <2>1. copied' \in [JobId -> File]
      BY <1>14, Held, FileType, EntryType DEF TypeOK, CopyEnds
    <2>2. worker' \in WorkerRecord
      BY <1>14 DEF TypeOK, AnalysisReads, CopyEnds, Goto, WorkerRecord, WorkerPoints,
         JobRecord, RowRecord, File, Version, JobId
    <2> QED
      BY <1>14, <2>1, <2>2 DEF TypeOK, AnalysisReads, CopyEnds, Goto, KeepContents,
         KeepOutsiders, db, history, contents, bounds
  <1>15. ASSUME Blocked PROVE TypeOK' /\ AnalysisReads'
    <2>1. job' \in JobRecord
      BY <1>15 DEF TypeOK, AnalysisReads, Blocked, JobRecord, JobStates
    <2>2. worker' \in WorkerRecord
      BY <1>15 DEF TypeOK, AnalysisReads, Blocked, Goto, WorkerRecord, WorkerPoints,
         JobRecord, RowRecord, File, Version, JobId
    <2> QED
      BY <1>15, <2>1, <2>2 DEF TypeOK, AnalysisReads, Blocked, Goto, KeepContents,
         KeepOutsiders, files, history, contents, bounds
  <1>16. ASSUME Sync PROVE TypeOK' /\ AnalysisReads'
    <2>1. staged' \in [JobId -> File]
      <3>1. [staged[job.id] EXCEPT !.synced = TRUE] \in File
        BY Held, FileType DEF TypeOK
      <3> QED
        BY <1>16, <3>1, EntryType DEF TypeOK, Sync
    <2>2. copied' \in [JobId -> File]
      <3>1. [copied[job.id] EXCEPT !.synced = TRUE] \in File
        BY Held, FileType DEF TypeOK
      <3> QED
        BY <1>16, <3>1, EntryType DEF TypeOK, Sync
    <2>3. worker' \in WorkerRecord
      BY <1>16 DEF TypeOK, AnalysisReads, Sync, Goto, WorkerRecord, WorkerPoints,
         JobRecord, RowRecord, File, Version, JobId
    <2> QED
      BY <1>16, <2>1, <2>2, <2>3 DEF TypeOK, AnalysisReads, Sync, Goto, KeepContents,
         KeepOutsiders, db, history, contents, bounds
  <1>17. ASSUME Rename PROVE TypeOK' /\ AnalysisReads'
    <2>1. library' \in File
      BY <1>17, Held DEF TypeOK, Rename
    <2>2. staged' \in [JobId -> File]
      BY <1>17, FileType, EntryType DEF TypeOK, Rename
    <2>3. copied' \in [JobId -> File]
      BY <1>17, FileType, EntryType DEF TypeOK, Rename
    <2>4. worker' \in WorkerRecord
      BY <1>17 DEF TypeOK, AnalysisReads, Rename, NoFile, Goto, None, WorkerRecord,
         WorkerPoints, JobRecord, RowRecord, File, Version, JobId
    <2> QED
      BY <1>17, <2>1, <2>2, <2>3, <2>4 DEF TypeOK, AnalysisReads, Rename, Goto,
         KeepContents, KeepOutsiders, db, history, contents, bounds
  <1>18. ASSUME RecordIdentity PROVE TypeOK' /\ AnalysisReads'
    <2>1. worker' \in WorkerRecord
      BY ZenonT(60), <1>18 DEF TypeOK, AnalysisReads, RecordIdentity, None, WorkerRecord,
         WorkerPoints, JobRecord, RowRecord, File, Version, JobId
    <2> QED
      BY <1>18, <2>1 DEF TypeOK, AnalysisReads, RecordIdentity, KeepContents,
         KeepOutsiders, files, db, history, contents, bounds
  <1>19. ASSUME Record PROVE TypeOK' /\ AnalysisReads'
    <2>1. job' \in JobRecord
      BY <1>19 DEF TypeOK, AnalysisReads, Record, None, Idle, JobRecord, JobStates
    <2>2. worker' \in WorkerRecord
      <3>1. Idle \in WorkerRecord
        BY DEF Idle, None, WorkerRecord, WorkerPoints
      <3>2. [worker EXCEPT !.pc = "regret"] \in WorkerRecord
        BY DEF TypeOK, WorkerRecord, WorkerPoints
      <3> QED
        BY <1>19, <3>1, <3>2 DEF Record, Goto
    <2>3. excused' \in SUBSET Version
      BY <1>19, Held DEF TypeOK, Record
    <2>4. row' \in RowRecord
      BY <1>19, Held DEF TypeOK, Record, RecordsOutput, RowRecord
    <2> QED
      BY <1>19, <2>1, <2>2, <2>3, <2>4 DEF TypeOK, AnalysisReads, Record, RecordsOutput,
         Goto, KeepContents, KeepOutsiders, files, contents, bounds
  <1>20. ASSUME Regrets PROVE TypeOK' /\ AnalysisReads'
    <2>1. staged' \in [JobId -> File]
      BY <1>20, FileType, EntryType DEF TypeOK, Regrets
    <2>2. row' \in RowRecord
      BY <1>20 DEF TypeOK, AnalysisReads, Regrets, Idle, NoFile, None, RowRecord,
         WorkerRecord, File, AnalysisRecord
    <2>3. job' \in JobRecord
      BY <1>20 DEF TypeOK, AnalysisReads, Regrets, Idle, NoFile, None, JobRecord,
         JobStates
    <2>4. worker' \in WorkerRecord
      BY <1>20 DEF TypeOK, AnalysisReads, Regrets, Idle, NoFile, None, WorkerRecord,
         WorkerPoints, JobRecord, RowRecord, File, Version, JobId
    <2> QED
      BY <1>20, <2>1, <2>2, <2>3, <2>4 DEF TypeOK, AnalysisReads, Regrets, KeepContents,
         KeepOutsiders, history, contents, bounds
  <1>21. ASSUME Resume PROVE TypeOK' /\ AnalysisReads'
    <2>1. worker' \in WorkerRecord
      BY <1>21 DEF TypeOK, AnalysisReads, Resume, Idle, None, WorkerRecord, WorkerPoints,
         JobRecord, RowRecord, File, Version, JobId
    <2> QED
      BY <1>21, <2>1 DEF TypeOK, AnalysisReads, Resume, contents, files, db, history,
         bounds
  <1> QED
    BY <1>1, <1>2, <1>3, <1>4, <1>5, <1>6, <1>7, <1>8, <1>9, <1>10, <1>11, <1>12, <1>13,
       <1>14, <1>15, <1>16, <1>17, <1>18, <1>19, <1>20, <1>21 DEF Pipeline

\* Every step of the analyzer keeps the types.
LEMMA AnalyzerType ==
    ASSUME TypeOK, AnalysisReads, Analyzer
    PROVE  TypeOK' /\ AnalysisReads'
  <1>1. ASSUME AnalyzeReads PROVE TypeOK' /\ AnalysisReads'
    <2>1. analysis' \in AnalysisRecord
      BY <1>1, Held DEF AnalyzeReads, NoAnalysis, None, AnalysisRecord, AnalysisPoints
    <2> QED
      <3>1. AnalysisReads'
        BY <1>1, Held DEF AnalyzeReads, NoAnalysis, AnalysisReads
      <3>2. analyses' \in Nat
        BY <1>1 DEF TypeOK, AnalyzeReads
      <3> QED
        BY <1>1, <2>1, <3>1, <3>2 DEF TypeOK, AnalyzeReads, KeepWorker, db, contents, files
  <1>2. ASSUME AnalyzeUpserts PROVE TypeOK' /\ AnalysisReads'
    <2>1. row' \in RowRecord
      BY <1>2 DEF TypeOK, AnalysisReads, AnalyzeUpserts, RowRecord, WorkerRecord, File,
         AnalysisRecord
    <2>2. analysis' \in AnalysisRecord
      BY <1>2 DEF TypeOK, AnalysisReads, AnalyzeUpserts, AnalysisRecord, AnalysisPoints,
         File, RowRecord
    <2>3. excused' \in SUBSET Version
      BY <1>2 DEF TypeOK, AnalysisReads, AnalyzeUpserts, File, AnalysisRecord
    <2> QED
      BY <1>2, <2>1, <2>2, <2>3 DEF TypeOK, AnalysisReads, AnalyzeUpserts, KeepWorker,
         contents, files
  <1>3. ASSUME AnalyzeProbes PROVE TypeOK' /\ AnalysisReads'
    <2>1. row' \in RowRecord
      BY <1>3 DEF TypeOK, AnalysisReads, AnalyzeProbes, None, NoAnalysis, RowRecord,
         WorkerRecord, File, AnalysisRecord
    <2>2. analysis' \in AnalysisRecord
      <3>1. CASE analysis' = NoAnalysis
        BY <3>1 DEF NoAnalysis, None, AnalysisRecord, AnalysisPoints
      <3>2. CASE analysis' = [analysis EXCEPT !.pc = "decide", !.probed = library.v]
        BY <3>2, Held DEF TypeOK, AnalysisRecord, AnalysisPoints
      <3> QED
        BY <1>3, <3>1, <3>2 DEF AnalyzeProbes
    <2> QED
      <3>1. AnalysisReads'
        <4>1. CASE analysis' = NoAnalysis
          BY <4>1 DEF NoAnalysis, AnalysisReads
        <4>2. CASE analysis' = [analysis EXCEPT !.pc = "decide", !.probed = library.v]
          BY <1>3, <4>2 DEF TypeOK, AnalysisRecord, AnalyzeProbes, AnalysisReads
        <4> QED
          BY <1>3, <4>1, <4>2 DEF AnalyzeProbes
      <3> QED
        BY <1>3, <2>1, <2>2, <3>1 DEF TypeOK, AnalyzeProbes, KeepWorker, contents, files
  <1>4. ASSUME AnalyzeDecides PROVE TypeOK' /\ AnalysisReads'
    <2>1. row' \in RowRecord
      BY ZenonT(60), <1>4 DEF TypeOK, AnalysisReads, AnalyzeDecides, NoAnalysis, None,
         RowRecord, WorkerRecord, File, AnalysisRecord
    <2>2. analysis' \in AnalysisRecord
      BY <1>4 DEF TypeOK, AnalysisReads, AnalyzeDecides, NoAnalysis, None, AnalysisRecord,
         AnalysisPoints, File, RowRecord
    <2>3. excused' \in SUBSET Version
      BY <1>4 DEF TypeOK, AnalysisReads, AnalyzeDecides, NoAnalysis, None, File,
         AnalysisRecord
    <2> QED
      BY <1>4, <2>1, <2>2, <2>3 DEF TypeOK, AnalysisReads, AnalyzeDecides, NoAnalysis,
         KeepWorker, contents, files
  <1>5. ASSUME AnalyzeEnqueues PROVE TypeOK' /\ AnalysisReads'
    <2>1. analysis' \in AnalysisRecord
      BY <1>5 DEF TypeOK, AnalysisReads, AnalyzeEnqueues, NoAnalysis, None,
         AnalysisRecord, AnalysisPoints, File, RowRecord
    <2>2. row' \in RowRecord
      BY <1>5, NewJobType DEF TypeOK, AnalyzeEnqueues
    <2>3. job' \in JobRecord
      BY <1>5, NewJobType DEF TypeOK, AnalyzeEnqueues
    <2> QED
      BY <1>5, <2>1, <2>2, <2>3 DEF TypeOK, AnalysisReads, AnalyzeEnqueues, NewJob,
         NoAnalysis, KeepWorker, contents, files
  <1> QED
    BY <1>1, <1>2, <1>3, <1>4, <1>5 DEF Analyzer

\* Every step of users and outsiders keeps the types.
LEMMA OutsideType ==
    ASSUME TypeOK, AnalysisReads, Outside
    PROVE  TypeOK' /\ AnalysisReads'
  <1>1. ASSUME UserQueues PROVE TypeOK' /\ AnalysisReads'
    <2>1. row' \in RowRecord
      BY <1>1, NewJobType DEF UserQueues
    <2>2. job' \in JobRecord
      BY <1>1, NewJobType DEF UserQueues
    <2> QED
      BY <1>1, <2>1, <2>2 DEF TypeOK, AnalysisReads, UserQueues, NewJob, KeepMachine,
         contents
  <1>2. ASSUME UserRestarts PROVE TypeOK' /\ AnalysisReads'
    <2>1. row' \in RowRecord
      BY <1>2 DEF TypeOK, AnalysisReads, UserRestarts, RowRecord, WorkerRecord, File,
         AnalysisRecord
    <2>2. job' \in JobRecord
      BY <1>2 DEF TypeOK, AnalysisReads, UserRestarts, JobRecord, JobStates
    <2> QED
      BY <1>2, <2>1, <2>2 DEF TypeOK, AnalysisReads, UserRestarts, KeepMachine, contents
  <1>3. ASSUME OutsiderWrites PROVE TypeOK' /\ AnalysisReads'
    <2>1. made' \in [Version -> Makers \union {"none"}]
      BY <1>3 DEF TypeOK, AnalysisReads, OutsiderWrites, Complete, None, Makers, Version
    <2>2. library' \in File
      BY <1>3 DEF TypeOK, AnalysisReads, OutsiderWrites, Complete, None, File
    <2> QED
      BY <1>3, <2>1, <2>2 DEF TypeOK, AnalysisReads, OutsiderWrites, KeepMachine, db
  <1>4. ASSUME OutsiderDeletes PROVE TypeOK' /\ AnalysisReads'
    <2>1. library' \in File
      BY <1>4 DEF TypeOK, AnalysisReads, OutsiderDeletes, None, NoFile, File
    <2> QED
      BY <1>4, <2>1 DEF TypeOK, AnalysisReads, OutsiderDeletes, KeepMachine, contents, db
  <1> QED
    BY <1>1, <1>2, <1>3, <1>4 DEF Outside

\* Every step of recovery keeps the types.
LEMMA RecoverType ==
    ASSUME TypeOK, AnalysisReads, Recover
    PROVE  TypeOK' /\ AnalysisReads'
  <1>1. ASSUME RecoverDied PROVE TypeOK' /\ AnalysisReads'
    <2>1. staged' \in [JobId -> File]
      BY <1>1, FileType, EntryType DEF TypeOK, RecoverDied, RemovesStaging
    <2>2. row' \in RowRecord
      BY <1>1 DEF TypeOK, AnalysisReads, RecoverDied, Requeues, NoFile, None, RowRecord,
         WorkerRecord, File, AnalysisRecord
    <2>3. job' \in JobRecord
      BY <1>1 DEF TypeOK, AnalysisReads, RecoverDied, Requeues, NoFile, None, JobRecord,
         JobStates
    <2> QED
      BY <1>1, <2>1, <2>2, <2>3 DEF TypeOK, AnalysisReads, RecoverDied, RemovesStaging,
         Requeues, KeepInRecovery, contents, bounds
  <1>2. ASSUME RecoverResumes PROVE TypeOK' /\ AnalysisReads'
    <2>1. excused' \in SUBSET Version
      BY <1>2 DEF TypeOK, AnalysisReads, RecoverResumes, StagingVerifies, Verifies, None,
         File, AnalysisRecord
    <2> QED
      BY <1>2, <2>1 DEF TypeOK, AnalysisReads, RecoverResumes, KeepInRecovery, db,
         contents, bounds
  <1>3. ASSUME RecoverIntact PROVE TypeOK' /\ AnalysisReads'
    <2>1. staged' \in [JobId -> File]
      BY <1>3, FileType, EntryType DEF TypeOK, RecoverIntact, RemovesStaging
    <2>2. row' \in RowRecord
      BY <1>3 DEF TypeOK, AnalysisReads, RecoverIntact, None, Requeues, NoFile, RowRecord,
         WorkerRecord, File, AnalysisRecord
    <2>3. job' \in JobRecord
      BY <1>3 DEF TypeOK, AnalysisReads, RecoverIntact, None, Requeues, NoFile, JobRecord,
         JobStates
    <2> QED
      BY <1>3, <2>1, <2>2, <2>3 DEF TypeOK, AnalysisReads, RecoverIntact, RemovesStaging,
         Requeues, KeepInRecovery, contents, bounds
  <1>4. ASSUME RecoverPromoted PROVE TypeOK' /\ AnalysisReads'
    <2>1. job' \in JobRecord
      BY <1>4 DEF TypeOK, AnalysisReads, RecoverPromoted, None, JobRecord, JobStates
    <2>2. row' \in RowRecord
      BY <1>4 DEF TypeOK, AnalysisReads, RecoverPromoted, RecordsOutput, None, RowRecord,
         WorkerRecord, File, AnalysisRecord
    <2> QED
      BY <1>4, <2>1, <2>2 DEF TypeOK, AnalysisReads, RecoverPromoted, RecordsOutput,
         KeepInRecovery, contents, bounds
  <1>5. ASSUME RecoverUndecidable PROVE TypeOK' /\ AnalysisReads'
    <2>1. row' \in RowRecord
      BY <1>5 DEF TypeOK, AnalysisReads, RecoverUndecidable, None, RowRecord,
         WorkerRecord, File, AnalysisRecord
    <2>2. job' \in JobRecord
      BY <1>5 DEF TypeOK, AnalysisReads, RecoverUndecidable, None, JobRecord, JobStates
    <2>3. excused' \in SUBSET Version
      BY <1>5 DEF TypeOK, AnalysisReads, RecoverUndecidable, None, File, AnalysisRecord
    <2> QED
      BY <1>5, <2>1, <2>2, <2>3 DEF TypeOK, AnalysisReads, RecoverUndecidable,
         KeepInRecovery, contents, bounds
  <1>6. ASSUME SweepOrphans PROVE TypeOK' /\ AnalysisReads'
    <2>1. staged' \in [JobId -> File]
      BY <1>6, FileType DEF TypeOK, SweepOrphans
    <2>2. copied' \in [JobId -> File]
      BY <1>6, FileType DEF TypeOK, SweepOrphans
    <2> QED
      BY <1>6, <2>1, <2>2 DEF TypeOK, AnalysisReads, SweepOrphans, contents, db, history,
         bounds
  <1> QED
    BY <1>1, <1>2, <1>3, <1>4, <1>5, <1>6 DEF Recover

\* Every step of a death of the process keeps the types.
LEMMA CrashType ==
    ASSUME TypeOK, AnalysisReads, Crash
    PROVE  TypeOK' /\ AnalysisReads'
  <1>1. library' \in File
    BY FileType DEF TypeOK, Crash, files
  <1>2. staged' \in [JobId -> File]
    BY FileType DEF TypeOK, Crash, files
  <1>3. copied' \in [JobId -> File]
    BY FileType DEF TypeOK, Crash, files
  <1>4. worker' \in WorkerRecord
    BY DEF TypeOK, AnalysisReads, Crash, Idle, NoAnalysis, None, WorkerRecord,
       WorkerPoints, JobRecord, RowRecord, File, Version, JobId
  <1>5. analysis' \in AnalysisRecord
    BY DEF TypeOK, AnalysisReads, Crash, Idle, NoAnalysis, None, AnalysisRecord,
       AnalysisPoints, File, RowRecord
  <1> QED
    <2>1. AnalysisReads'
      BY DEF Crash, NoAnalysis, AnalysisReads
    <2>2. crashes' \in Nat
      BY DEF TypeOK, Crash
    <2>3. up' \in BOOLEAN /\ pending' \in BOOLEAN
      BY DEF Crash
    <2> QED
      BY <1>1, <1>2, <1>3, <1>4, <1>5, <2>1, <2>2, <2>3
         DEF TypeOK, Crash, contents, db, history

\* Every reachable state is well typed, and an analysis at work has read something.
THEOREM Typed == Spec => [](TypeOK /\ AnalysisReads)
  <1>1. Init => TypeOK /\ AnalysisReads
    <2> SUFFICES ASSUME Init PROVE TypeOK /\ AnalysisReads
      OBVIOUS
    <2>1. 1 \in Version /\ 1 \in JobId
      BY PromotionAssumption DEF Version, JobId
    <2>2. library \in File /\ staged \in [JobId -> File] /\ copied \in [JobId -> File]
      BY <2>1, FileType DEF Init, Complete
    <2>3. row \in RowRecord /\ job \in JobRecord
      BY <2>1 DEF Init, RowRecord, JobRecord, JobStates, None
    <2>4. worker \in WorkerRecord /\ analysis \in AnalysisRecord
      BY DEF Init, Idle, NoAnalysis, WorkerRecord, WorkerPoints, AnalysisRecord,
         AnalysisPoints, None
    <2>5. AnalysisReads
      BY DEF Init, NoAnalysis, AnalysisReads
    <2> QED
      BY <2>2, <2>3, <2>4, <2>5 DEF Init, TypeOK, Makers, None
  <1>2. TypeOK /\ AnalysisReads /\ [Next]_vars => TypeOK' /\ AnalysisReads'
    <2>1. ASSUME TypeOK, AnalysisReads, UNCHANGED vars PROVE TypeOK' /\ AnalysisReads'
      BY <2>1 DEF vars, contents, files, db, history, bounds, TypeOK, AnalysisReads
    <2> QED
      BY <2>1, PipelineType, AnalyzerType, OutsideType, RecoverType, CrashType DEF Next
  <1> QED
    BY <1>1, <1>2, PTL DEF Spec

-----------------------------------------------------------------------------
(* The library file. *)

\* Points between the claim and the rename: the worker owns the active row.
BeforeRename == {"preflight", "attempt", "encode", "encoding", "finalise", "probe",
                 "verify", "stage", "copying", "guard", "recheck"}
Verified == {"stage", "copying", "guard", "recheck"}

Target == IF worker.temp THEN copied[job.id] ELSE staged[job.id]

Fit(f) == f.v # None /\ f.whole /\ sound[f.v] /\ made[f.v] # "none"

\* Only a serving process works, and its row stays active until the rename: so
\* no new row can change which staging file the pipeline means.
OwnsRow ==
    /\ worker.pc # "idle" => up
    /\ worker.pc \in BeforeRename => job.state \in ActiveStates \ {"queued"}
    /\ worker.pc # "idle" => worker.job \in JobId
    /\ job.id \in JobId

\* A promotion to be resumed waits with its row, and nothing else runs.
PendingWaits == pending => worker.pc = "idle" /\ job.state = "awaiting"

\* An unused version has no content to be unsound, and no file holds it.
FreshIsSound == \A v \in Version : made[v] = "none" => sound[v]
FilesAreMade == \A j \in JobId : staged[j].v # None => made[staged[j].v] # "none"

\* Verification holds from its success to the rename, on the path renamed.
StagedIsFit == worker.pc \in Verified => Fit(staged[job.id])
CopiedIsFit == worker.pc \in {"guard", "recheck"} /\ worker.temp => Fit(copied[job.id])
TargetIsSynced == worker.pc = "recheck" => Target.synced

\* The library file is flushed, so that a power cut leaves it alone.
LibraryIsFit == library.v # None => Fit(library) /\ library.synced

PlayableInv ==
    /\ OwnsRow /\ PendingWaits
    /\ FreshIsSound /\ FilesAreMade
    /\ StagedIsFit /\ CopiedIsFit /\ TargetIsSynced
    /\ LibraryIsFit

\* Every step of the pipeline keeps the library file and what will replace it fit.
LEMMA PipelinePlayable ==
    ASSUME TypeOK, AnalysisReads, PlayableInv, Pipeline
    PROVE  PlayableInv'
  <1>1. ASSUME Polls PROVE PlayableInv'
    <2>1. /\ OwnsRow'
          /\ PendingWaits'
          /\ FreshIsSound'
          /\ FilesAreMade'
          /\ StagedIsFit'
          /\ CopiedIsFit'
          /\ TargetIsSynced'
          /\ LibraryIsFit'
      BY <1>1 DEF PlayableInv, OwnsRow, PendingWaits, FreshIsSound, FilesAreMade,
         StagedIsFit, Fit, CopiedIsFit, TargetIsSynced, Target, LibraryIsFit, Polls, vars,
         contents, files, db
    <2> QED
      BY <2>1 DEF PlayableInv
  <1>2. ASSUME Load PROVE PlayableInv'
    <2>1. OwnsRow'
      <3>1. CASE PlansAsSkip(row.probed)
        BY <1>2, <3>1, Held, EndsMoves DEF PlayableInv, OwnsRow, BeforeRename, Load
      <3>2. CASE ~PlansAsSkip(row.probed)
        <4>1. /\ worker'.pc = "preflight" /\ worker'.job = job.id /\ up'
              /\ job'.id = job.id /\ job'.state = "running"
          BY <1>2, <3>2 DEF TypeOK, JobRecord, Load, Idle, KeepOutsiders
        <4> QED
          BY <4>1, Held DEF OwnsRow, ActiveStates
      <3> QED
        BY <3>1, <3>2
    <2>2. PendingWaits'
      BY <1>2 DEF PlayableInv, PendingWaits, Load, Ends, KeepOutsiders
    <2>3. StagedIsFit'
      BY <1>2, LoadPoint DEF StagedIsFit, Verified
    <2>4. CopiedIsFit'
      BY <1>2, LoadPoint DEF CopiedIsFit
    <2>5. TargetIsSynced'
      BY <1>2, LoadPoint DEF TargetIsSynced
    <2>6. FreshIsSound' /\ FilesAreMade' /\ LibraryIsFit'
      BY <1>2 DEF PlayableInv, FreshIsSound, FilesAreMade, LibraryIsFit, Fit, Load,
         KeepContents, files, contents
    <2> QED
      BY <2>1, <2>2, <2>3, <2>4, <2>5, <2>6 DEF PlayableInv
  <1>3. ASSUME Preflight PROVE PlayableInv'
    <2>1. OwnsRow'
      BY <1>3 DEF PlayableInv, OwnsRow, BeforeRename, ActiveStates, Preflight, At,
         KeepOutsiders, db
    <2>2. PendingWaits'
      BY <1>3 DEF PlayableInv, PendingWaits, Preflight, At, KeepOutsiders, db
    <2>3. StagedIsFit'
      BY <1>3 DEF PlayableInv, StagedIsFit, Verified, Preflight, KeepContents, files, db,
         contents
    <2>4. CopiedIsFit'
      BY <1>3 DEF PlayableInv, CopiedIsFit, Preflight, KeepContents, files, db, contents
    <2>5. TargetIsSynced'
      BY <1>3 DEF PlayableInv, TargetIsSynced, Target, Preflight, files, db
    <2>6. FreshIsSound' /\ FilesAreMade' /\ LibraryIsFit'
      BY <1>3 DEF PlayableInv, FreshIsSound, FilesAreMade, LibraryIsFit, Fit, Preflight,
         KeepContents, files, contents
    <2> QED
      BY <2>1, <2>2, <2>3, <2>4, <2>5, <2>6 DEF PlayableInv
  <1>4. ASSUME PreflightFails PROVE PlayableInv'
    <2>1. OwnsRow'
      BY <1>4 DEF PlayableInv, OwnsRow, BeforeRename, ActiveStates, PreflightFails, Ends,
         KeepOutsiders, Idle
    <2>2. PendingWaits'
      BY <1>4 DEF PlayableInv, PendingWaits, PreflightFails, At, Ends, KeepOutsiders
    <2>3. StagedIsFit'
      BY <1>4 DEF PlayableInv, StagedIsFit, Verified, PreflightFails, Ends, KeepContents,
         files, Idle, contents
    <2>4. CopiedIsFit'
      BY <1>4 DEF PlayableInv, CopiedIsFit, PreflightFails, Ends, KeepContents, files,
         Idle, contents
    <2>5. TargetIsSynced'
      BY <1>4 DEF PlayableInv, TargetIsSynced, Target, PreflightFails, Ends, files, Idle
    <2>6. FreshIsSound' /\ FilesAreMade' /\ LibraryIsFit'
      BY <1>4 DEF PlayableInv, FreshIsSound, FilesAreMade, LibraryIsFit, Fit,
         PreflightFails, KeepContents, files, contents
    <2> QED
      BY <2>1, <2>2, <2>3, <2>4, <2>5, <2>6 DEF PlayableInv
  <1>5. ASSUME RecordExecution PROVE PlayableInv'
    <2>1. OwnsRow'
      BY <1>5 DEF PlayableInv, OwnsRow, BeforeRename, ActiveStates, RecordExecution, At,
         Goto, KeepOutsiders
    <2>2. PendingWaits'
      BY <1>5 DEF PlayableInv, PendingWaits, RecordExecution, At, Goto, KeepOutsiders
    <2>3. StagedIsFit'
      BY <1>5 DEF PlayableInv, StagedIsFit, Verified, RecordExecution, Goto, KeepContents,
         files, contents
    <2>4. CopiedIsFit'
      BY <1>5 DEF PlayableInv, CopiedIsFit, RecordExecution, Goto, KeepContents, files,
         contents
    <2>5. TargetIsSynced'
      BY <1>5 DEF PlayableInv, TargetIsSynced, Target, RecordExecution, Goto, files
    <2>6. FreshIsSound' /\ FilesAreMade' /\ LibraryIsFit'
      BY <1>5 DEF PlayableInv, FreshIsSound, FilesAreMade, LibraryIsFit, Fit,
         RecordExecution, KeepContents, files, contents
    <2> QED
      BY <2>1, <2>2, <2>3, <2>4, <2>5, <2>6 DEF PlayableInv
  <1>6. ASSUME EncodeBegins PROVE PlayableInv'
    <2>1. OwnsRow'
      BY <1>6 DEF PlayableInv, OwnsRow, BeforeRename, ActiveStates, EncodeBegins, At,
         Goto, KeepOutsiders, db
    <2>2. PendingWaits'
      BY <1>6 DEF PlayableInv, PendingWaits, EncodeBegins, At, Goto, KeepOutsiders, db
    <2>3. FreshIsSound'
      BY <1>6 DEF TypeOK, PlayableInv, FreshIsSound, EncodeBegins, Unused
    <2>4. FilesAreMade'
      BY <1>6 DEF TypeOK, PlayableInv, FilesAreMade, EncodeBegins, Unused
    <2>5. StagedIsFit'
      BY <1>6 DEF PlayableInv, StagedIsFit, Verified, EncodeBegins, Unused, Goto, db
    <2>6. CopiedIsFit'
      BY <1>6 DEF PlayableInv, CopiedIsFit, EncodeBegins, Unused, Goto, db
    <2>7. TargetIsSynced'
      BY <1>6 DEF PlayableInv, TargetIsSynced, Target, EncodeBegins, Goto, db
    <2>8. LibraryIsFit'
      BY <1>6 DEF PlayableInv, LibraryIsFit, Fit, EncodeBegins, Unused
    <2> QED
      BY <2>1, <2>2, <2>3, <2>4, <2>5, <2>6, <2>7, <2>8 DEF PlayableInv
  <1>7. ASSUME EncodeEnds PROVE PlayableInv'
    <2>1. OwnsRow'
      BY <1>7 DEF PlayableInv, OwnsRow, BeforeRename, ActiveStates, EncodeEnds, At, Goto,
         KeepOutsiders, db
    <2>2. PendingWaits'
      BY <1>7 DEF PlayableInv, PendingWaits, EncodeEnds, At, Goto, KeepOutsiders, db
    <2>3. FilesAreMade'
      BY <1>7 DEF PlayableInv, FilesAreMade, EncodeEnds, KeepContents, contents
    <2>4. StagedIsFit'
      BY <1>7 DEF PlayableInv, StagedIsFit, Verified, EncodeEnds, Goto, KeepContents, db,
         contents
    <2>5. CopiedIsFit'
      BY <1>7 DEF PlayableInv, CopiedIsFit, EncodeEnds, Goto, KeepContents, db, contents
    <2>6. TargetIsSynced'
      BY <1>7 DEF PlayableInv, TargetIsSynced, Target, EncodeEnds, Goto, db
    <2>7. FreshIsSound' /\ LibraryIsFit'
      BY <1>7 DEF PlayableInv, FreshIsSound, LibraryIsFit, Fit, EncodeEnds, KeepContents,
         contents
    <2> QED
      BY <2>1, <2>2, <2>3, <2>4, <2>5, <2>6, <2>7 DEF PlayableInv
  <1>8. ASSUME GivesUp PROVE PlayableInv'
    <2>1. OwnsRow'
      BY <1>8 DEF PlayableInv, OwnsRow, BeforeRename, ActiveStates, GivesUp, Ends,
         KeepOutsiders, Idle
    <2>2. PendingWaits'
      BY <1>8 DEF PlayableInv, PendingWaits, GivesUp, Ends, KeepOutsiders
    <2>3. FilesAreMade'
      BY <1>8 DEF PlayableInv, FilesAreMade, GivesUp, NoFile, KeepContents, contents
    <2>4. StagedIsFit'
      BY <1>8 DEF PlayableInv, StagedIsFit, Verified, GivesUp, Ends, KeepContents, Idle,
         contents
    <2>5. CopiedIsFit'
      BY <1>8 DEF PlayableInv, CopiedIsFit, GivesUp, Ends, KeepContents, Idle, contents
    <2>6. TargetIsSynced'
      BY <1>8 DEF PlayableInv, TargetIsSynced, Target, GivesUp, Ends, Idle
    <2>7. FreshIsSound' /\ LibraryIsFit'
      BY <1>8 DEF PlayableInv, FreshIsSound, LibraryIsFit, Fit, GivesUp, KeepContents,
         contents
    <2> QED
      BY <2>1, <2>2, <2>3, <2>4, <2>5, <2>6, <2>7 DEF PlayableInv
  <1>9. ASSUME EnterVerifying PROVE PlayableInv'
    <2>1. OwnsRow'
      BY <1>9 DEF PlayableInv, OwnsRow, BeforeRename, ActiveStates, EnterVerifying, At,
         Goto, KeepOutsiders
    <2>2. PendingWaits'
      BY <1>9 DEF PlayableInv, PendingWaits, EnterVerifying, At, Goto, KeepOutsiders
    <2>3. StagedIsFit'
      BY <1>9 DEF PlayableInv, StagedIsFit, Verified, EnterVerifying, Goto, KeepContents,
         files, contents
    <2>4. CopiedIsFit'
      BY <1>9 DEF PlayableInv, CopiedIsFit, EnterVerifying, Goto, KeepContents, files,
         contents
    <2>5. TargetIsSynced'
      BY <1>9 DEF PlayableInv, TargetIsSynced, Target, EnterVerifying, Goto, files
    <2>6. FreshIsSound' /\ FilesAreMade' /\ LibraryIsFit'
      BY <1>9 DEF PlayableInv, FreshIsSound, FilesAreMade, LibraryIsFit, Fit,
         EnterVerifying, KeepContents, files, contents
    <2> QED
      BY <2>1, <2>2, <2>3, <2>4, <2>5, <2>6 DEF PlayableInv
  <1>10. ASSUME EnterPromoting PROVE PlayableInv'
    <2>1. OwnsRow'
      BY <1>10 DEF PlayableInv, OwnsRow, BeforeRename, ActiveStates, EnterPromoting, At,
         Goto, KeepOutsiders
    <2>2. PendingWaits'
      BY <1>10 DEF PlayableInv, PendingWaits, EnterPromoting, At, Goto, KeepOutsiders
    <2>3. StagedIsFit'
      BY <1>10 DEF PlayableInv, StagedIsFit, Verified, EnterPromoting, Goto, KeepContents,
         files, contents
    <2>4. CopiedIsFit'
      BY <1>10 DEF PlayableInv, CopiedIsFit, EnterPromoting, Goto, KeepContents, files,
         contents
    <2>5. TargetIsSynced'
      BY <1>10 DEF PlayableInv, TargetIsSynced, Target, EnterPromoting, Goto, files
    <2>6. FreshIsSound' /\ FilesAreMade' /\ LibraryIsFit'
      BY <1>10 DEF PlayableInv, FreshIsSound, FilesAreMade, LibraryIsFit, Fit,
         EnterPromoting, KeepContents, files, contents
    <2> QED
      BY <2>1, <2>2, <2>3, <2>4, <2>5, <2>6 DEF PlayableInv
  <1>11. ASSUME Verify PROVE PlayableInv'
    <2>1. OwnsRow'
      BY <1>11 DEF PlayableInv, OwnsRow, BeforeRename, ActiveStates, Verify, At, Verifies,
         Goto, KeepOutsiders, db
    <2>2. PendingWaits'
      BY <1>11 DEF PlayableInv, PendingWaits, Verify, At, Verifies, Goto, KeepOutsiders,
         db
    <2>3. StagedIsFit'
      BY <1>11 DEF TypeOK, PlayableInv, StagedIsFit, Fit, JobRecord, FilesAreMade, Verify,
         Verifies, Goto, KeepContents, files, db, contents
    <2>4. CopiedIsFit'
      BY <1>11 DEF PlayableInv, CopiedIsFit, Verify, Verifies, Goto, KeepContents, files,
         db, contents
    <2>5. TargetIsSynced'
      BY <1>11 DEF PlayableInv, TargetIsSynced, Target, Verify, Verifies, Goto, files, db
    <2>6. FreshIsSound' /\ FilesAreMade' /\ LibraryIsFit'
      BY <1>11 DEF PlayableInv, FreshIsSound, FilesAreMade, LibraryIsFit, Fit, Verify,
         KeepContents, files, contents
    <2> QED
      BY <2>1, <2>2, <2>3, <2>4, <2>5, <2>6 DEF PlayableInv
  <1>12. ASSUME VerifyFails PROVE PlayableInv'
    <2>1. OwnsRow'
      BY <1>12 DEF TypeOK, PlayableInv, OwnsRow, BeforeRename, ActiveStates, JobRecord,
         VerifyFails, Ends, KeepOutsiders, Idle
    <2>2. PendingWaits'
      BY <1>12 DEF PlayableInv, PendingWaits, VerifyFails, At, Ends, KeepOutsiders
    <2>3. FilesAreMade'
      BY <1>12 DEF TypeOK, PlayableInv, FilesAreMade, VerifyFails, NoFile, KeepContents,
         contents
    <2>4. StagedIsFit'
      BY <1>12 DEF PlayableInv, StagedIsFit, Verified, VerifyFails, Ends, KeepContents,
         Idle, contents
    <2>5. CopiedIsFit'
      BY <1>12 DEF PlayableInv, CopiedIsFit, VerifyFails, Ends, KeepContents, Idle,
         contents
    <2>6. TargetIsSynced'
      BY <1>12 DEF PlayableInv, TargetIsSynced, Target, VerifyFails, Ends, Idle
    <2>7. FreshIsSound' /\ LibraryIsFit'
      BY <1>12 DEF PlayableInv, FreshIsSound, LibraryIsFit, Fit, VerifyFails,
         KeepContents, contents
    <2> QED
      BY <2>1, <2>2, <2>3, <2>4, <2>5, <2>6, <2>7 DEF PlayableInv
  <1>13. ASSUME Stage PROVE PlayableInv'
    <2>1. OwnsRow'
      BY <1>13 DEF TypeOK, PlayableInv, OwnsRow, BeforeRename, ActiveStates, WorkerRecord,
         Stage, At, Goto, KeepOutsiders, db
    <2>2. PendingWaits'
      BY <1>13 DEF PlayableInv, PendingWaits, Stage, At, Goto, KeepOutsiders, db
    <2>3. StagedIsFit'
      BY <1>13 DEF PlayableInv, StagedIsFit, Verified, Fit, Stage, At, Goto, KeepContents,
         db, contents
    <2>4. CopiedIsFit'
      BY <1>13 DEF TypeOK, PlayableInv, CopiedIsFit, JobRecord, WorkerRecord, Stage, At,
         Goto, KeepContents, db, contents
    <2>5. TargetIsSynced'
      BY <1>13 DEF TypeOK, PlayableInv, TargetIsSynced, Target, WorkerRecord, Stage, Goto,
         db
    <2>6. FreshIsSound' /\ FilesAreMade' /\ LibraryIsFit'
      BY <1>13 DEF PlayableInv, FreshIsSound, FilesAreMade, LibraryIsFit, Fit, Stage,
         KeepContents, contents
    <2> QED
      BY <2>1, <2>2, <2>3, <2>4, <2>5, <2>6 DEF PlayableInv
  <1>14. ASSUME CopyEnds PROVE PlayableInv'
    <2>1. OwnsRow'
      BY <1>14 DEF PlayableInv, OwnsRow, BeforeRename, ActiveStates, CopyEnds, At, Goto,
         KeepOutsiders, db
    <2>2. PendingWaits'
      BY <1>14 DEF PlayableInv, PendingWaits, CopyEnds, At, Goto, KeepOutsiders, db
    <2>3. StagedIsFit'
      BY <1>14 DEF PlayableInv, StagedIsFit, Verified, Fit, CopyEnds, At, Goto,
         KeepContents, db, contents
    <2>4. CopiedIsFit'
      BY <1>14 DEF TypeOK, PlayableInv, CopiedIsFit, Verified, Fit, StagedIsFit,
         JobRecord, CopyEnds, At, Goto, KeepContents, db, contents
    <2>5. TargetIsSynced'
      BY <1>14 DEF PlayableInv, TargetIsSynced, Target, CopyEnds, Goto, db
    <2>6. FreshIsSound' /\ FilesAreMade' /\ LibraryIsFit'
      BY <1>14 DEF PlayableInv, FreshIsSound, FilesAreMade, LibraryIsFit, Fit, CopyEnds,
         KeepContents, contents
    <2> QED
      BY <2>1, <2>2, <2>3, <2>4, <2>5, <2>6 DEF PlayableInv
  <1>15. ASSUME Blocked PROVE PlayableInv'
    <2>1. OwnsRow'
      BY <1>15 DEF PlayableInv, OwnsRow, BeforeRename, ActiveStates, Blocked, Goto,
         KeepOutsiders
    <2>2. PendingWaits'
      BY <1>15 DEF PlayableInv, PendingWaits, Blocked, Goto, KeepOutsiders
    <2>3. StagedIsFit'
      BY <1>15 DEF PlayableInv, StagedIsFit, Verified, Fit, Blocked, Goto, KeepContents,
         files, contents
    <2>4. CopiedIsFit'
      BY <1>15 DEF PlayableInv, CopiedIsFit, Fit, Blocked, Goto, KeepContents, files,
         contents
    <2>5. TargetIsSynced'
      BY <1>15 DEF PlayableInv, TargetIsSynced, Target, Blocked, Goto, files
    <2>6. FreshIsSound' /\ FilesAreMade' /\ LibraryIsFit'
      BY <1>15 DEF PlayableInv, FreshIsSound, FilesAreMade, LibraryIsFit, Fit, Blocked,
         KeepContents, files, contents
    <2> QED
      BY <2>1, <2>2, <2>3, <2>4, <2>5, <2>6 DEF PlayableInv
  <1>16. ASSUME Sync PROVE PlayableInv'
    <2>1. OwnsRow'
      BY <1>16 DEF PlayableInv, OwnsRow, BeforeRename, ActiveStates, Sync, At, Goto,
         KeepOutsiders, db
    <2>2. PendingWaits'
      BY <1>16 DEF PlayableInv, PendingWaits, Sync, At, Goto, KeepOutsiders, db
    <2>3. FilesAreMade'
      <3>1. \A j \in JobId : staged'[j].v = staged[j].v
        BY <1>16, Held DEF TypeOK, Sync, File
      <3> QED
        BY <1>16, <3>1 DEF PlayableInv, FilesAreMade, Sync, KeepContents, contents
    <2>4. StagedIsFit'
      BY <1>16 DEF TypeOK, PlayableInv, StagedIsFit, Verified, Fit, File, Sync, At, Goto,
         KeepContents, db, contents
    <2>5. CopiedIsFit'
      BY SMTT(30), <1>16 DEF TypeOK, PlayableInv, CopiedIsFit, Fit, File, WorkerRecord,
         Sync, At, Goto, KeepContents, db, contents
    <2>6. TargetIsSynced'
      BY <1>16 DEF TypeOK, PlayableInv, TargetIsSynced, Target, File, JobRecord, Sync,
         Goto, db
    <2>7. FreshIsSound' /\ LibraryIsFit'
      BY <1>16 DEF PlayableInv, FreshIsSound, LibraryIsFit, Fit, Sync, KeepContents,
         contents
    <2> QED
      BY <2>1, <2>2, <2>3, <2>4, <2>5, <2>6, <2>7 DEF PlayableInv
  <1>17. ASSUME Rename PROVE PlayableInv'
    <2>1. OwnsRow'
      BY <1>17 DEF PlayableInv, OwnsRow, BeforeRename, ActiveStates, Rename, At, Goto,
         KeepOutsiders, db
    <2>2. PendingWaits'
      BY <1>17 DEF PlayableInv, PendingWaits, Rename, At, Goto, KeepOutsiders, db
    <2>3. FilesAreMade'
      BY <1>17 DEF TypeOK, PlayableInv, FilesAreMade, Rename, NoFile, KeepContents,
         contents
    <2>4. StagedIsFit'
      BY <1>17 DEF PlayableInv, StagedIsFit, Verified, Rename, Goto, KeepContents, db,
         contents
    <2>5. CopiedIsFit'
      BY <1>17 DEF PlayableInv, CopiedIsFit, Rename, Goto, KeepContents, db, contents
    <2>6. TargetIsSynced'
      BY <1>17 DEF PlayableInv, TargetIsSynced, Target, Rename, Goto, db
    <2>7. LibraryIsFit'
      BY <1>17 DEF PlayableInv, LibraryIsFit, Fit, StagedIsFit, CopiedIsFit,
         TargetIsSynced, Target, Verified, Rename, At, KeepContents, contents
    <2>8. FreshIsSound'
      BY <1>17 DEF PlayableInv, FreshIsSound, Rename, KeepContents, contents
    <2> QED
      BY <2>1, <2>2, <2>3, <2>4, <2>5, <2>6, <2>7, <2>8 DEF PlayableInv
  <1>18. ASSUME RecordIdentity PROVE PlayableInv'
    <2>1. OwnsRow'
      BY <1>18 DEF PlayableInv, OwnsRow, BeforeRename, ActiveStates, RecordIdentity, At,
         KeepOutsiders, db
    <2>2. PendingWaits'
      BY <1>18 DEF PlayableInv, PendingWaits, RecordIdentity, At, KeepOutsiders, db
    <2>3. StagedIsFit'
      BY <1>18 DEF PlayableInv, StagedIsFit, Verified, RecordIdentity, KeepContents,
         files, db, contents
    <2>4. CopiedIsFit'
      BY <1>18 DEF PlayableInv, CopiedIsFit, RecordIdentity, KeepContents, files, db,
         contents
    <2>5. TargetIsSynced'
      BY <1>18 DEF PlayableInv, TargetIsSynced, Target, RecordIdentity, files, db
    <2>6. FreshIsSound' /\ FilesAreMade' /\ LibraryIsFit'
      BY <1>18 DEF PlayableInv, FreshIsSound, FilesAreMade, LibraryIsFit, Fit,
         RecordIdentity, KeepContents, files, contents
    <2> QED
      BY <2>1, <2>2, <2>3, <2>4, <2>5, <2>6 DEF PlayableInv
  <1>19. ASSUME Record PROVE PlayableInv'
    <2>1. OwnsRow'
      BY <1>19 DEF TypeOK, PlayableInv, OwnsRow, BeforeRename, ActiveStates, WorkerRecord,
         Record, At, Idle, Goto, KeepOutsiders
    <2>2. PendingWaits'
      BY <1>19 DEF PlayableInv, PendingWaits, Record, At, Goto, KeepOutsiders
    <2>3. StagedIsFit'
      BY <1>19 DEF TypeOK, PlayableInv, StagedIsFit, Verified, WorkerRecord, Record, Idle,
         Goto, KeepContents, files, contents
    <2>4. CopiedIsFit'
      BY <1>19 DEF TypeOK, PlayableInv, CopiedIsFit, WorkerRecord, Record, Idle, Goto,
         KeepContents, files, contents
    <2>5. TargetIsSynced'
      BY <1>19 DEF TypeOK, PlayableInv, TargetIsSynced, Target, WorkerRecord, Record,
         Idle, Goto, files
    <2>6. FreshIsSound' /\ FilesAreMade' /\ LibraryIsFit'
      BY <1>19 DEF PlayableInv, FreshIsSound, FilesAreMade, LibraryIsFit, Fit, Record,
         KeepContents, files, contents
    <2> QED
      BY <2>1, <2>2, <2>3, <2>4, <2>5, <2>6 DEF PlayableInv
  <1>20. ASSUME Regrets PROVE PlayableInv'
    <2>1. OwnsRow'
      BY <1>20 DEF PlayableInv, OwnsRow, BeforeRename, ActiveStates, Regrets, Idle,
         KeepOutsiders
    <2>2. PendingWaits'
      BY <1>20 DEF PlayableInv, PendingWaits, Regrets, At, KeepOutsiders
    <2>3. FilesAreMade'
      BY <1>20 DEF PlayableInv, FilesAreMade, Regrets, NoFile, KeepContents, contents
    <2>4. StagedIsFit'
      BY <1>20 DEF PlayableInv, StagedIsFit, Verified, Regrets, Idle, KeepContents,
         contents
    <2>5. CopiedIsFit'
      BY <1>20 DEF PlayableInv, CopiedIsFit, Regrets, Idle, KeepContents, contents
    <2>6. TargetIsSynced'
      BY <1>20 DEF PlayableInv, TargetIsSynced, Target, Regrets, Idle
    <2>7. FreshIsSound' /\ LibraryIsFit'
      BY <1>20 DEF PlayableInv, FreshIsSound, LibraryIsFit, Fit, Regrets, KeepContents,
         contents
    <2> QED
      BY <2>1, <2>2, <2>3, <2>4, <2>5, <2>6, <2>7 DEF PlayableInv
  <1>21. ASSUME Resume PROVE PlayableInv'
    <2>1. OwnsRow'
      BY <1>21 DEF PlayableInv, OwnsRow, BeforeRename, ActiveStates, PendingWaits, Resume,
         db
    <2>2. PendingWaits'
      BY <1>21 DEF PlayableInv, PendingWaits, Resume, db
    <2>3. StagedIsFit'
      BY <1>21 DEF PlayableInv, StagedIsFit, Verified, Resume, contents, files, db
    <2>4. CopiedIsFit'
      BY <1>21 DEF PlayableInv, CopiedIsFit, Resume, contents, files, db
    <2>5. TargetIsSynced'
      BY <1>21 DEF PlayableInv, TargetIsSynced, Target, Resume, files, db
    <2>6. FreshIsSound' /\ FilesAreMade' /\ LibraryIsFit'
      BY <1>21 DEF PlayableInv, FreshIsSound, FilesAreMade, LibraryIsFit, Fit, Resume,
         contents, files
    <2> QED
      BY <2>1, <2>2, <2>3, <2>4, <2>5, <2>6 DEF PlayableInv
  <1> QED
    BY <1>1, <1>2, <1>3, <1>4, <1>5, <1>6, <1>7, <1>8, <1>9, <1>10, <1>11, <1>12, <1>13,
       <1>14, <1>15, <1>16, <1>17, <1>18, <1>19, <1>20, <1>21 DEF Pipeline

\* Every step of the analyzer keeps the library file and what will replace it fit.
LEMMA AnalyzerPlayable ==
    ASSUME TypeOK, AnalysisReads, PlayableInv, Analyzer
    PROVE  PlayableInv'
  <1>1. ASSUME AnalyzeReads PROVE PlayableInv'
    <2>1. /\ OwnsRow'
          /\ PendingWaits'
          /\ FreshIsSound'
          /\ FilesAreMade'
          /\ StagedIsFit'
          /\ CopiedIsFit'
          /\ TargetIsSynced'
          /\ LibraryIsFit'
      BY <1>1 DEF PlayableInv, OwnsRow, PendingWaits, FreshIsSound, FilesAreMade,
         StagedIsFit, Fit, CopiedIsFit, TargetIsSynced, Target, LibraryIsFit,
         AnalyzeReads, KeepWorker, db, contents, files
    <2> QED
      BY <2>1 DEF PlayableInv
  <1>2. ASSUME AnalyzeUpserts PROVE PlayableInv'
    <2>1. /\ OwnsRow'
          /\ PendingWaits'
          /\ FreshIsSound'
          /\ FilesAreMade'
          /\ StagedIsFit'
          /\ CopiedIsFit'
          /\ TargetIsSynced'
          /\ LibraryIsFit'
      BY <1>2 DEF PlayableInv, OwnsRow, PendingWaits, FreshIsSound, FilesAreMade,
         StagedIsFit, Fit, CopiedIsFit, TargetIsSynced, Target, LibraryIsFit,
         AnalyzeUpserts, KeepWorker, contents, files
    <2> QED
      BY <2>1 DEF PlayableInv
  <1>3. ASSUME AnalyzeProbes PROVE PlayableInv'
    <2>1. /\ OwnsRow'
          /\ PendingWaits'
          /\ FreshIsSound'
          /\ FilesAreMade'
          /\ StagedIsFit'
          /\ CopiedIsFit'
          /\ TargetIsSynced'
          /\ LibraryIsFit'
      BY <1>3 DEF PlayableInv, OwnsRow, PendingWaits, FreshIsSound, FilesAreMade,
         StagedIsFit, Fit, CopiedIsFit, TargetIsSynced, Target, LibraryIsFit,
         AnalyzeProbes, KeepWorker, contents, files
    <2> QED
      BY <2>1 DEF PlayableInv
  <1>4. ASSUME AnalyzeDecides PROVE PlayableInv'
    <2>1. /\ OwnsRow'
          /\ PendingWaits'
          /\ FreshIsSound'
          /\ FilesAreMade'
          /\ StagedIsFit'
          /\ CopiedIsFit'
          /\ TargetIsSynced'
          /\ LibraryIsFit'
      BY <1>4 DEF PlayableInv, OwnsRow, PendingWaits, FreshIsSound, FilesAreMade,
         StagedIsFit, Fit, CopiedIsFit, TargetIsSynced, Target, LibraryIsFit,
         AnalyzeDecides, KeepWorker, contents, files
    <2> QED
      BY <2>1 DEF PlayableInv
  <1>5. ASSUME AnalyzeEnqueues PROVE PlayableInv'
    <2>1. OwnsRow'
      <3>1. CASE job.state \notin ActiveStates /\ NewJob
        <4>1. job'.id \in JobId
          BY <3>1, NewJobType DEF JobRecord
        <4> QED
          BY <1>5, <3>1, <4>1 DEF PlayableInv, OwnsRow, AnalyzeEnqueues, KeepWorker
      <3>2. CASE UNCHANGED <<job, row>>
        BY <1>5, <3>2 DEF PlayableInv, OwnsRow, AnalyzeEnqueues, KeepWorker
      <3> QED
        BY <1>5, <3>1, <3>2 DEF AnalyzeEnqueues
    <2>2. PendingWaits'
      BY <1>5 DEF PlayableInv, PendingWaits, ActiveStates, AnalyzeEnqueues, NewJob,
         KeepWorker
    <2>3. StagedIsFit'
      BY <1>5 DEF PlayableInv, StagedIsFit, Verified, Fit, OwnsRow, BeforeRename,
         AnalyzeEnqueues, NewJob, KeepWorker, contents, files
    <2>4. CopiedIsFit'
      BY <1>5 DEF PlayableInv, CopiedIsFit, Fit, OwnsRow, BeforeRename, AnalyzeEnqueues,
         NewJob, KeepWorker, contents, files
    <2>5. TargetIsSynced'
      BY <1>5 DEF PlayableInv, TargetIsSynced, Target, OwnsRow, BeforeRename,
         AnalyzeEnqueues, NewJob, KeepWorker, files
    <2>6. FreshIsSound' /\ FilesAreMade' /\ LibraryIsFit'
      BY <1>5 DEF PlayableInv, FreshIsSound, FilesAreMade, LibraryIsFit, Fit,
         AnalyzeEnqueues, KeepWorker, contents, files
    <2> QED
      BY <2>1, <2>2, <2>3, <2>4, <2>5, <2>6 DEF PlayableInv
  <1> QED
    BY <1>1, <1>2, <1>3, <1>4, <1>5 DEF Analyzer

\* Every step of users and outsiders keeps the library file and what will replace it fit.
LEMMA OutsidePlayable ==
    ASSUME TypeOK, AnalysisReads, PlayableInv, Outside
    PROVE  PlayableInv'
  <1>1. ASSUME UserQueues PROVE PlayableInv'
    <2>1. OwnsRow'
      <3>1. job'.id \in JobId
        BY <1>1, NewJobType DEF UserQueues, JobRecord
      <3> QED
        BY <1>1, <3>1 DEF PlayableInv, OwnsRow, ActiveStates, UserQueues, KeepMachine
    <2>2. PendingWaits'
      BY <1>1 DEF PlayableInv, PendingWaits, ActiveStates, UserQueues, NewJob, KeepMachine
    <2>3. StagedIsFit'
      BY <1>1 DEF PlayableInv, StagedIsFit, Verified, OwnsRow, BeforeRename, UserQueues,
         NewJob, KeepMachine, contents
    <2>4. CopiedIsFit'
      BY <1>1 DEF PlayableInv, CopiedIsFit, OwnsRow, BeforeRename, UserQueues, NewJob,
         KeepMachine, contents
    <2>5. TargetIsSynced'
      BY <1>1 DEF PlayableInv, TargetIsSynced, Target, OwnsRow, BeforeRename, UserQueues,
         NewJob, KeepMachine
    <2>6. FreshIsSound' /\ FilesAreMade' /\ LibraryIsFit'
      BY <1>1 DEF PlayableInv, FreshIsSound, FilesAreMade, LibraryIsFit, Fit, UserQueues,
         KeepMachine, contents
    <2> QED
      BY <2>1, <2>2, <2>3, <2>4, <2>5, <2>6 DEF PlayableInv
  <1>2. ASSUME UserRestarts PROVE PlayableInv'
    <2>1. OwnsRow'
      BY <1>2 DEF PlayableInv, OwnsRow, BeforeRename, ActiveStates, UserRestarts,
         KeepMachine
    <2>2. PendingWaits'
      BY <1>2 DEF PlayableInv, PendingWaits, UserRestarts, KeepMachine
    <2>3. StagedIsFit'
      BY <1>2 DEF PlayableInv, StagedIsFit, Fit, UserRestarts, KeepMachine, contents
    <2>4. CopiedIsFit'
      BY <1>2 DEF PlayableInv, CopiedIsFit, UserRestarts, KeepMachine, contents
    <2>5. TargetIsSynced'
      BY <1>2 DEF PlayableInv, TargetIsSynced, Target, UserRestarts, KeepMachine
    <2>6. FreshIsSound' /\ FilesAreMade' /\ LibraryIsFit'
      BY <1>2 DEF PlayableInv, FreshIsSound, FilesAreMade, LibraryIsFit, Fit,
         UserRestarts, KeepMachine, contents
    <2> QED
      BY <2>1, <2>2, <2>3, <2>4, <2>5, <2>6 DEF PlayableInv
  <1>3. ASSUME OutsiderWrites PROVE PlayableInv'
    <2>1. FreshIsSound'
      BY <1>3 DEF PlayableInv, FreshIsSound, OutsiderWrites, Unused, Complete
    <2>2. FilesAreMade'
      BY <1>3 DEF PlayableInv, FilesAreMade, OutsiderWrites, Unused, Complete, KeepMachine
    <2>3. StagedIsFit'
      BY <1>3 DEF PlayableInv, StagedIsFit, Fit, OutsiderWrites, Unused, Complete,
         KeepMachine, db
    <2>4. CopiedIsFit'
      BY <1>3 DEF PlayableInv, CopiedIsFit, Fit, OutsiderWrites, Unused, Complete,
         KeepMachine, db
    <2>5. LibraryIsFit'
      BY <1>3 DEF TypeOK, PlayableInv, LibraryIsFit, Fit, FreshIsSound, Makers,
         OutsiderWrites, Unused, Complete
    <2>6. OwnsRow' /\ PendingWaits' /\ TargetIsSynced'
      BY <1>3 DEF PlayableInv, OwnsRow, PendingWaits, TargetIsSynced, Target,
         OutsiderWrites, KeepMachine, db
    <2> QED
      BY <2>1, <2>2, <2>3, <2>4, <2>5, <2>6 DEF PlayableInv
  <1>4. ASSUME OutsiderDeletes PROVE PlayableInv'
    <2>1. LibraryIsFit'
      BY <1>4 DEF PlayableInv, LibraryIsFit, OutsiderDeletes, NoFile, contents
    <2>2. /\ OwnsRow'
          /\ PendingWaits'
          /\ FreshIsSound'
          /\ FilesAreMade'
          /\ StagedIsFit'
          /\ CopiedIsFit'
          /\ TargetIsSynced'
      BY <1>4 DEF PlayableInv, OwnsRow, PendingWaits, FreshIsSound, FilesAreMade,
         StagedIsFit, Fit, CopiedIsFit, TargetIsSynced, Target, OutsiderDeletes,
         KeepMachine, contents, db
    <2> QED
      BY <2>1, <2>2 DEF PlayableInv
  <1> QED
    BY <1>1, <1>2, <1>3, <1>4 DEF Outside

\* Every step of recovery keeps the library file and what will replace it fit.
LEMMA RecoverPlayable ==
    ASSUME TypeOK, AnalysisReads, PlayableInv, Recover
    PROVE  PlayableInv'
  <1>1. ASSUME RecoverDied PROVE PlayableInv'
    <2>1. OwnsRow'
      BY <1>1 DEF PlayableInv, OwnsRow, BeforeRename, ActiveStates, RecoverDied, Requeues,
         KeepInRecovery
    <2>2. PendingWaits'
      BY <1>1 DEF PlayableInv, PendingWaits, RecoverDied, Requeues, KeepInRecovery
    <2>3. FilesAreMade'
      BY <1>1 DEF PlayableInv, FilesAreMade, RecoverDied, RemovesStaging, KeepInRecovery,
         NoFile, contents
    <2>4. StagedIsFit'
      BY <1>1 DEF PlayableInv, StagedIsFit, Verified, OwnsRow, BeforeRename, RecoverDied,
         RemovesStaging, Requeues, KeepInRecovery, contents
    <2>5. CopiedIsFit'
      BY <1>1 DEF PlayableInv, CopiedIsFit, Fit, RecoverDied, Requeues, KeepInRecovery,
         contents
    <2>6. TargetIsSynced'
      BY <1>1 DEF PlayableInv, TargetIsSynced, Target, OwnsRow, BeforeRename, RecoverDied,
         RemovesStaging, Requeues, KeepInRecovery
    <2>7. FreshIsSound' /\ LibraryIsFit'
      BY <1>1 DEF PlayableInv, FreshIsSound, LibraryIsFit, Fit, RecoverDied,
         KeepInRecovery, contents
    <2> QED
      BY <2>1, <2>2, <2>3, <2>4, <2>5, <2>6, <2>7 DEF PlayableInv
  <1>2. ASSUME RecoverResumes PROVE PlayableInv'
    <2>1. PendingWaits'
      BY <1>2 DEF PlayableInv, PendingWaits, OwnsRow, RecoverResumes, StagingVerifies,
         KeepInRecovery, db, Verifies
    <2>2. /\ OwnsRow'
          /\ FreshIsSound'
          /\ FilesAreMade'
          /\ StagedIsFit'
          /\ CopiedIsFit'
          /\ TargetIsSynced'
          /\ LibraryIsFit'
      BY <1>2 DEF PlayableInv, OwnsRow, FreshIsSound, FilesAreMade, StagedIsFit, Fit,
         CopiedIsFit, TargetIsSynced, Target, LibraryIsFit, RecoverResumes,
         KeepInRecovery, db, contents
    <2> QED
      BY <2>1, <2>2 DEF PlayableInv
  <1>3. ASSUME RecoverIntact PROVE PlayableInv'
    <2>1. OwnsRow'
      BY <1>3 DEF PlayableInv, OwnsRow, BeforeRename, ActiveStates, RecoverIntact,
         NeedsVerdict, Requeues, KeepInRecovery
    <2>2. PendingWaits'
      BY <1>3 DEF PlayableInv, PendingWaits, RecoverIntact, NeedsVerdict, Requeues,
         KeepInRecovery
    <2>3. FilesAreMade'
      BY <1>3 DEF PlayableInv, FilesAreMade, RecoverIntact, NeedsVerdict, RemovesStaging,
         KeepInRecovery, NoFile, contents
    <2>4. StagedIsFit'
      BY <1>3 DEF PlayableInv, StagedIsFit, Verified, OwnsRow, BeforeRename,
         RecoverIntact, NeedsVerdict, RemovesStaging, Requeues, KeepInRecovery, contents
    <2>5. CopiedIsFit'
      BY <1>3 DEF PlayableInv, CopiedIsFit, Fit, RecoverIntact, NeedsVerdict, Requeues,
         KeepInRecovery, contents
    <2>6. TargetIsSynced'
      BY <1>3 DEF PlayableInv, TargetIsSynced, Target, OwnsRow, BeforeRename,
         RecoverIntact, NeedsVerdict, RemovesStaging, Requeues, KeepInRecovery
    <2>7. FreshIsSound' /\ LibraryIsFit'
      BY <1>3 DEF PlayableInv, FreshIsSound, LibraryIsFit, Fit, RecoverIntact,
         KeepInRecovery, contents
    <2> QED
      BY <2>1, <2>2, <2>3, <2>4, <2>5, <2>6, <2>7 DEF PlayableInv
  <1>4. ASSUME RecoverPromoted PROVE PlayableInv'
    <2>1. OwnsRow'
      BY <1>4 DEF PlayableInv, OwnsRow, BeforeRename, ActiveStates, RecoverPromoted,
         NeedsVerdict, KeepInRecovery
    <2>2. PendingWaits'
      BY <1>4 DEF PlayableInv, PendingWaits, RecoverPromoted, NeedsVerdict, KeepInRecovery
    <2>3. StagedIsFit'
      BY <1>4 DEF PlayableInv, StagedIsFit, Fit, RecoverPromoted, NeedsVerdict,
         KeepInRecovery, contents
    <2>4. CopiedIsFit'
      BY <1>4 DEF PlayableInv, CopiedIsFit, Fit, RecoverPromoted, NeedsVerdict,
         KeepInRecovery, contents
    <2>5. TargetIsSynced'
      BY <1>4 DEF PlayableInv, TargetIsSynced, Target, RecoverPromoted, NeedsVerdict,
         KeepInRecovery
    <2>6. FreshIsSound' /\ FilesAreMade' /\ LibraryIsFit'
      BY <1>4 DEF PlayableInv, FreshIsSound, FilesAreMade, LibraryIsFit, Fit,
         RecoverPromoted, KeepInRecovery, contents
    <2> QED
      BY <2>1, <2>2, <2>3, <2>4, <2>5, <2>6 DEF PlayableInv
  <1>5. ASSUME RecoverUndecidable PROVE PlayableInv'
    <2>1. OwnsRow'
      BY <1>5 DEF PlayableInv, OwnsRow, BeforeRename, ActiveStates, RecoverUndecidable,
         NeedsVerdict, KeepInRecovery
    <2>2. PendingWaits'
      BY <1>5 DEF PlayableInv, PendingWaits, RecoverUndecidable, NeedsVerdict,
         KeepInRecovery
    <2>3. StagedIsFit'
      BY <1>5 DEF PlayableInv, StagedIsFit, Fit, RecoverUndecidable, NeedsVerdict,
         KeepInRecovery, contents
    <2>4. CopiedIsFit'
      BY <1>5 DEF PlayableInv, CopiedIsFit, Fit, RecoverUndecidable, NeedsVerdict,
         KeepInRecovery, contents
    <2>5. TargetIsSynced'
      BY <1>5 DEF PlayableInv, TargetIsSynced, Target, RecoverUndecidable, NeedsVerdict,
         KeepInRecovery
    <2>6. FreshIsSound' /\ FilesAreMade' /\ LibraryIsFit'
      BY <1>5 DEF PlayableInv, FreshIsSound, FilesAreMade, LibraryIsFit, Fit,
         RecoverUndecidable, KeepInRecovery, contents
    <2> QED
      BY <2>1, <2>2, <2>3, <2>4, <2>5, <2>6 DEF PlayableInv
  <1>6. ASSUME SweepOrphans PROVE PlayableInv'
    <2>1. OwnsRow'
      BY <1>6 DEF PlayableInv, OwnsRow, BeforeRename, ActiveStates, SweepOrphans,
         Recovered, db
    <2>2. FilesAreMade'
      BY <1>6 DEF PlayableInv, FilesAreMade, SweepOrphans, Recovered, NoFile, contents
    <2>3. StagedIsFit'
      BY <1>6 DEF PlayableInv, StagedIsFit, Verified, OwnsRow, SweepOrphans, Recovered,
         contents, db
    <2>4. CopiedIsFit'
      BY <1>6 DEF PlayableInv, CopiedIsFit, OwnsRow, SweepOrphans, Recovered, contents, db
    <2>5. TargetIsSynced'
      BY <1>6 DEF PlayableInv, TargetIsSynced, Target, OwnsRow, SweepOrphans, Recovered,
         db
    <2>6. PendingWaits' /\ FreshIsSound' /\ LibraryIsFit'
      BY <1>6 DEF PlayableInv, PendingWaits, FreshIsSound, LibraryIsFit, Fit,
         SweepOrphans, contents, db
    <2> QED
      BY <2>1, <2>2, <2>3, <2>4, <2>5, <2>6 DEF PlayableInv
  <1> QED
    BY <1>1, <1>2, <1>3, <1>4, <1>5, <1>6 DEF Recover

\* A power cut leaves the version of a file alone, and everything of a flushed one.
LEMMA TornKeeps ==
    ASSUME NEW f \in File
    PROVE  /\ Torn(f).v = f.v
           /\ f.synced => Torn(f) = f
  <1>1. CASE f.synced
    BY <1>1 DEF Torn
  <1>2. CASE ~f.synced
    BY <1>2 DEF Torn, File
  <1> QED
    BY <1>1, <1>2

\* A death of the process either leaves a staged file alone or tears it.
LEMMA CrashStaged ==
    ASSUME TypeOK, Crash, NEW j \in JobId
    PROVE  staged'[j].v = staged[j].v
  <1>1. staged[j] \in File
    BY DEF TypeOK
  <1>2. CASE UNCHANGED files
    BY <1>2 DEF files
  <1>3. CASE staged' = [i \in JobId |-> Torn(staged[i])]
    <2>1. staged'[j] = Torn(staged[j])
      BY <1>3
    <2> QED
      BY <1>1, <2>1, TornKeeps
  <1> QED
    BY <1>2, <1>3 DEF Crash

\* A death of the process leaves a flushed library file alone.
LEMMA CrashLibrary ==
    ASSUME TypeOK, Crash
    PROVE  /\ library'.v = library.v
           /\ library.synced => library' = library
  <1>1. library \in File
    BY DEF TypeOK
  <1>2. CASE UNCHANGED files
    BY <1>2 DEF files
  <1>3. CASE library' = Torn(library)
    BY <1>1, <1>3, TornKeeps
  <1> QED
    BY <1>2, <1>3 DEF Crash

\* A death of the process makes nothing and moves no row.
LEMMA CrashForgets ==
    ASSUME Crash
    PROVE  /\ UNCHANGED <<made, from, sound>>
           /\ UNCHANGED <<row, job>>
           /\ worker'.pc = "idle" /\ ~pending'
  BY DEF Crash, Idle, contents, db

\* Every step of a death of the process keeps the library file and what will replace it fit.
LEMMA CrashPlayable ==
    ASSUME TypeOK, AnalysisReads, PlayableInv, Crash
    PROVE  PlayableInv'
  <1>1. OwnsRow'
    BY CrashForgets DEF PlayableInv, OwnsRow, BeforeRename
  <1>2. PendingWaits'
    BY CrashForgets DEF PendingWaits
  <1>3. FilesAreMade'
    <2> SUFFICES ASSUME NEW j \in JobId, staged'[j].v # None
                 PROVE  made'[staged'[j].v] # "none"
      BY DEF FilesAreMade
    <2>1. staged'[j].v = staged[j].v
      BY CrashStaged
    <2>2. made[staged[j].v] # "none"
      BY <2>1 DEF PlayableInv, FilesAreMade
    <2> QED
      BY <2>1, <2>2, CrashForgets
  <1>4. StagedIsFit'
    BY CrashForgets DEF StagedIsFit, Verified
  <1>5. CopiedIsFit'
    BY CrashForgets DEF CopiedIsFit
  <1>6. TargetIsSynced'
    BY CrashForgets DEF TargetIsSynced
  <1>7. LibraryIsFit'
    BY CrashForgets, CrashLibrary DEF PlayableInv, LibraryIsFit, Fit
  <1>8. FreshIsSound'
    BY CrashForgets DEF PlayableInv, FreshIsSound
  <1> QED
    BY <1>1, <1>2, <1>3, <1>4, <1>5, <1>6, <1>7, <1>8 DEF PlayableInv

\* The strengthening of LibraryAlwaysPlayable holds for every bound.
THEOREM PlayableHolds == Spec => []PlayableInv
  <1>1. Init => PlayableInv
    <2> SUFFICES ASSUME Init PROVE PlayableInv
      OBVIOUS
    <2>1. 1 \in Version /\ 1 \in JobId
      BY PromotionAssumption DEF Version, JobId
    <2>2. OwnsRow /\ PendingWaits
      BY <2>1 DEF Init, OwnsRow, PendingWaits, BeforeRename, Idle
    <2>3. FreshIsSound /\ FilesAreMade
      BY DEF Init, FreshIsSound, FilesAreMade, NoFile
    <2>4. StagedIsFit /\ CopiedIsFit /\ TargetIsSynced
      BY DEF Init, StagedIsFit, CopiedIsFit, TargetIsSynced, Verified, Idle
    <2>5. LibraryIsFit
      BY <2>1 DEF Init, LibraryIsFit, Fit, Complete, None
    <2> QED
      BY <2>2, <2>3, <2>4, <2>5 DEF PlayableInv
  <1>2. TypeOK /\ AnalysisReads /\ PlayableInv /\ [Next]_vars => PlayableInv'
    <2>1. ASSUME PlayableInv, UNCHANGED vars PROVE PlayableInv'
      BY <2>1 DEF vars, contents, files, db, history, bounds, PlayableInv, OwnsRow,
         PendingWaits, FreshIsSound, FilesAreMade, StagedIsFit, CopiedIsFit,
         TargetIsSynced, Target, LibraryIsFit, Fit
    <2> QED
      BY <2>1, PipelinePlayable, AnalyzerPlayable, OutsidePlayable, RecoverPlayable,
         CrashPlayable DEF Next
  <1> QED
    BY <1>1, <1>2, Typed, PTL DEF Spec

\* The library path never names a torn or unsound file: whatever crashes, power
\* cuts, imports, analyses and users do to a promotion, for any number of them.
THEOREM Playable == Spec => []LibraryAlwaysPlayable
  <1>1. PlayableInv => LibraryAlwaysPlayable
    BY DEF PlayableInv, LibraryIsFit, Fit, LibraryAlwaysPlayable
  <1> QED
    BY <1>1, PlayableHolds, PTL

-----------------------------------------------------------------------------
(* The content that is replaced. *)

\* Points from the start of the encode to the rename: the staging file holds what
\* is or will be the output.
AfterEncode == {"encoding", "finalise", "probe", "verify", "stage", "copying", "guard",
                "recheck"}

\* Until the encode begins, the library holds what the preflight compared.
SourceIsRead ==
    worker.pc \in {"attempt", "encode"} /\ ~touched => library.v = worker.fp

\* From then on, a resumed promotion included, it holds what the staged output was
\* made from; or that output itself, whose copy was renamed before the crash.
OutputNamesSource ==
    (worker.pc \in AfterEncode \/ job.state = "awaiting") /\ staged[job.id].v # None /\ ~touched
    => library.v \in {from[staged[job.id].v], staged[job.id].v}

\* The copy beside the destination is the staged output's.
CopyIsOutput ==
    worker.temp /\ worker.pc \in {"copying", "guard", "recheck"}
    => copied[job.id].v = staged[job.id].v

\* A run that has not begun to encode is not one that waited for Plex.
FreshIsRunning ==
    worker.pc \in {"preflight", "attempt", "encode"} => job.state # "awaiting"

SourceInv == SourceIsRead /\ OutputNamesSource /\ CopyIsOutput /\ FreshIsRunning

\* What leaves the worker, the row's identity and the contents alone, and takes a
\* staging file at most away, keeps the source known.
LEMMA SourceFrame ==
    ASSUME SourceInv,
           library'.v = library.v, touched' = touched, from' = from, job'.id = job.id,
           staged'[job.id].v \in {staged[job.id].v, None},
           worker'.pc \in {"attempt", "encode"}
              => worker.pc \in {"attempt", "encode"} /\ worker'.fp = worker.fp,
           worker'.pc \in AfterEncode \/ job'.state = "awaiting"
              => worker.pc \in AfterEncode \/ job.state = "awaiting",
           CopyIsOutput', FreshIsRunning'
    PROVE  SourceInv'
    BY DEF SourceInv, SourceIsRead, OutputNamesSource

\* A run that ends forgets the source.
LEMMA EndsSource ==
    ASSUME TypeOK, SourceInv, library'.v = library.v, touched' = touched, from' = from,
           staged'[job.id].v \in {staged[job.id].v, None},
           NEW state \in {"failed", "cancelled"}, Ends(state)
    PROVE  SourceInv'
  <1>1. worker'.pc = "idle" /\ job'.id = job.id /\ job'.state # "awaiting"
    BY EndsMoves
  <1>2. CopyIsOutput' /\ FreshIsRunning'
    BY <1>1 DEF CopyIsOutput, FreshIsRunning
  <1> QED
    BY <1>1, <1>2, SourceFrame DEF AfterEncode

\* Every step of the pipeline keeps the source of the staged output known.
LEMMA PipelineSource ==
    ASSUME TypeOK, PlayableInv, SourceInv, Pipeline
    PROVE  SourceInv'
  <1> USE DEF AfterEncode
  <1>1. CASE Polls
    BY <1>1 DEF SourceInv, SourceIsRead, OutputNamesSource, CopyIsOutput, FreshIsRunning,
       Polls, vars, contents, files, db, history
  <1>2. CASE Load
    <2>1. worker'.pc \in {"idle", "preflight"}
      BY <1>2, LoadPoint
    <2>2. job'.id = job.id /\ job'.state # "awaiting"
      BY <1>2, EndsMoves DEF TypeOK, JobRecord, Load
    <2> QED
      BY <1>2, <2>1, <2>2 DEF SourceInv, SourceIsRead, OutputNamesSource, CopyIsOutput,
         FreshIsRunning
  <1>3. CASE Preflight
    <2>1. SourceIsRead'
      BY <1>3 DEF TypeOK, WorkerRecord, SourceIsRead, Preflight, files
    <2>2. worker'.pc = "attempt" /\ worker.pc = "preflight" /\ job' = job
      BY <1>3 DEF TypeOK, WorkerRecord, Preflight, At, db
    <2>3. OutputNamesSource'
      BY <2>2 DEF SourceInv, FreshIsRunning, OutputNamesSource
    <2>4. CopyIsOutput' /\ FreshIsRunning'
      BY <2>2 DEF SourceInv, CopyIsOutput, FreshIsRunning
    <2> QED
      BY <2>1, <2>3, <2>4 DEF SourceInv
  <1>4. CASE PreflightFails
    BY <1>4, EndsSource DEF PreflightFails, KeepContents, contents, files, history
  <1>5. CASE RecordExecution
    <2>1. worker.pc = "attempt" /\ worker'.pc = "encode" /\ worker'.fp = worker.fp
      BY <1>5 DEF TypeOK, WorkerRecord, RecordExecution, Goto, At
    <2>2. job'.id = job.id /\ job'.state = job.state
      BY <1>5 DEF TypeOK, JobRecord, RecordExecution
    <2> QED
      BY <1>5, <2>1, <2>2, SourceFrame DEF SourceInv, CopyIsOutput, FreshIsRunning,
         RecordExecution, KeepContents, contents, files, history
  <1>6. CASE EncodeBegins
    <2>1. worker'.pc = "encoding" /\ job' = job /\ library' = library /\ touched' = touched
      BY <1>6 DEF TypeOK, WorkerRecord, EncodeBegins, Goto, db, history
    <2>2. PICK v \in Version :
             /\ from' = [from EXCEPT ![v] = worker.fp]
             /\ staged' = [staged EXCEPT ![job.id] = [v |-> v, whole |-> FALSE, synced |-> FALSE]]
      BY <1>6 DEF EncodeBegins
    <2>3. staged'[job.id].v = v
      BY <2>2 DEF PlayableInv, OwnsRow, TypeOK
    <2>4. from'[v] = worker.fp
      BY <2>2 DEF TypeOK
    <2>5. touched \/ library.v = worker.fp
      BY <1>6 DEF SourceInv, SourceIsRead, EncodeBegins, At
    <2>6. OutputNamesSource'
      BY <2>1, <2>3, <2>4, <2>5 DEF OutputNamesSource
    <2> QED
      BY <2>1, <2>6 DEF SourceInv, SourceIsRead, CopyIsOutput, FreshIsRunning
  <1>7. CASE EncodeEnds
    <2>1. worker'.pc = "finalise" /\ job' = job
      BY <1>7 DEF TypeOK, WorkerRecord, EncodeEnds, Goto, db
    <2>2. staged'[job.id].v = staged[job.id].v
      BY <1>7 DEF PlayableInv, OwnsRow, TypeOK, File, EncodeEnds
    <2> QED
      BY <1>7, <2>1, <2>2, SourceFrame DEF CopyIsOutput, FreshIsRunning, EncodeEnds, At,
         KeepContents, contents, history
  <1>8. CASE GivesUp
    <2>1. staged'[job.id].v = None
      BY <1>8 DEF PlayableInv, OwnsRow, TypeOK, NoFile, GivesUp
    <2> QED
      BY <1>8, <2>1, EndsSource DEF GivesUp, KeepContents, contents, history
  <1>9. CASE EnterVerifying \/ EnterPromoting \/ Verify
    <2>1. worker'.pc \in {"probe", "verify", "stage"} /\ worker.pc \in AfterEncode
      BY <1>9 DEF TypeOK, WorkerRecord, EnterVerifying, EnterPromoting, Verify, Goto, At
    <2>2. job'.id = job.id
      BY <1>9 DEF TypeOK, JobRecord, EnterVerifying, EnterPromoting, Verify, db
    <2> QED
      BY <1>9, <2>1, <2>2, SourceFrame DEF CopyIsOutput, FreshIsRunning, EnterVerifying,
         EnterPromoting, Verify, KeepContents, contents, files, history
  <1>10. CASE VerifyFails
    <2>1. staged'[job.id].v \in {staged[job.id].v, None}
      BY <1>10 DEF PlayableInv, OwnsRow, TypeOK, NoFile, VerifyFails
    <2> QED
      BY <1>10, <2>1, EndsSource DEF VerifyFails, KeepContents, contents, history
  <1>11. CASE Stage
    <2>1. /\ worker'.temp = worker.temp /\ job' = job
          /\ worker'.pc = IF worker.temp THEN "copying" ELSE "guard"
      BY <1>11 DEF TypeOK, WorkerRecord, Stage, Goto, db
    <2>2. worker.temp => copied'[job.id].v = staged[job.id].v
      BY <1>11 DEF PlayableInv, OwnsRow, TypeOK, Stage
    <2>3. CopyIsOutput' /\ FreshIsRunning'
      BY <1>11, <2>1, <2>2 DEF CopyIsOutput, FreshIsRunning, Stage
    <2> QED
      BY <1>11, <2>1, <2>3, SourceFrame DEF Stage, At, KeepContents, contents, history
  <1>12. CASE CopyEnds
    <2>1. worker'.pc = "guard" /\ job' = job
      BY <1>12 DEF TypeOK, WorkerRecord, CopyEnds, Goto, db
    <2>2. copied'[job.id].v = staged[job.id].v
      BY <1>12 DEF PlayableInv, OwnsRow, TypeOK, File, CopyEnds
    <2> QED
      BY <1>12, <2>1, <2>2, SourceFrame DEF CopyIsOutput, FreshIsRunning, CopyEnds, At,
         KeepContents, contents, history
  <1>13. CASE Blocked
    <2>1. worker'.pc = "guard" /\ worker'.temp = worker.temp /\ job'.id = job.id
      BY <1>13 DEF TypeOK, WorkerRecord, JobRecord, Blocked, Goto
    <2> QED
      BY <1>13, <2>1, SourceFrame DEF SourceInv, CopyIsOutput, FreshIsRunning, Blocked,
         KeepContents, contents, files, history
  <1>14. CASE Sync
    <2>1. worker'.pc = "recheck" /\ worker'.temp = worker.temp /\ job' = job
      BY <1>14 DEF TypeOK, WorkerRecord, Sync, Goto, db
    <2>2. staged'[job.id].v = staged[job.id].v /\ copied'[job.id].v = copied[job.id].v
      BY <1>14 DEF PlayableInv, OwnsRow, TypeOK, File, Sync
    <2> QED
      BY <1>14, <2>1, <2>2, SourceFrame DEF SourceInv, CopyIsOutput, FreshIsRunning, Sync,
         At, KeepContents, contents, history
  <1>15. CASE Rename
    <2>1. worker'.pc = "renamed" /\ job' = job
      BY <1>15 DEF TypeOK, WorkerRecord, Rename, Goto, db
    <2>2. staged'[job.id].v = None \/ library'.v = staged'[job.id].v
      BY <1>15 DEF PlayableInv, OwnsRow, TypeOK, SourceInv, CopyIsOutput, FreshIsRunning,
         NoFile, Rename, At
    <2> QED
      BY <2>1, <2>2 DEF SourceInv, SourceIsRead, OutputNamesSource, CopyIsOutput,
         FreshIsRunning
  <1>16. CASE RecordIdentity
    <2>1. worker'.pc = "record" /\ job' = job
      BY <1>16 DEF TypeOK, WorkerRecord, RecordIdentity, db
    <2> QED
      BY <1>16, <2>1, SourceFrame DEF CopyIsOutput, FreshIsRunning, RecordIdentity, At,
         KeepContents, contents, files, history
  <1>17. CASE Record
    <2>1. worker'.pc \in {"idle", "regret"} /\ job'.state = "done"
      BY <1>17 DEF TypeOK, WorkerRecord, JobRecord, Record, Goto, Idle
    <2> QED
      BY <2>1 DEF SourceInv, SourceIsRead, OutputNamesSource, CopyIsOutput, FreshIsRunning
  <1>18. CASE Regrets
    <2>1. worker'.pc = "idle"
      BY <1>18 DEF Regrets, Idle
    <2>2. job'.id = job.id /\ (job'.state = "awaiting" => job.state = "awaiting")
      BY <1>18 DEF TypeOK, JobRecord, Regrets
    <2>3. staged'[job.id].v \in {staged[job.id].v, None}
      BY <1>18 DEF PlayableInv, OwnsRow, TypeOK, NoFile, Regrets
    <2> QED
      BY <1>18, <2>1, <2>2, <2>3, SourceFrame DEF CopyIsOutput, FreshIsRunning, Regrets,
         KeepContents, contents, history
  <1>19. CASE Resume
    <2>1. worker'.pc = "finalise" /\ job.state = "awaiting" /\ job' = job
      BY <1>19 DEF PlayableInv, PendingWaits, TypeOK, WorkerRecord, Resume, Idle, db
    <2> QED
      BY <1>19, <2>1, SourceFrame DEF CopyIsOutput, FreshIsRunning, Resume, contents,
         files, history
  <1> QED
    BY <1>1, <1>2, <1>3, <1>4, <1>5, <1>6, <1>7, <1>8, <1>9, <1>10, <1>11, <1>12, <1>13,
       <1>14, <1>15, <1>16, <1>17, <1>18, <1>19 DEF Pipeline

\* No step of the analyzer, a user or an outsider moves the source unseen.
LEMMA OthersSource ==
    ASSUME TypeOK, PlayableInv, SourceInv, Analyzer \/ Outside
    PROVE  SourceInv'
  <1>1. ASSUME NewJob, job.state \notin ActiveStates, UNCHANGED worker PROVE SourceInv'
    <2>1. job'.state # "awaiting" /\ worker.pc \notin BeforeRename
      BY <1>1 DEF PlayableInv, OwnsRow, NewJob
    <2> QED
      BY <1>1, <2>1 DEF SourceInv, SourceIsRead, OutputNamesSource, CopyIsOutput,
         FreshIsRunning, AfterEncode, BeforeRename
  <1>2. ASSUME UNCHANGED <<worker, staged, copied, job>>,
               touched' \/ UNCHANGED <<library, from, touched>>
        PROVE  SourceInv'
    BY <1>2 DEF SourceInv, SourceIsRead, OutputNamesSource, CopyIsOutput, FreshIsRunning
  <1>3. CASE AnalyzeReads \/ AnalyzeUpserts \/ AnalyzeProbes \/ AnalyzeDecides
    BY <1>2, <1>3 DEF AnalyzeReads, AnalyzeUpserts, AnalyzeProbes, AnalyzeDecides,
       KeepWorker, contents, files, db
  <1>4. CASE AnalyzeEnqueues
    BY <1>1, <1>2, <1>4 DEF AnalyzeEnqueues, KeepWorker, contents, files
  <1>5. CASE UserQueues
    BY <1>1, <1>5 DEF UserQueues, KeepMachine
  <1>6. CASE UserRestarts
    <2>1. job'.state # "awaiting" /\ worker.pc = "idle" /\ UNCHANGED worker
      BY <1>6 DEF TypeOK, JobRecord, UserRestarts, KeepMachine
    <2> QED
      BY <2>1 DEF SourceInv, SourceIsRead, OutputNamesSource, CopyIsOutput,
         FreshIsRunning, AfterEncode
  <1>7. CASE OutsiderWrites \/ OutsiderDeletes
    BY <1>2, <1>7 DEF OutsiderWrites, OutsiderDeletes, KeepMachine, db
  <1> QED
    BY <1>3, <1>4, <1>5, <1>6, <1>7 DEF Analyzer, Outside

\* A crash and the recovery after it keep the source of an awaiting output known.
LEMMA DeathSource ==
    ASSUME TypeOK, PlayableInv, SourceInv, Recover \/ Crash
    PROVE  SourceInv'
  <1>1. CASE Crash
    <2>1. worker'.pc = "idle" /\ UNCHANGED <<from, job, touched>>
      BY <1>1 DEF Crash, Idle, contents, db, history
    <2>2. staged'[job.id].v = staged[job.id].v /\ library'.v = library.v
      BY <1>1, CrashStaged, CrashLibrary DEF PlayableInv, OwnsRow
    <2> QED
      BY <2>1, <2>2, SourceFrame DEF CopyIsOutput, FreshIsRunning, AfterEncode
  <1>2. ASSUME UNCHANGED <<worker, from, library, touched>>, worker.pc = "idle",
               job'.id = job.id, job'.state = "awaiting" => job.state = "awaiting",
               staged'[job.id].v \in {staged[job.id].v, None}
        PROVE  SourceInv'
    BY <1>2, SourceFrame DEF CopyIsOutput, FreshIsRunning, AfterEncode
  <1>3. ASSUME ~up PROVE worker.pc = "idle"
    BY <1>3 DEF PlayableInv, OwnsRow
  <1>4. RemovesStaging => staged'[job.id].v \in {staged[job.id].v, None}
    BY DEF PlayableInv, OwnsRow, TypeOK, RemovesStaging, NoFile
  <1>5. CASE RecoverDied \/ RecoverIntact
    <2>1. ~up /\ RemovesStaging /\ KeepInRecovery
      BY <1>5 DEF RecoverDied, RecoverIntact, NeedsVerdict
    <2>2. job'.id = job.id /\ job'.state # "awaiting"
      BY <1>5 DEF TypeOK, JobRecord, RecoverDied, RecoverIntact, Requeues
    <2> QED
      BY <1>2, <1>3, <1>4, <2>1, <2>2 DEF KeepInRecovery, contents
  <1>6. CASE RecoverResumes
    BY <1>2, <1>3, <1>6 DEF RecoverResumes, KeepInRecovery, contents, db
  <1>7. CASE RecoverPromoted \/ RecoverUndecidable
    <2>1. job'.id = job.id /\ job'.state # "awaiting"
      BY <1>7 DEF TypeOK, JobRecord, RecoverPromoted, RecoverUndecidable
    <2> QED
      BY <1>2, <1>3, <1>7, <2>1 DEF RecoverPromoted, RecoverUndecidable, NeedsVerdict,
         KeepInRecovery, contents
  <1>8. CASE SweepOrphans
    <2>1. staged'[job.id].v \in {staged[job.id].v, None}
      BY <1>8 DEF PlayableInv, OwnsRow, SweepOrphans, NoFile
    <2> QED
      BY <1>2, <1>3, <1>8, <2>1 DEF SweepOrphans, contents, db, history
  <1> QED
    BY <1>1, <1>5, <1>6, <1>7, <1>8 DEF Recover

\* What the staged output was made from is known as long as it may be promoted.
THEOREM SourceHolds == Spec => []SourceInv
  <1>1. Init => SourceInv
    BY DEF Init, SourceInv, SourceIsRead, OutputNamesSource, CopyIsOutput, FreshIsRunning,
       AfterEncode, Idle
  <1>2. TypeOK /\ PlayableInv /\ SourceInv /\ [Next]_vars => SourceInv'
    <2>1. ASSUME SourceInv, UNCHANGED vars PROVE SourceInv'
      BY <2>1 DEF vars, contents, files, db, history, SourceInv, SourceIsRead,
         OutputNamesSource, CopyIsOutput, FreshIsRunning
    <2> QED
      BY <2>1, PipelineSource, OthersSource, DeathSource DEF Next
  <1> QED
    BY <1>1, <1>2, Typed, PlayableHolds, PTL DEF Spec

\* Only a rename puts one of Codarr's outputs under the library's name.
LEMMA OnlyRenameReplaces ==
    ASSUME TypeOK, PlayableInv, Next, Replaces
    PROVE  Rename
  <1>1. library' # library /\ library'.v # None /\ made[library'.v] = "codarr"
    BY DEF Replaces
  <1>2. CASE Pipeline
    BY <1>1, <1>2 DEF Pipeline, Polls, Load, Preflight, PreflightFails, RecordExecution,
       EncodeBegins, EncodeEnds, GivesUp, EnterVerifying, EnterPromoting, Verify,
       VerifyFails, Stage, CopyEnds, Blocked, Sync, RecordIdentity, Record, Regrets, Resume,
       vars, files
  <1>3. CASE Analyzer
    BY <1>1, <1>3 DEF Analyzer, AnalyzeReads, AnalyzeUpserts, AnalyzeProbes, AnalyzeDecides,
       AnalyzeEnqueues, KeepWorker, files
  <1>4. CASE Outside
    BY <1>1, <1>4 DEF Outside, UserQueues, UserRestarts, OutsiderWrites, OutsiderDeletes,
       Unused, Complete, NoFile
  <1>5. CASE Crash
    BY <1>1, <1>5, CrashLibrary DEF PlayableInv, LibraryIsFit
  <1>6. CASE Recover
    BY <1>1, <1>6 DEF Recover, RecoverDied, RecoverResumes, RecoverIntact, RecoverPromoted,
       RecoverUndecidable, SweepOrphans, KeepInRecovery
  <1> QED
    BY <1>2, <1>3, <1>4, <1>5, <1>6 DEF Next

\* A rename replaces only the content its output was made from, unless someone else
\* replaced the file after the preflight: for any number of jobs, crashes, resumed
\* promotions, analyses and outsiders.
THEOREM ReplacesAnalysed == Spec => ReplacesOnlyWhatWasAnalysed
  <1>1. TypeOK /\ PlayableInv /\ SourceInv /\ [Next]_vars
        => [Replaces /\ ~touched => library.v \in {from[library'.v], library'.v}]_vars
    <2> SUFFICES ASSUME TypeOK, PlayableInv, SourceInv, Next, Replaces, ~touched
                 PROVE  library.v \in {from[library'.v], library'.v}
      OBVIOUS
    <2>1. Rename
      BY OnlyRenameReplaces
    <2>2. worker.pc = "recheck" /\ library'.v = staged[job.id].v
      BY <2>1 DEF SourceInv, CopyIsOutput, FreshIsRunning, Rename, At
    <2>3. staged[job.id].v # None
      BY <2>2 DEF PlayableInv, StagedIsFit, Verified, Fit
    <2> QED
      BY <2>2, <2>3 DEF SourceInv, OutputNamesSource, AfterEncode
  <1> QED
    BY <1>1, Typed, PlayableHolds, SourceHolds, PTL DEF Spec, ReplacesOnlyWhatWasAnalysed

-----------------------------------------------------------------------------
(* What was written is recorded. *)

\* An output of ours in the library that the row does not record, and that none of
\* the known reasons excuses.
Unrecorded ==
    /\ library.v # None /\ made[library.v] = "codarr"
    /\ row.out # library.v /\ library.v \notin excused

\* The run that renamed it is about to record it, or died before it could and
\* recovery has not looked at its row.
Landing ==
    \/ worker.pc \in {"renamed", "record"}
    \/ ~up /\ ~pending /\ job.state \in {"promoting", "awaiting"}

UnrecordedIsLanding == Unrecorded => Landing

\* What is still staged for such a row is that output: the copy was renamed.
StagedHasLanded ==
    Unrecorded /\ staged[job.id].v # None => staged[job.id].v = library.v

\* The fingerprint the row holds is never that of an unrecorded output: this is why
\* the verdict "the source is intact" may put the job back in the queue.
RowIsSettled ==
    row.fp # None => /\ made[row.fp] # "none"
                     /\ made[row.fp] = "codarr" => row.out = row.fp \/ row.fp \in excused

\* An analysis holds the fingerprint of a file that was there.
AnalysisIsOfMade ==
    analysis.pc \in {"upsert", "probe", "decide"} => made[analysis.fp] # "none"

\* The identity about to be recorded is the output's, if the output is still there.
IdentityIsLibrary ==
    worker.pc = "record" /\ worker.identity # None
    => /\ made[worker.identity] # "none"
       /\ library.v # None /\ made[library.v] = "codarr" => library.v = worker.identity

\* From verification to the record the row says that a promotion is under way.
PromotesByRow ==
    worker.pc \in {"verify", "renamed", "record"} \union Verified
    => job.state \in {"promoting", "awaiting"}

ReadsInv == RowIsSettled /\ AnalysisIsOfMade /\ IdentityIsLibrary
WrittenInv == UnrecordedIsLanding /\ StagedHasLanded /\ ReadsInv /\ PromotesByRow

\* Contents are only ever added to, and excuses too.
Grows ==
    /\ \A v \in Version : made[v] # "none" => made'[v] = made[v]
    /\ excused \subseteq excused'

\* Nothing new is unrecorded unless the library or the record moves.
LEMMA UnrecordedFrame ==
    ASSUME TypeOK, PlayableInv, UnrecordedIsLanding, StagedHasLanded, Grows,
           library'.v = library.v, row'.out = row.out,
           Landing => /\ Landing' \/ ~Unrecorded'
                      /\ job'.id = job.id
                      /\ staged'[job.id].v \in {staged[job.id].v, None}
    PROVE  UnrecordedIsLanding' /\ StagedHasLanded'
  <1>1. Unrecorded' => Unrecorded
    BY DEF Unrecorded, Grows, TypeOK, File, PlayableInv, LibraryIsFit, Fit
  <1> QED
    BY <1>1 DEF UnrecordedIsLanding, StagedHasLanded

\* What is read stays settled while the row, the analysis and the identity stay.
LEMMA ReadsFrame ==
    ASSUME TypeOK, AnalysisReads, PlayableInv, ReadsInv, Grows,
           row'.fp = row.fp, row'.out = row.out, analysis' = analysis, library'.v = library.v,
           worker'.pc = "record" => worker.pc = "record" /\ worker'.identity = worker.identity
    PROVE  ReadsInv'
  <1>1. RowIsSettled'
    BY DEF ReadsInv, RowIsSettled, TypeOK, RowRecord, Grows
  <1>2. AnalysisIsOfMade'
    BY DEF ReadsInv, AnalysisIsOfMade, AnalysisReads, Grows
  <1>3. IdentityIsLibrary'
    BY DEF ReadsInv, IdentityIsLibrary, TypeOK, WorkerRecord, File, PlayableInv,
       LibraryIsFit, Fit, Grows
  <1> QED
    BY <1>1, <1>2, <1>3 DEF ReadsInv

\* A step of the pipeline that neither renames nor records leaves the record alone.
LEMMA WrittenFrame ==
    ASSUME TypeOK, AnalysisReads, PlayableInv, WrittenInv, Grows, up,
           row'.fp = row.fp, row'.out = row.out, analysis' = analysis, library'.v = library.v,
           worker.pc \notin {"renamed", "record"}, worker'.pc # "record", PromotesByRow'
    PROVE  WrittenInv'
  <1>1. UnrecordedIsLanding' /\ StagedHasLanded'
    BY UnrecordedFrame DEF WrittenInv, Landing
  <1> QED
    BY <1>1, ReadsFrame DEF WrittenInv

\* A run that ends without replacing anything leaves the record alone.
LEMMA EndsWritten ==
    ASSUME TypeOK, AnalysisReads, PlayableInv, WrittenInv, up,
           UNCHANGED <<made, library, analysis, excused>>,
           worker.pc \notin {"renamed", "record"},
           NEW state \in {"failed", "cancelled"}, Ends(state)
    PROVE  WrittenInv'
  <1>1. worker'.pc = "idle" /\ row'.fp = row.fp /\ row'.out = row.out
    BY DEF TypeOK, RowRecord, Ends, Idle
  <1> QED
    BY <1>1, WrittenFrame DEF Grows, PromotesByRow, Verified

\* The pipeline renames an output only to record it, and records what it renamed.
LEMMA PipelineWritten ==
    ASSUME TypeOK, AnalysisReads, PlayableInv, SourceInv, WrittenInv, Pipeline
    PROVE  WrittenInv'
  <1> USE DEF Verified
  <1>1. CASE Polls
    BY <1>1 DEF WrittenInv, UnrecordedIsLanding, StagedHasLanded, Unrecorded, Landing,
       ReadsInv, RowIsSettled, AnalysisIsOfMade, IdentityIsLibrary, PromotesByRow, Polls,
       vars, contents, files, db, history
  <1>2. CASE Load
    <2>1. worker'.pc \in {"idle", "preflight"} /\ worker.pc = "idle"
      BY <1>2, LoadPoint DEF Load
    <2>2. row'.fp = row.fp /\ row'.out = row.out
      BY <1>2 DEF TypeOK, RowRecord, Load, Ends
    <2> QED
      BY <1>2, <2>1, <2>2, WrittenFrame DEF Grows, PromotesByRow, Load, KeepContents,
         KeepOutsiders, contents, files, history
  <1>3. CASE PreflightFails
    BY <1>3, EndsWritten DEF PreflightFails, At, KeepContents, KeepOutsiders, contents,
       files, history
  <1>4. CASE Preflight \/ RecordExecution \/ EncodeEnds \/ EnterVerifying
    <2>1. /\ worker.pc \in {"preflight", "attempt", "encoding", "finalise"}
          /\ worker'.pc \in {"attempt", "encode", "finalise", "probe"}
      BY <1>4 DEF TypeOK, WorkerRecord, Preflight, RecordExecution, EncodeEnds,
         EnterVerifying, Goto, At
    <2>2. UNCHANGED <<made, library, row, analysis, excused>> /\ up
      BY <1>4 DEF Preflight, RecordExecution, EncodeEnds, EnterVerifying, At, KeepContents,
         KeepOutsiders, contents, files, db, history
    <2> QED
      BY <2>1, <2>2, WrittenFrame DEF Grows, PromotesByRow
  <1>5. CASE EncodeBegins
    <2>1. worker.pc = "encode" /\ worker'.pc = "encoding" /\ up
      BY <1>5 DEF TypeOK, WorkerRecord, EncodeBegins, Goto, At
    <2>2. UNCHANGED <<library, row, analysis, excused>>
      BY <1>5 DEF EncodeBegins, KeepOutsiders, db, history
    <2>3. Grows
      BY <1>5, <2>2 DEF TypeOK, Grows, EncodeBegins, Unused
    <2> QED
      BY <2>1, <2>2, <2>3, WrittenFrame DEF PromotesByRow
  <1>6. CASE GivesUp \/ VerifyFails
    BY <1>6, EndsWritten DEF GivesUp, VerifyFails, At, KeepContents, KeepOutsiders,
       contents, history
  <1>7. CASE EnterPromoting \/ Blocked
    <2>1. worker.pc \in {"probe", "guard", "recheck"} /\ worker'.pc \in {"verify", "guard"}
      BY <1>7 DEF TypeOK, WorkerRecord, EnterPromoting, Blocked, Goto, At
    <2>2. job'.state \in {"promoting", "awaiting"}
      BY <1>7 DEF TypeOK, JobRecord, EnterPromoting, Blocked
    <2>3. UNCHANGED <<made, library, row, analysis, excused>> /\ up
      BY <1>7 DEF EnterPromoting, Blocked, At, KeepContents, KeepOutsiders, contents, files,
         history
    <2> QED
      BY <2>1, <2>2, <2>3, WrittenFrame DEF Grows, PromotesByRow
  <1>8. CASE Verify \/ Stage \/ CopyEnds \/ Sync
    <2>1. /\ worker.pc \in {"verify", "stage", "copying", "guard"}
          /\ worker'.pc \in Verified
      BY <1>8 DEF TypeOK, WorkerRecord, Verify, Stage, CopyEnds, Sync, Goto, At
    <2>2. UNCHANGED <<made, library, row, job, analysis, excused>> /\ up
      BY <1>8 DEF Verify, Stage, CopyEnds, Sync, At, KeepContents, KeepOutsiders, contents,
         files, db, history
    <2>3. PromotesByRow'
      BY <2>1, <2>2 DEF WrittenInv, PromotesByRow
    <2> QED
      BY <2>1, <2>2, <2>3, WrittenFrame DEF Grows
  <1>9. CASE Rename
    <2>1. worker.pc = "recheck" /\ worker'.pc = "renamed" /\ job' = job
      BY <1>9 DEF TypeOK, WorkerRecord, Rename, Goto, At, db
    <2>2. UNCHANGED <<made, row, analysis, excused>>
      BY <1>9 DEF Rename, KeepContents, KeepOutsiders, contents, db, history
    <2>3. staged'[job.id].v = None \/ library'.v = staged'[job.id].v
      BY <1>9 DEF PlayableInv, OwnsRow, TypeOK, SourceInv, CopyIsOutput, NoFile, Rename, At
    <2>4. UnrecordedIsLanding' /\ StagedHasLanded'
      BY <2>1, <2>3 DEF UnrecordedIsLanding, StagedHasLanded, Landing
    <2>5. ReadsInv'
      BY <2>1, <2>2 DEF WrittenInv, ReadsInv, RowIsSettled, AnalysisIsOfMade,
         IdentityIsLibrary
    <2>6. PromotesByRow'
      BY <2>1 DEF WrittenInv, PromotesByRow
    <2> QED
      BY <2>4, <2>5, <2>6 DEF WrittenInv
  <1>10. CASE RecordIdentity
    <2>1. worker.pc = "renamed" /\ worker'.pc = "record"
      BY <1>10 DEF TypeOK, WorkerRecord, RecordIdentity, At
    <2>2. UNCHANGED <<made, library, staged, row, job, analysis, excused>>
      BY <1>10 DEF RecordIdentity, KeepContents, KeepOutsiders, contents, files, db, history
    <2>3. UnrecordedIsLanding' /\ StagedHasLanded'
      BY <2>1, <2>2 DEF WrittenInv, UnrecordedIsLanding, StagedHasLanded, Unrecorded, Landing
    <2>4. worker'.identity \in {library.v, None}
      BY <1>10 DEF TypeOK, WorkerRecord, RecordIdentity
    <2>5. ReadsInv'
      BY <2>2, <2>4 DEF WrittenInv, ReadsInv, RowIsSettled, AnalysisIsOfMade,
         IdentityIsLibrary, PlayableInv, LibraryIsFit, Fit
    <2>6. PromotesByRow'
      BY <2>1, <2>2 DEF WrittenInv, PromotesByRow
    <2> QED
      BY <2>3, <2>5, <2>6 DEF WrittenInv
  <1>11. CASE Record
    <2>1. worker.pc = "record" /\ worker'.pc \in {"idle", "regret"}
      BY <1>11 DEF TypeOK, WorkerRecord, Record, Goto, Idle, At
    <2>2. row'.out = worker.identity /\ row'.fp = worker.identity
      BY <1>11 DEF TypeOK, RowRecord, Record, RecordsOutput
    <2>3. UNCHANGED <<made, library, staged, analysis>> /\ excused \subseteq excused'
      BY <1>11 DEF Record, KeepContents, KeepOutsiders, contents, files
    <2>4. worker.identity = None /\ library.v # None => library.v \in excused'
      BY <1>11 DEF Record
    <2>5. ~Unrecorded'
      BY <2>1, <2>2, <2>3, <2>4 DEF Unrecorded, WrittenInv, ReadsInv, IdentityIsLibrary
    <2>6. ReadsInv'
      BY <2>1, <2>2, <2>3 DEF WrittenInv, ReadsInv, RowIsSettled, AnalysisIsOfMade,
         IdentityIsLibrary
    <2>7. PromotesByRow'
      BY <2>1 DEF PromotesByRow
    <2> QED
      BY <2>5, <2>6, <2>7 DEF WrittenInv, UnrecordedIsLanding, StagedHasLanded
  <1>12. CASE Regrets
    <2>1. worker.pc = "regret" /\ worker'.pc = "idle" /\ up
      BY <1>12 DEF Regrets, Idle, At
    <2>2. row'.fp = row.fp /\ row'.out = row.out
      BY <1>12 DEF TypeOK, RowRecord, Regrets
    <2> QED
      BY <1>12, <2>1, <2>2, WrittenFrame DEF Grows, PromotesByRow, Regrets, KeepContents,
         KeepOutsiders, contents, history
  <1>13. CASE Resume
    <2>1. worker.pc = "idle" /\ worker'.pc = "finalise" /\ up
      BY <1>13 DEF TypeOK, WorkerRecord, Resume, Idle
    <2> QED
      BY <1>13, <2>1, WrittenFrame DEF Grows, PromotesByRow, Resume, contents, files, db,
         history
  <1> QED
    BY <1>1, <1>2, <1>3, <1>4, <1>5, <1>6, <1>7, <1>8, <1>9, <1>10, <1>11, <1>12, <1>13
       DEF Pipeline

\* A new row for the file is made while nobody is promoting it.
LEMMA NewJobWritten ==
    ASSUME TypeOK, PlayableInv, WrittenInv, ReadsInv', NewJob, job.state \notin ActiveStates,
           row'.out = row.out,
           UNCHANGED <<made, library, staged, worker, up, pending, excused>>
    PROVE  WrittenInv'
  <1>1. worker.pc \notin {"verify", "renamed", "record"} \union Verified /\ ~Landing
    BY DEF WrittenInv, PromotesByRow, Landing, ActiveStates
  <1>2. UnrecordedIsLanding' /\ StagedHasLanded'
    BY <1>1, UnrecordedFrame DEF WrittenInv, Grows
  <1> QED
    BY <1>1, <1>2 DEF WrittenInv, PromotesByRow

\* An analysis goes on with its fingerprint, or is over.
LEMMA AnalysisMoves ==
    ASSUME TypeOK, AnalyzeUpserts \/ AnalyzeProbes \/ AnalyzeDecides
    PROVE  analysis'.pc \in {"idle", "enqueue"} \/ analysis'.fp = analysis.fp
  <1>1. CASE AnalyzeUpserts
    BY <1>1 DEF TypeOK, AnalysisRecord, AnalyzeUpserts
  <1>2. CASE analysis' = NoAnalysis
    BY <1>2 DEF NoAnalysis
  <1>3. CASE analysis' = [analysis EXCEPT !.pc = "decide", !.probed = library.v]
    BY <1>3 DEF TypeOK, AnalysisRecord
  <1>4. CASE analysis' = [analysis EXCEPT !.pc = "enqueue"]
    BY <1>4 DEF TypeOK, AnalysisRecord
  <1> QED
    BY <1>1, <1>2, <1>3, <1>4 DEF AnalyzeProbes, AnalyzeDecides

\* An analysis that fingerprints an unrecorded output excuses it.
LEMMA AnalyzerWritten ==
    ASSUME TypeOK, AnalysisReads, PlayableInv, WrittenInv, Analyzer
    PROVE  WrittenInv'
  <1> USE DEF Verified
  <1>1. ASSUME Grows, UNCHANGED <<made, library, staged, worker, up, pending>>,
               row'.out = row.out, ReadsInv',
               job'.id = job.id /\ job'.state = job.state
        PROVE  WrittenInv'
    <2>1. UnrecordedIsLanding' /\ StagedHasLanded'
      BY <1>1, UnrecordedFrame DEF WrittenInv, Landing
    <2> QED
      BY <1>1, <2>1 DEF WrittenInv, PromotesByRow
  <1>2. CASE AnalyzeReads
    <2>1. analysis'.pc = "upsert" /\ analysis'.fp = library.v
      BY <1>2 DEF AnalyzeReads, NoAnalysis
    <2>2. ReadsInv'
      BY <1>2, <2>1 DEF WrittenInv, ReadsInv, RowIsSettled, AnalysisIsOfMade,
         IdentityIsLibrary, AnalyzeReads, KeepWorker, contents, files, db, PlayableInv,
         LibraryIsFit, Fit
    <2> QED
      BY <1>1, <1>2, <2>2 DEF Grows, AnalyzeReads, KeepWorker, contents, files, db
  <1>3. CASE AnalyzeUpserts \/ AnalyzeDecides
    <2>1. row'.fp = analysis.fp /\ row'.out = row.out
      BY <1>3 DEF TypeOK, RowRecord, AnalyzeUpserts, AnalyzeDecides
    <2>2. made[analysis.fp] # "none" /\ analysis.pc \in {"upsert", "decide"}
      BY <1>3 DEF WrittenInv, ReadsInv, AnalysisIsOfMade, AnalyzeUpserts, AnalyzeDecides
    <2>3. /\ excused \subseteq excused'
          /\ made[analysis.fp] = "codarr" /\ row.out # analysis.fp => analysis.fp \in excused'
      BY <1>3 DEF AnalyzeUpserts, AnalyzeDecides
    <2>4. UNCHANGED <<contents, files, worker, up, pending>> /\ UNCHANGED job
      BY <1>3 DEF AnalyzeUpserts, AnalyzeDecides, KeepWorker
    <2>5. analysis'.pc \in {"idle", "enqueue"} \/ analysis'.fp = analysis.fp
      BY <1>3, AnalysisMoves
    <2>6. ReadsInv'
      BY <2>1, <2>2, <2>3, <2>4, <2>5 DEF WrittenInv, ReadsInv, RowIsSettled,
         AnalysisIsOfMade, IdentityIsLibrary, contents, files
    <2> QED
      BY <1>1, <2>1, <2>3, <2>4, <2>6 DEF Grows, contents, files
  <1>4. CASE AnalyzeProbes
    <2>1. row'.fp = row.fp /\ row'.out = row.out
      BY <1>4 DEF TypeOK, RowRecord, AnalyzeProbes
    <2>2. analysis'.pc \in {"idle", "enqueue"} \/ analysis'.fp = analysis.fp
      BY <1>4, AnalysisMoves
    <2>3. ReadsInv'
      BY <1>4, <2>1, <2>2 DEF WrittenInv, ReadsInv, RowIsSettled, AnalysisIsOfMade,
         IdentityIsLibrary, AnalyzeProbes, KeepWorker, contents, files
    <2> QED
      BY <1>1, <1>4, <2>1, <2>3 DEF Grows, AnalyzeProbes, KeepWorker, contents, files
  <1>5. CASE AnalyzeEnqueues
    <2>1. row'.fp = row.fp /\ row'.out = row.out /\ analysis'.pc = "idle"
      BY <1>5 DEF TypeOK, RowRecord, AnalyzeEnqueues, NewJob, NoAnalysis
    <2>2. UNCHANGED <<contents, files, worker, up, pending, excused>>
      BY <1>5 DEF AnalyzeEnqueues, KeepWorker
    <2>3. ReadsInv'
      BY <2>1, <2>2 DEF WrittenInv, ReadsInv, RowIsSettled, AnalysisIsOfMade,
         IdentityIsLibrary, contents, files
    <2>4. CASE UNCHANGED job
      BY <1>1, <2>1, <2>2, <2>3, <2>4 DEF Grows, contents, files
    <2>5. CASE NewJob /\ job.state \notin ActiveStates
      BY <2>1, <2>2, <2>3, <2>5, NewJobWritten DEF contents, files
    <2> QED
      BY <1>5, <2>4, <2>5 DEF AnalyzeEnqueues
  <1> QED
    BY <1>2, <1>3, <1>4, <1>5 DEF Analyzer

\* Users leave the record alone, and an outsider's file is not one of ours.
LEMMA OutsideWritten ==
    ASSUME TypeOK, AnalysisReads, PlayableInv, WrittenInv, Outside
    PROVE  WrittenInv'
  <1> USE DEF Verified
  <1>1. CASE UserQueues
    <2>1. row'.fp = row.fp /\ row'.out = row.out
      BY <1>1 DEF TypeOK, RowRecord, UserQueues, NewJob
    <2>2. UNCHANGED <<made, library, staged, worker, up, pending, analysis, excused>>
      BY <1>1 DEF UserQueues, KeepMachine, contents
    <2>3. ReadsInv'
      BY <2>1, <2>2, ReadsFrame DEF WrittenInv, Grows
    <2> QED
      BY <1>1, <2>1, <2>2, <2>3, NewJobWritten DEF UserQueues
  <1>2. CASE UserRestarts
    <2>1. row'.fp = row.fp /\ row'.out = row.out /\ worker.pc = "idle" /\ up
      BY <1>2 DEF TypeOK, RowRecord, UserRestarts
    <2>2. UNCHANGED <<made, library, staged, worker, up, pending, analysis, excused>>
      BY <1>2 DEF UserRestarts, KeepMachine, contents
    <2> QED
      BY <2>1, <2>2, WrittenFrame DEF Grows, PromotesByRow
  <1>3. CASE OutsiderWrites
    <2>1. PICK v \in Version, maker \in {"import", "rewrite"} :
             Unused(v) /\ made' = [made EXCEPT ![v] = maker] /\ library' = Complete(v)
      BY <1>3 DEF OutsiderWrites
    <2>2. library'.v = v /\ made'[v] # "codarr"
      BY <2>1 DEF TypeOK, Complete
    <2>3. UNCHANGED <<row, job, worker, analysis, excused>>
      BY <1>3 DEF OutsiderWrites, KeepMachine, db
    <2>4. Grows
      BY <2>1, <2>3 DEF TypeOK, Grows, Unused
    <2>5. RowIsSettled' /\ AnalysisIsOfMade'
      BY <2>3, <2>4 DEF WrittenInv, ReadsInv, RowIsSettled, AnalysisIsOfMade, AnalysisReads,
         TypeOK, RowRecord, Grows
    <2>6. IdentityIsLibrary'
      BY <2>2, <2>3, <2>4 DEF WrittenInv, ReadsInv, IdentityIsLibrary, TypeOK, WorkerRecord,
         Grows
    <2> QED
      BY <2>2, <2>3, <2>5, <2>6 DEF WrittenInv, ReadsInv, UnrecordedIsLanding,
         StagedHasLanded, Unrecorded, PromotesByRow
  <1>4. CASE OutsiderDeletes
    BY <1>4 DEF WrittenInv, ReadsInv, UnrecordedIsLanding, StagedHasLanded, Unrecorded,
       RowIsSettled, AnalysisIsOfMade, IdentityIsLibrary, PromotesByRow, OutsiderDeletes,
       KeepMachine, NoFile, contents, db
  <1> QED
    BY <1>1, <1>2, <1>3, <1>4 DEF Outside

\* Recovery records an output that landed, excuses it or finds the row settled.
LEMMA RecoverWritten ==
    ASSUME TypeOK, AnalysisReads, PlayableInv, WrittenInv, Recover
    PROVE  WrittenInv'
  <1> USE DEF Verified
  <1>1. ~up /\ worker.pc = "idle"
    BY DEF PlayableInv, OwnsRow, Recover, RecoverDied, RecoverResumes, RecoverIntact,
       RecoverPromoted, RecoverUndecidable, NeedsVerdict, SweepOrphans
  <1>2. UNCHANGED <<made, library, worker, analysis>> /\ excused \subseteq excused'
    BY DEF Recover, RecoverDied, RecoverResumes, RecoverIntact, RecoverPromoted,
       RecoverUndecidable, SweepOrphans, KeepInRecovery, contents, history
  <1>3. ASSUME ~Unrecorded', RowIsSettled' PROVE WrittenInv'
    BY <1>1, <1>2, <1>3 DEF WrittenInv, ReadsInv, UnrecordedIsLanding, StagedHasLanded,
       AnalysisIsOfMade, IdentityIsLibrary, PromotesByRow
  <1>4. ASSUME row'.fp = row.fp, row'.out = row.out
        PROVE  RowIsSettled' /\ (Unrecorded' => Unrecorded)
    BY <1>2, <1>4 DEF WrittenInv, ReadsInv, RowIsSettled, Unrecorded
  <1>5. CASE RecoverDied
    <2>1. row'.fp = row.fp /\ row'.out = row.out
      BY <1>5 DEF TypeOK, RowRecord, RecoverDied, Requeues
    <2>2. ~Unrecorded
      BY <1>1, <1>5 DEF WrittenInv, UnrecordedIsLanding, Landing, RecoverDied
    <2> QED
      BY <1>3, <1>4, <2>1, <2>2
  <1>6. CASE RecoverResumes
    <2>1. row' = row
      BY <1>6 DEF RecoverResumes, db
    <2>2. Unrecorded => library.v \in excused'
      BY <1>6 DEF WrittenInv, StagedHasLanded, RecoverResumes, StagingVerifies, Verifies,
         Unrecorded
    <2> QED
      BY <1>2, <1>3, <1>4, <2>1, <2>2 DEF Unrecorded
  <1>7. CASE RecoverIntact
    <2>1. row'.fp = row.fp /\ row'.out = row.out
      BY <1>7 DEF TypeOK, RowRecord, RecoverIntact, Requeues
    <2>2. ~Unrecorded
      BY <1>7 DEF WrittenInv, ReadsInv, RowIsSettled, Unrecorded, RecoverIntact
    <2> QED
      BY <1>3, <1>4, <2>1, <2>2
  <1>8. CASE RecoverPromoted
    <2>1. row'.fp = library.v /\ row'.out = library.v
      BY <1>8 DEF TypeOK, RowRecord, RecoverPromoted, RecordsOutput
    <2>2. RowIsSettled'
      BY <1>2, <2>1 DEF RowIsSettled, PlayableInv, LibraryIsFit, Fit
    <2> QED
      BY <1>2, <1>3, <2>1, <2>2 DEF Unrecorded
  <1>9. CASE RecoverUndecidable
    <2>1. row'.fp = row.fp /\ row'.out = row.out
      BY <1>9 DEF TypeOK, RowRecord, RecoverUndecidable
    <2>2. library.v # None => library.v \in excused'
      BY <1>9 DEF RecoverUndecidable
    <2> QED
      BY <1>2, <1>3, <1>4, <2>1, <2>2 DEF Unrecorded
  <1>10. CASE SweepOrphans
    <2>1. row' = row
      BY <1>10 DEF SweepOrphans, db
    <2>2. ~Unrecorded
      BY <1>1, <1>10 DEF WrittenInv, UnrecordedIsLanding, Landing, SweepOrphans, Recovered
    <2> QED
      BY <1>3, <1>4, <2>1, <2>2
  <1> QED
    BY <1>5, <1>6, <1>7, <1>8, <1>9, <1>10 DEF Recover

\* A death between the rename and the record leaves a row that recovery looks at.
LEMMA CrashWritten ==
    ASSUME TypeOK, AnalysisReads, PlayableInv, WrittenInv, Crash
    PROVE  WrittenInv'
  <1>1. worker'.pc = "idle" /\ analysis'.pc = "idle" /\ ~up' /\ ~pending'
    BY DEF Crash, Idle, NoAnalysis
  <1>2. UNCHANGED <<made, row, job, excused>>
    BY DEF Crash, contents, db, history
  <1>3. library'.v = library.v /\ staged'[job.id].v = staged[job.id].v
    BY CrashLibrary, CrashStaged DEF PlayableInv, OwnsRow
  <1>4. Landing => Landing'
    BY <1>1, <1>2 DEF WrittenInv, PromotesByRow, Landing
  <1>5. Unrecorded' = Unrecorded
    BY <1>2, <1>3 DEF Unrecorded
  <1> QED
    BY <1>1, <1>2, <1>3, <1>4, <1>5 DEF WrittenInv, ReadsInv, UnrecordedIsLanding,
       StagedHasLanded, RowIsSettled, AnalysisIsOfMade, IdentityIsLibrary, PromotesByRow,
       Verified

\* The strengthening of WrittenIsRecorded holds for every bound.
THEOREM WrittenHolds == Spec => []WrittenInv
  <1>1. Init => WrittenInv
    <2> SUFFICES ASSUME Init PROVE WrittenInv
      OBVIOUS
    <2>1. 1 \in Version
      BY PromotionAssumption DEF Version
    <2> QED
      BY <2>1 DEF Init, WrittenInv, ReadsInv, UnrecordedIsLanding, StagedHasLanded,
         Unrecorded, RowIsSettled, AnalysisIsOfMade, IdentityIsLibrary, PromotesByRow,
         Verified, Complete, Idle, NoAnalysis, None
  <1>2. TypeOK /\ AnalysisReads /\ PlayableInv /\ SourceInv /\ WrittenInv /\ [Next]_vars
        => WrittenInv'
    <2>1. ASSUME WrittenInv, UNCHANGED vars PROVE WrittenInv'
      BY <2>1 DEF vars, contents, files, db, history, WrittenInv, ReadsInv,
         UnrecordedIsLanding, StagedHasLanded, Unrecorded, Landing, RowIsSettled,
         AnalysisIsOfMade, IdentityIsLibrary, PromotesByRow
    <2> QED
      BY <2>1, PipelineWritten, AnalyzerWritten, OutsideWritten, RecoverWritten,
         CrashWritten DEF Next
  <1> QED
    BY <1>1, <1>2, Typed, PlayableHolds, SourceHolds, PTL DEF Spec

\* Once nobody is promoting, an output found in the library is the one the row records
\* as Codarr's, or one the code is known to give up or to misjudge: whatever crashed
\* after the rename, and however often.
THEOREM Written == Spec => []WrittenIsRecorded
  <1>1. WrittenInv => WrittenIsRecorded
    BY DEF WrittenInv, UnrecordedIsLanding, Unrecorded, Landing, WrittenIsRecorded
  <1> QED
    BY <1>1, WrittenHolds, PTL
=============================================================================
