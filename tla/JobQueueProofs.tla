--------------------------- MODULE JobQueueProofs ---------------------------
(***************************************************************************)
(* Theorems about JobQueue, for every number of files, rows, clients,      *)
(* attempts and crashes.                                                   *)
(***************************************************************************)
EXTENDS JobQueue, TLAPS

-----------------------------------------------------------------------------
(* What each transaction of the store does to the tables' types. *)

\* A row of the table has the type of a row.
LEMMA RowType ==
    ASSUME StoreTypeOK, NEW j \in JobId
    PROVE  /\ jobs[j] \in JobRow
           /\ jobs[j].file \in Files
           /\ jobs[j].priority \in Int
           /\ jobs[j].attempt \in Nat
           /\ jobs[j].staged \in BOOLEAN
    BY DEF StoreTypeOK, JobRow

\* A state or failure code written to a row leaves the tables well typed.
LEMMA SetStateType ==
    ASSUME StoreTypeOK, NEW j \in JobId, NEW s \in JobStates,
           NEW code \in FailureCodes \union {NoFailure},
           jobs' = [jobs EXCEPT ![j].state = s, ![j].failure = code]
    PROVE  jobs' \in [JobId -> JobRow]
    BY ZenonT(60) DEF StoreTypeOK, JobRow

\* SetJobState keeps the tables well typed.
LEMMA SetJobStateType ==
    ASSUME StoreTypeOK, NEW j \in JobId, NEW s \in JobStates, SetJobState(j, s)
    PROVE  StoreTypeOK'
    BY DEF StoreTypeOK, JobRow, SetJobState

\* CancelJob keeps the tables well typed.
LEMMA CancelJobType ==
    ASSUME StoreTypeOK, NEW j \in JobId, CancelJob(j)
    PROVE  StoreTypeOK'
    BY DEF StoreTypeOK, JobRow, CancelJob, JobStates, TerminalStates

\* ClaimNextJob keeps the tables well typed.
LEMMA ClaimType ==
    ASSUME StoreTypeOK, NEW j \in JobId, ClaimNextJob(j)
    PROVE  StoreTypeOK'
    BY DEF StoreTypeOK, JobRow, ClaimNextJob, JobStates, ActiveJobStates,
       InFlightJobStates, MediaStatuses

\* FailJob keeps the tables well typed.
LEMMA FailType ==
    ASSUME StoreTypeOK, NEW j \in JobId, NEW code \in FailureCodes \union {NoFailure},
           FailJob(j, code)
    PROVE  StoreTypeOK'
  <1>1. jobs' \in [JobId -> JobRow]
    BY SetStateType DEF FailJob, JobStates, TerminalStates
  <1> QED
    BY <1>1 DEF StoreTypeOK, FailJob, MediaStatuses

\* RecordPromotion keeps the tables well typed.
LEMMA PromotionType ==
    ASSUME StoreTypeOK, NEW j \in JobId, RecordPromotion(j)
    PROVE  StoreTypeOK'
  <1>1. jobs' \in [JobId -> JobRow]
    BY SetStateType DEF RecordPromotion, JobStates, TerminalStates
  <1> QED
    BY <1>1 DEF StoreTypeOK, RecordPromotion, MediaStatuses

\* UpdateJobExecution keeps the tables well typed.
LEMMA ExecutionType ==
    ASSUME StoreTypeOK, NEW j \in JobId, UpdateJobExecution(j)
    PROVE  StoreTypeOK'
    BY DEF StoreTypeOK, JobRow, UpdateJobExecution

\* Releasing a file keeps the tables well typed.
LEMMA MediaType ==
    ASSUME StoreTypeOK, NEW f \in Files, SetMediaStatus(f, "analyzed")
    PROVE  StoreTypeOK'
    BY DEF StoreTypeOK, SetMediaStatus, MediaStatuses

\* A front priority is an integer.
LEMMA FrontType ==
    ASSUME StoreTypeOK, NEW j \in JobId, NEW p \in FrontCandidates(j)
    PROVE  p \in Int
    BY RowType DEF FrontCandidates, Queued

\* EnqueueJob keeps the tables well typed.
LEMMA EnqueueType ==
    ASSUME StoreTypeOK, NEW f \in Files, NEW p \in EnqueuePriorities, EnqueueJob(f, p)
    PROVE  StoreTypeOK'
  <1>1. p \in Int
    BY StoreAssumption
  <1> QED
    <2>1. PICK j \in JobId : jobs' = [jobs EXCEPT ![j] =
              [file |-> f, state |-> "queued", priority |-> p, queuedAt |-> clock',
               attempt |-> 0, staged |-> FALSE, failure |-> NoFailure]]
      BY DEF EnqueueJob
    <2>2. clock' \in Nat
      BY DEF StoreTypeOK, EnqueueJob
    <2>3. jobs' \in [JobId -> JobRow]
      BY <1>1, <2>1, <2>2 DEF StoreTypeOK, JobRow, JobStates, ActiveJobStates
    <2> QED
      BY <2>2, <2>3 DEF StoreTypeOK, EnqueueJob, MediaStatuses

\* RestartJob keeps the tables well typed.
LEMMA RestartType ==
    ASSUME StoreTypeOK, NEW j \in JobId, RestartJob(j)
    PROVE  StoreTypeOK'
  <1>1. PICK p \in FrontCandidates(j) : jobs' = [jobs EXCEPT ![j] =
                [@ EXCEPT !.state = "queued", !.priority = p, !.queuedAt = clock',
                          !.attempt = 0, !.staged = FALSE, !.failure = NoFailure]]
    BY DEF RestartJob
  <1>2. p \in Int /\ clock' \in Nat
    BY FrontType DEF StoreTypeOK, RestartJob
  <1>3. jobs' \in [JobId -> JobRow]
    BY ZenonT(60), <1>1, <1>2, RowType DEF StoreTypeOK, JobRow, JobStates, ActiveJobStates
  <1> QED
    BY <1>2, <1>3 DEF StoreTypeOK, RestartJob, MediaStatuses

\* The state RequeueOrFail leaves its row in; it touches no other.
LEMMA RequeueRow ==
    ASSUME StoreTypeOK, NEW j \in JobId, RequeueOrFail(j)
    PROVE  /\ jobs'[j].state \in {"failed", "queued"}
           /\ \A k \in JobId \ {j} : jobs'[k] = jobs[k]
  <1>1. CASE FailJob(j, "interrupted")
    BY <1>1 DEF FailJob, StoreTypeOK, JobRow
  <1>2. CASE ~FailJob(j, "interrupted")
    <2>1. PICK p \in FrontCandidates(j) : jobs' = [jobs EXCEPT ![j] =
                   [@ EXCEPT !.state = "queued", !.priority = p,
                             !.attempt = jobs[j].attempt + 1, !.staged = FALSE]]
      BY <1>2 DEF RequeueOrFail
    <2> QED
      BY <2>1 DEF StoreTypeOK, JobRow
  <1> QED
    BY <1>1, <1>2

\* What RestartJob does to its row; it touches no other.
LEMMA RestartRow ==
    ASSUME StoreTypeOK, NEW j \in JobId, RestartJob(j)
    PROVE  /\ jobs'[j].state = "queued" /\ jobs'[j].file = jobs[j].file
           /\ jobs'[j].attempt = 0
           /\ \A k \in JobId \ {j} : jobs'[k] = jobs[k]
  <1>1. PICK p \in FrontCandidates(j) : jobs' = [jobs EXCEPT ![j] =
                [@ EXCEPT !.state = "queued", !.priority = p, !.queuedAt = clock',
                          !.attempt = 0, !.staged = FALSE, !.failure = NoFailure]]
    BY DEF RestartJob
  <1> QED
    BY <1>1 DEF StoreTypeOK, JobRow

\* The loop guard of the sweep keeps the tables well typed.
LEMMA RequeueType ==
    ASSUME StoreTypeOK, NEW j \in JobId, RequeueOrFail(j)
    PROVE  StoreTypeOK'
  <1>1. CASE FailJob(j, "interrupted")
    BY <1>1, FailType DEF FailureCodes
  <1>2. CASE ~FailJob(j, "interrupted")
    <2>1. PICK p \in FrontCandidates(j) : jobs' = [jobs EXCEPT ![j] =
                   [@ EXCEPT !.state = "queued", !.priority = p,
                             !.attempt = jobs[j].attempt + 1, !.staged = FALSE]]
      BY <1>2 DEF RequeueOrFail
    <2>2. p \in Int /\ jobs[j].attempt + 1 \in Nat
      BY FrontType, RowType
    <2> DEFINE row == [jobs[j] EXCEPT !.state = "queued", !.priority = p,
                                      !.attempt = jobs[j].attempt + 1, !.staged = FALSE]
    <2>3. row \in JobRow
      BY <2>2, RowType DEF JobRow, JobStates, ActiveJobStates
    <2>4. jobs' \in [JobId -> JobRow]
      BY <2>1, <2>3 DEF StoreTypeOK
    <2> QED
      BY <1>2, <2>4 DEF StoreTypeOK, RequeueOrFail, MediaStatuses
  <1> QED
    BY <1>1, <1>2

\* A worker at work and a handler in a call always name a row of the table.
Holders ==
    /\ worker.pc \in {"idle", "polled"} <=> worker.job = NoJob
    /\ \A c \in Clients : client[c].pc # "idle" => client[c].job # NoJob

\* The null job is no row.
LEMMA NoJobIsNone == NoJob \notin JobId
    BY StoreAssumption DEF NoJob, JobId

\* The worker's steps keep the type invariant.
LEMMA WorkerType ==
    ASSUME TypeOK, Holders, Worker
    PROVE  TypeOK' /\ Holders'
  <1> USE NoJobIsNone
  <1>1. CASE PopPending
    <2>1. Head(pending) \in JobId /\ pending' \in Seq(JobId)
      BY <1>1 DEF PopPending, TypeOK
    <2>2. /\ worker' \in WorkerRecord
          /\ worker'.pc \in {"idle", "polled"} <=> worker'.job = NoJob
      BY <1>1, <2>1 DEF PopPending, Idle, WorkerPoints, WorkerRecord
    <2> QED
      BY <1>1, <2>1, <2>2 DEF PopPending, TypeOK, Holders, storeVars, diskVars, StoreTypeOK
  <1>2. CASE PollQueue
    BY <1>2 DEF TypeOK, WorkerRecord, Holders, At, Goto, KeepAllButWorker, storeVars,
       diskVars, memVars, PollQueue, WorkerPoints, SlotPoints, BodyPoints, UnwindPoints,
       StoreTypeOK, NoJob, NoFailure
  <1>3. CASE Claim
    <2>1. CASE UNCHANGED storeVars /\ worker' = Idle /\ UNCHANGED <<landed, starts>>
      BY <1>3, <2>1 DEF Claim, TypeOK, WorkerRecord, Holders, KeepAllButWorker, Idle,
         storeVars, WorkerPoints, StoreTypeOK
    <2>2. ASSUME NEW j \in Queued, ClaimNextJob(j),
                 worker' = [Idle EXCEPT !.pc = "claimed", !.job = j],
                 landed' = [landed EXCEPT ![j] = FALSE],
                 starts' = [starts EXCEPT ![j] = @ + 1]
          PROVE  TypeOK' /\ Holders'
      <3>1. j \in JobId
        BY DEF Queued
      <3>2. StoreTypeOK'
        BY <2>2, <3>1, ClaimType DEF TypeOK
      <3>3. landed' \in [JobId -> BOOLEAN] /\ starts' \in [JobId -> Nat]
        BY <2>2, <3>1 DEF TypeOK
      <3>4. UNCHANGED <<stagingFile, left>> /\ KeepAllButWorker
        BY <1>3 DEF Claim
      <3>5. /\ worker' \in WorkerRecord
            /\ worker'.pc \notin {"idle", "polled"} /\ worker'.job # NoJob
        BY <2>2, <3>1 DEF Idle, WorkerPoints, WorkerRecord
      <3> QED
        BY <3>2, <3>3, <3>4, <3>5 DEF TypeOK, Holders, KeepAllButWorker
    <2> QED
      BY <1>3, <2>1, <2>2 DEF Claim
  <1>4. CASE MarkRunning
    BY <1>4 DEF TypeOK, WorkerRecord, Holders, At, Goto, KeepAllButWorker, storeVars,
       diskVars, memVars, MarkRunning, NoCurrent, WorkerPoints, SlotPoints, BodyPoints,
       UnwindPoints, StoreTypeOK, NoJob, NoFailure
  <1>5. CASE Prepare
    BY <1>5 DEF TypeOK, WorkerRecord, Holders, At, Goto, KeepAllButWorker, storeVars,
       diskVars, memVars, Prepare, WorkerPoints, SlotPoints, BodyPoints, UnwindPoints,
       StoreTypeOK, NoJob, NoFailure
  <1>6. CASE PrepareFails
    BY <1>6 DEF TypeOK, WorkerRecord, Holders, At, Goto, KeepAllButWorker, storeVars,
       diskVars, memVars, PrepareFails, Unwind, FailureCodes, WorkerPoints, SlotPoints,
       BodyPoints, UnwindPoints, StoreTypeOK, NoJob, NoFailure
  <1>7. CASE Launch
    BY <1>7, ExecutionType DEF TypeOK, WorkerRecord, Holders, At, Goto, KeepAllButWorker,
       storeVars, diskVars, memVars, Launch, WorkerPoints, SlotPoints, BodyPoints,
       UnwindPoints, StoreTypeOK, NoJob, NoFailure
  <1>8. CASE Encode
    BY <1>8 DEF TypeOK, WorkerRecord, Holders, At, Goto, KeepAllButWorker, storeVars,
       diskVars, memVars, Encode, WorkerPoints, SlotPoints, BodyPoints, UnwindPoints,
       StoreTypeOK, NoJob, NoFailure
  <1>9. CASE Rebuild
    BY <1>9 DEF TypeOK, WorkerRecord, Holders, At, Goto, KeepAllButWorker, storeVars,
       diskVars, memVars, Rebuild, WorkerPoints, SlotPoints, BodyPoints, UnwindPoints,
       StoreTypeOK, NoJob, NoFailure
  <1>10. CASE EnterVerifying
    BY <1>10, SetJobStateType DEF TypeOK, WorkerRecord, Holders, At, Goto,
       KeepAllButWorker, storeVars, diskVars, memVars, EnterVerifying, JobStates,
       ActiveJobStates, InFlightJobStates, WorkerPoints, SlotPoints, BodyPoints,
       UnwindPoints, StoreTypeOK, NoJob, NoFailure
  <1>11. CASE EnterPromoting
    BY <1>11, SetJobStateType DEF TypeOK, WorkerRecord, Holders, At, Goto,
       KeepAllButWorker, storeVars, diskVars, memVars, EnterPromoting, JobStates,
       ActiveJobStates, InFlightJobStates, WorkerPoints, SlotPoints, BodyPoints,
       UnwindPoints, StoreTypeOK, NoJob, NoFailure
  <1>12. CASE Verify
    BY <1>12 DEF TypeOK, WorkerRecord, Holders, At, Goto, KeepAllButWorker, storeVars,
       diskVars, memVars, Verify, WorkerPoints, SlotPoints, BodyPoints, UnwindPoints,
       StoreTypeOK, NoJob, NoFailure
  <1>13. CASE VerifyFails
    BY <1>13 DEF TypeOK, WorkerRecord, Holders, At, Goto, KeepAllButWorker, storeVars,
       diskVars, memVars, VerifyFails, Unwind, FailureCodes, WorkerPoints, SlotPoints,
       BodyPoints, UnwindPoints, StoreTypeOK, NoJob, NoFailure
  <1>14. CASE Blocked
    BY <1>14, SetJobStateType DEF TypeOK, WorkerRecord, Holders, At, Goto,
       KeepAllButWorker, storeVars, diskVars, memVars, Blocked, JobStates, ActiveJobStates,
       InFlightJobStates, WorkerPoints, SlotPoints, BodyPoints, UnwindPoints, StoreTypeOK,
       NoJob, NoFailure
  <1>15. CASE RetryGuard
    BY <1>15 DEF TypeOK, WorkerRecord, Holders, At, Goto, KeepAllButWorker, storeVars,
       diskVars, memVars, RetryGuard, WorkerPoints, SlotPoints, BodyPoints, UnwindPoints,
       StoreTypeOK, NoJob, NoFailure
  <1>16. CASE StreamClear
    BY <1>16 DEF TypeOK, WorkerRecord, Holders, At, Goto, KeepAllButWorker, storeVars,
       diskVars, memVars, StreamClear, WorkerPoints, SlotPoints, BodyPoints, UnwindPoints,
       StoreTypeOK, NoJob, NoFailure
  <1>17. CASE Rename
    BY <1>17 DEF TypeOK, WorkerRecord, Holders, At, Goto, KeepAllButWorker, storeVars,
       diskVars, memVars, Rename, WorkerPoints, SlotPoints, BodyPoints, UnwindPoints,
       StoreTypeOK, NoJob, NoFailure
  <1>18. CASE Restore
    BY <1>18 DEF TypeOK, WorkerRecord, Holders, At, Goto, KeepAllButWorker, storeVars,
       diskVars, memVars, Restore, FailureCodes, WorkerPoints, SlotPoints, BodyPoints,
       UnwindPoints, StoreTypeOK, NoJob, NoFailure
  <1>19. CASE Settle
    BY <1>19, PromotionType DEF TypeOK, WorkerRecord, Holders, At, Goto, KeepAllButWorker,
       storeVars, diskVars, memVars, Settle, WorkerPoints, SlotPoints, BodyPoints,
       UnwindPoints, StoreTypeOK, NoJob, NoFailure
  <1>20. CASE StopsEarly
    BY <1>20 DEF TypeOK, WorkerRecord, Holders, At, Goto, KeepAllButWorker, storeVars,
       diskVars, memVars, StopsEarly, Unwind, FailureCodes, WorkerPoints, SlotPoints,
       BodyPoints, UnwindPoints, StoreTypeOK, NoJob, NoFailure
  <1>21. CASE FinishCancelled
    <2>1. worker.job \in JobId
      BY <1>21 DEF FinishCancelled, At, TypeOK, WorkerRecord, Holders
    <2>2. stagingFile' \in [JobId -> {"none", "partial", "whole"}]
      BY <1>21, <2>1 DEF FinishCancelled, RemoveOwnStaging, RemoveStaging, TypeOK
    <2>3. left' \in SUBSET JobId
      BY <1>21, <2>1 DEF FinishCancelled, LeaveBehind, TypeOK
    <2> QED
      BY <1>21, <2>2, <2>3 DEF FinishCancelled, At, Goto, KeepAllButWorker, TypeOK,
         WorkerRecord, Holders, storeVars, StoreTypeOK, WorkerPoints, SlotPoints,
         BodyPoints, UnwindPoints
  <1>22. CASE FinishCancelledRow
    BY <1>22, CancelJobType DEF TypeOK, WorkerRecord, Holders, At, Goto, KeepAllButWorker,
       storeVars, diskVars, memVars, FinishCancelledRow, WorkerPoints, SlotPoints,
       BodyPoints, UnwindPoints, StoreTypeOK, NoJob, NoFailure
  <1>23. CASE ReleaseMedia
    BY <1>23, MediaType, RowType DEF TypeOK, WorkerRecord, Holders, At, Goto,
       KeepAllButWorker, storeVars, diskVars, memVars, ReleaseMedia, WorkerPoints,
       SlotPoints, BodyPoints, UnwindPoints, StoreTypeOK, NoJob, NoFailure
  <1>24. CASE FinishFailed
    BY <1>24 DEF TypeOK, WorkerRecord, Holders, At, Goto, KeepAllButWorker, storeVars,
       diskVars, memVars, FinishFailed, RemoveOwnStaging, RemoveStaging, LeaveBehind,
       WorkerPoints, SlotPoints, BodyPoints, UnwindPoints, StoreTypeOK, NoJob, NoFailure
  <1>25. CASE FinishFailedRow
    BY <1>25, FailType DEF TypeOK, WorkerRecord, Holders, At, Goto, KeepAllButWorker,
       storeVars, diskVars, memVars, FinishFailedRow, WorkerPoints, SlotPoints, BodyPoints,
       UnwindPoints, StoreTypeOK, NoJob, NoFailure
  <1>26. CASE ClearRunning
    BY <1>26 DEF TypeOK, WorkerRecord, Holders, At, Goto, KeepAllButWorker, storeVars,
       diskVars, memVars, ClearRunning, Idle, NoCurrent, NoCancel, ClientPoints,
       ClientRecord, WorkerPoints, SlotPoints, BodyPoints, UnwindPoints, StoreTypeOK,
       NoJob, NoFailure
  <1> QED
    BY <1>1, <1>2, <1>3, <1>4, <1>5, <1>6, <1>7, <1>8, <1>9, <1>10, <1>11, <1>12, <1>13,
       <1>14, <1>15, <1>16, <1>17, <1>18, <1>19, <1>20, <1>21, <1>22, <1>23, <1>24, <1>25,
       <1>26 DEF Worker

\* A Cancel call may move to any record that names a job while it is at work.
LEMMA ClientUpdate ==
    ASSUME TypeOK, Holders, NEW c \in Clients, NEW r \in ClientRecord,
           r.pc # "idle" => r.job # NoJob,
           client' = [client EXCEPT ![c] = r]
    PROVE  /\ client' \in [Clients -> ClientRecord]
           /\ \A d \in Clients : client'[d].pc # "idle" => client'[d].job # NoJob
    BY DEF TypeOK, Holders
\* The later steps of a Cancel call keep the type invariant.
LEMMA ClientType ==
    ASSUME TypeOK, Holders, NEW c \in Clients, CancelStep(c) \/ CancelHangsUp(c)
    PROVE  TypeOK' /\ Holders'
  <1>1. CASE CancelReads(c)
    <2> DEFINE r == [client[c] EXCEPT !.pc = "cancelling", !.staged = jobs[client[c].job].staged]
    <2>1. client[c] \in ClientRecord /\ client[c].job \in JobId
      BY <1>1 DEF CancelReads, TypeOK, Holders, ClientRecord
    <2>2. jobs[client[c].job].staged \in BOOLEAN
      BY <2>1, RowType DEF TypeOK
    <2>3. r \in ClientRecord /\ (r.pc # "idle" => r.job # NoJob)
      BY <1>1, <2>1, <2>2, NoJobIsNone DEF ClientRecord, ClientPoints, NoCancel
    <2>4. client' = [client EXCEPT ![c] = r]
      BY <1>1 DEF CancelReads
    <2>5. /\ client' \in [Clients -> ClientRecord]
          /\ \A d \in Clients : client'[d].pc # "idle" => client'[d].job # NoJob
      BY <2>3, <2>4, ClientUpdate
    <2> HIDE DEF r
    <2> QED
      BY <1>1, <2>1, <2>5 DEF CancelReads, KeepAllButClient, TypeOK, StoreTypeOK,
         storeVars, Holders
  <1>2. CASE CancelWrites(c)
    <2>1. client[c] \in ClientRecord /\ client[c].job \in JobId
      BY <1>2 DEF CancelWrites, TypeOK, Holders, ClientRecord
    <2>2. StoreTypeOK'
      BY <1>2, <2>1, CancelJobType DEF CancelWrites, TypeOK, storeVars, StoreTypeOK
    <2>3. PICK r \in {NoCancel, [client[c] EXCEPT !.pc = "releasing"]} :
             client' = [client EXCEPT ![c] = r]
      BY <1>2 DEF CancelWrites
    <2>4. r \in ClientRecord /\ (r.pc # "idle" => r.job # NoJob)
      <3>1. CASE r = NoCancel
        BY <3>1 DEF ClientRecord, ClientPoints, NoCancel
      <3>2. CASE r = [client[c] EXCEPT !.pc = "releasing"]
        BY <2>1, <3>2, NoJobIsNone DEF ClientRecord, ClientPoints
      <3> QED
        BY <2>3, <3>1, <3>2
    <2>5. /\ client' \in [Clients -> ClientRecord]
          /\ \A d \in Clients : client'[d].pc # "idle" => client'[d].job # NoJob
      BY <2>3, <2>4, ClientUpdate
    <2> QED
      BY <1>2, <2>2, <2>5 DEF CancelWrites, KeepAllButClient, TypeOK, Holders
  <1>3. CASE CancelReleases(c)
    <2> DEFINE r == [client[c] EXCEPT !.pc = "unstaging"]
    <2>1. client[c] \in ClientRecord /\ client[c].job \in JobId
      BY <1>3 DEF CancelReleases, TypeOK, Holders, ClientRecord
    <2>3. r \in ClientRecord /\ (r.pc # "idle" => r.job # NoJob)
      BY <1>3, <2>1, NoJobIsNone DEF ClientRecord, ClientPoints, NoCancel
    <2>4. client' = [client EXCEPT ![c] = r]
      BY <1>3 DEF CancelReleases
    <2>5. /\ client' \in [Clients -> ClientRecord]
          /\ \A d \in Clients : client'[d].pc # "idle" => client'[d].job # NoJob
      BY <2>3, <2>4, ClientUpdate
    <2> HIDE DEF r
    <2> QED
      BY <1>3, <2>1, <2>5, MediaType, RowType DEF CancelReleases, KeepAllButClient, TypeOK,
         StoreTypeOK, storeVars, Holders
  <1>4. CASE CancelUnstages(c)
    <2> DEFINE r == NoCancel
    <2>1. client[c] \in ClientRecord /\ client[c].job \in JobId
      BY <1>4 DEF CancelUnstages, TypeOK, Holders, ClientRecord
    <2>3. r \in ClientRecord /\ (r.pc # "idle" => r.job # NoJob)
      BY <1>4, <2>1, NoJobIsNone DEF ClientRecord, ClientPoints, NoCancel
    <2>4. client' = [client EXCEPT ![c] = r]
      BY <1>4 DEF CancelUnstages
    <2>5. /\ client' \in [Clients -> ClientRecord]
          /\ \A d \in Clients : client'[d].pc # "idle" => client'[d].job # NoJob
      BY <2>3, <2>4, ClientUpdate
    <2> HIDE DEF r
    <2> QED
      BY <1>4, <2>1, <2>5 DEF CancelUnstages, KeepAllButClient, RemoveStaging, TypeOK,
         StoreTypeOK, storeVars, Holders
  <1>5. CASE CancelHangsUp(c)
    <2> DEFINE r == IF client[c].pc = "releasing" THEN [client[c] EXCEPT !.pc = "unstaging"] ELSE NoCancel
    <2>1. client[c] \in ClientRecord /\ client[c].job \in JobId
      BY <1>5 DEF CancelHangsUp, TypeOK, Holders, ClientRecord
    <2>3. r \in ClientRecord /\ (r.pc # "idle" => r.job # NoJob)
      BY <1>5, <2>1, NoJobIsNone DEF ClientRecord, ClientPoints, NoCancel
    <2>4. client' = [client EXCEPT ![c] = r]
      BY <1>5 DEF CancelHangsUp
    <2>5. /\ client' \in [Clients -> ClientRecord]
          /\ \A d \in Clients : client'[d].pc # "idle" => client'[d].job # NoJob
      BY <2>3, <2>4, ClientUpdate
    <2> HIDE DEF r
    <2> QED
      BY <1>5, <2>1, <2>5 DEF CancelHangsUp, KeepAllButClient, TypeOK, StoreTypeOK,
         storeVars, Holders
  <1> QED
    BY <1>1, <1>2, <1>3, <1>4, <1>5 DEF CancelStep

\* A new Cancel call keeps the type invariant.
LEMMA CancelCallType ==
    ASSUME TypeOK, Holders, NEW c \in Clients, NEW j \in JobId, CancelCall(c, j)
    PROVE  TypeOK' /\ Holders'
  <1>1. PICK pc \in {"waiting", "reading"} :
           client' = [client EXCEPT ![c] = [NoCancel EXCEPT !.pc = pc, !.job = j]]
    BY DEF CancelCall
  <1> DEFINE r == [NoCancel EXCEPT !.pc = pc, !.job = j]
  <1>2. r \in ClientRecord /\ r.job # NoJob
    BY NoJobIsNone DEF ClientRecord, ClientPoints, NoCancel
  <1>3. /\ client' \in [Clients -> ClientRecord]
        /\ \A d \in Clients : client'[d].pc # "idle" => client'[d].job # NoJob
    BY <1>1, <1>2, ClientUpdate
  <1>4. current' \in [job : JobId \union {NoJob}, requested : BOOLEAN, staging : BOOLEAN]
    BY DEF CancelCall, TypeOK
  <1> QED
    BY <1>3, <1>4 DEF CancelCall, KeepAllButClient, TypeOK, StoreTypeOK, storeVars, Holders

\* Boot, sweep and recovery keep the type invariant.
LEMMA RecoverType ==
    ASSUME TypeOK, Holders, Recover
    PROVE  TypeOK' /\ Holders'
  <1> USE NoJobIsNone
  <1>1. CASE Boot
    BY <1>1 DEF TypeOK, Holders, StoreTypeOK, RecoveryRecord, Boot, KeepInRecovery,
       storeVars, diskVars, NoRecovery
  <1>2. CASE SweepCommits
    BY <1>2 DEF TypeOK, Holders, StoreTypeOK, RecoveryRecord, SweepCommits, KeepInRecovery,
       storeVars, diskVars, NoRecovery
  <1>3. CASE SweepOrphans
    BY <1>3 DEF TypeOK, Holders, StoreTypeOK, RecoveryRecord, SweepOrphans, KeepInRecovery,
       storeVars, diskVars, NoRecovery
  <1>4. ASSUME NEW j \in JobId, SweepOne(j) PROVE TypeOK' /\ Holders'
    BY <1>4, RequeueType, RowType DEF TypeOK, Holders, StoreTypeOK, RecoveryRecord,
       SweepOne, KeepInRecovery, storeVars, diskVars
  <1>5. ASSUME NEW j \in JobId, RecoverUnstages(j) PROVE TypeOK' /\ Holders'
    BY <1>5 DEF TypeOK, Holders, StoreTypeOK, RecoveryRecord, RecoverUnstages,
       KeepInRecovery, storeVars, diskVars, RemoveStaging
  <1>6. ASSUME NEW j \in JobId, RecoverResumes(j) PROVE TypeOK' /\ Holders'
    <2>1. pending' \in Seq(JobId)
      BY <1>6 DEF RecoverResumes, TypeOK
    <2>2. rec' \in RecoveryRecord
      BY <1>6 DEF RecoverResumes, TypeOK, RecoveryRecord
    <2> QED
      BY <1>6, <2>1, <2>2 DEF TypeOK, Holders, StoreTypeOK, RecoverResumes, KeepInRecovery,
         storeVars, diskVars
  <1>7. ASSUME NEW j \in JobId, RecoverIntact(j) PROVE TypeOK' /\ Holders'
    BY <1>7 DEF TypeOK, Holders, StoreTypeOK, RecoveryRecord, RecoverIntact,
       KeepInRecovery, storeVars, diskVars, RemoveStaging
  <1>8. ASSUME NEW j \in JobId, RecoverRequeues(j) PROVE TypeOK' /\ Holders'
    BY <1>8, RequeueType DEF TypeOK, Holders, StoreTypeOK, RecoveryRecord, RecoverRequeues,
       KeepInRecovery, storeVars, diskVars
  <1>9. ASSUME NEW j \in JobId, RecoverPromoted(j) PROVE TypeOK' /\ Holders'
    BY <1>9, PromotionType DEF TypeOK, Holders, StoreTypeOK, RecoveryRecord,
       RecoverPromoted, KeepInRecovery, storeVars, diskVars
  <1>10. ASSUME NEW j \in JobId, RecoverErrs(j) PROVE TypeOK' /\ Holders'
    BY <1>10 DEF TypeOK, Holders, StoreTypeOK, RecoveryRecord, RecoverErrs, KeepInRecovery,
       storeVars, diskVars
  <1>11. ASSUME NEW j \in JobId, RecoverUndecidable(j) PROVE TypeOK' /\ Holders'
    BY <1>11, FailType, RowType DEF TypeOK, Holders, StoreTypeOK, RecoveryRecord,
       RecoverUndecidable, KeepInRecovery, storeVars, diskVars, FailureCodes
  <1> QED
    BY <1>1, <1>2, <1>3, <1>4, <1>5, <1>6, <1>7, <1>8, <1>9, <1>10, <1>11 DEF Recover

\* The type invariant, strengthened by who holds a job: a worker at work and a
\* handler in a call always name a row of the table.
THEOREM Typed == Spec => [](TypeOK /\ Holders)
  <1>1. Init => TypeOK /\ Holders
    <2> SUFFICES ASSUME Init
                 PROVE  TypeOK /\ Holders
      OBVIOUS
    <2>1. AbsentRow \in JobRow
      BY StoreAssumption DEF AbsentRow, JobRow
    <2>2. StoreTypeOK
      BY <2>1 DEF Init, StoreInit, StoreTypeOK, MediaStatuses
    <2>3. worker \in WorkerRecord /\ rec \in RecoveryRecord
      BY DEF Init, Idle, NoRecovery, WorkerRecord, WorkerPoints, RecoveryRecord
    <2>4. client \in [Clients -> ClientRecord]
      BY DEF Init, NoCancel, ClientRecord, ClientPoints
    <2>5. pending \in Seq(JobId) /\ starts \in [JobId -> Nat]
      BY DEF Init
    <2>6. /\ stagingFile \in [JobId -> {"none", "partial", "whole"}]
          /\ landed \in [JobId -> BOOLEAN]
          /\ current \in [job : JobId \union {NoJob}, requested : BOOLEAN, staging : BOOLEAN]
      BY DEF Init, NoCurrent
    <2>7. Holders
      BY DEF Init, Holders, Idle, NoCancel
    <2> QED
      BY <2>2, <2>3, <2>4, <2>5, <2>6, <2>7 DEF Init, TypeOK
  <1>2. TypeOK /\ Holders /\ [Next]_vars => (TypeOK /\ Holders)'
    <2> SUFFICES ASSUME TypeOK, Holders, [Next]_vars
                 PROVE  TypeOK' /\ Holders'
      OBVIOUS
    <2>1. CASE UNCHANGED vars
      BY <2>1 DEF vars, storeVars, diskVars, memVars, TypeOK, StoreTypeOK, Holders
    <2>2. CASE Crash
      BY <2>2, NoJobIsNone DEF Crash, TypeOK, Holders, StoreTypeOK, storeVars, diskVars,
         Idle, NoCurrent, NoCancel, NoRecovery, NoFailure, WorkerPoints, ClientPoints,
         WorkerRecord, ClientRecord, RecoveryRecord
    <2>3. ASSUME NEW f \in Files, NEW p \in EnqueuePriorities, Enqueue(f, p)
          PROVE  TypeOK' /\ Holders'
      BY <2>3, EnqueueType DEF Enqueue, TypeOK, Holders, KeepAllButStore, diskVars, memVars
    <2>4. ASSUME NEW j \in JobId, Restart(j)
          PROVE  TypeOK' /\ Holders'
      BY <2>4, RestartType DEF Restart, TypeOK, Holders, KeepAllButStore, diskVars, memVars
    <2>5. ASSUME NEW b \in BOOLEAN, SetPaused(b)
          PROVE  TypeOK' /\ Holders'
      BY <2>5 DEF SetPaused, TypeOK, Holders, StoreTypeOK, storeVars, diskVars, memVars
    <2> QED
      BY <2>1, <2>2, <2>3, <2>4, <2>5, WorkerType, ClientType, CancelCallType, RecoverType
         DEF Next
  <1> QED
    BY <1>1, <1>2, PTL DEF Spec

-----------------------------------------------------------------------------
(* How a step moves a row: the only things the queue ever does to one.  The *)
(* bound on attempts and the index follow from this list alone.             *)

KeepsRow(j) == jobs'[j].file = jobs[j].file /\ jobs'[j].attempt = jobs[j].attempt

Inserted(j) ==
    /\ State(j) = "absent" /\ State(j)' = "queued" /\ jobs'[j].attempt = 0
    /\ IndexAllows(j, jobs'[j].file)
    /\ starts' = starts

Claimed(j) ==
    /\ State(j) = "queued" /\ State(j)' = "running" /\ KeepsRow(j)
    /\ starts' = [starts EXCEPT ![j] = @ + 1]

Advanced(j) ==
    /\ State(j)' \in InFlightJobStates /\ KeepsRow(j)
    /\ IndexAllows(j, jobs[j].file)
    /\ starts' = starts

Ended(j) == State(j)' \in TerminalStates /\ KeepsRow(j) /\ starts' = starts

Restarted(j) ==
    /\ State(j)' = "queued" /\ jobs'[j].attempt = 0 /\ jobs'[j].file = jobs[j].file
    /\ IndexAllows(j, jobs[j].file)
    /\ starts' = [starts EXCEPT ![j] = 0]

Requeued(j) ==
    /\ State(j) \in InFlightJobStates /\ State(j)' = "queued"
    /\ jobs[j].attempt < MaxAutoAttempts /\ jobs'[j].attempt = jobs[j].attempt + 1
    /\ jobs'[j].file = jobs[j].file
    /\ starts' = starts

Noted(j) == State(j)' = State(j) /\ KeepsRow(j) /\ starts' = starts

RowMove(j) ==
    /\ \A k \in JobId \ {j} : jobs'[k] = jobs[k]
    /\ \/ Inserted(j) \/ Claimed(j) \/ Advanced(j) \/ Ended(j)
       \/ Restarted(j) \/ Requeued(j) \/ Noted(j)

RowStep == (jobs' = jobs /\ starts' = starts) \/ \E j \in JobId : RowMove(j)

\* While the process is down or recovering, nothing of the last run is in memory, and
\* the rows recovery has still to judge are where the crash left them.
RecoveryOwn ==
    /\ mode # "up" => worker = Idle /\ \A c \in Clients : client[c].pc = "idle"
    /\ mode \in {"down", "sweep"} =>
          rec.intact = {} /\ rec.keep = {} /\ rec.abandoned = {} /\ pending = <<>>
    /\ mode = "recover" =>
          /\ rec.intact \subseteq rec.check
          /\ \A j \in rec.check : State(j) \in {"promoting", "awaiting_stream_end"}

\* FailJob ends its row.
LEMMA FailMove ==
    ASSUME StoreTypeOK, NEW j \in JobId, NEW code \in FailureCodes \union {NoFailure},
           FailJob(j, code), starts' = starts
    PROVE  RowMove(j)
    BY DEF FailJob, StoreTypeOK, JobRow, State, RowMove, Ended, KeepsRow, TerminalStates

\* RecordPromotion ends its row.
LEMMA PromotionMove ==
    ASSUME StoreTypeOK, NEW j \in JobId, RecordPromotion(j), starts' = starts
    PROVE  RowMove(j)
    BY DEF RecordPromotion, StoreTypeOK, JobRow, State, RowMove, Ended, KeepsRow,
       TerminalStates

\* CancelJob ends its row.
LEMMA CancelMove ==
    ASSUME StoreTypeOK, NEW j \in JobId, CancelJob(j), starts' = starts
    PROVE  RowMove(j)
    BY DEF CancelJob, StoreTypeOK, JobRow, State, RowMove, Ended, KeepsRow, TerminalStates

\* SetJobState, where the index lets it, advances its row.
LEMMA AdvanceMove ==
    ASSUME StoreTypeOK, NEW j \in JobId, NEW s \in InFlightJobStates, SetJobState(j, s),
           starts' = starts
    PROVE  RowMove(j)
    BY DEF SetJobState, SetJobStateAllowed, StoreTypeOK, JobRow, State, RowMove, Advanced,
       KeepsRow

\* The loop guard ends or requeues a row in flight.
LEMMA RequeueMove ==
    ASSUME StoreTypeOK, NEW j \in JobId, State(j) \in InFlightJobStates, RequeueOrFail(j),
           starts' = starts
    PROVE  RowMove(j)
  <1>1. CASE FailJob(j, "interrupted")
    BY <1>1, FailMove DEF FailureCodes
  <1>2. CASE ~FailJob(j, "interrupted")
    <2>1. PICK p \in FrontCandidates(j) : jobs' = [jobs EXCEPT ![j] =
                   [@ EXCEPT !.state = "queued", !.priority = p,
                             !.attempt = jobs[j].attempt + 1, !.staged = FALSE]]
      BY <1>2 DEF RequeueOrFail
    <2>2. jobs[j].attempt < MaxAutoAttempts
      BY <1>2 DEF RequeueOrFail
    <2>3. /\ jobs'[j].state = "queued" /\ jobs'[j].file = jobs[j].file
          /\ jobs'[j].attempt = jobs[j].attempt + 1
          /\ \A k \in JobId \ {j} : jobs'[k] = jobs[k]
      BY <2>1 DEF StoreTypeOK, JobRow
    <2> QED
      BY <2>2, <2>3 DEF RowMove, Requeued, State
  <1> QED
    BY <1>1, <1>2

\* The worker moves one row at a time, in one of the listed ways.
LEMMA WorkerMove ==
    ASSUME TypeOK, Holders, Worker
    PROVE  RowStep
  <1>1. StoreTypeOK /\ (worker.pc \notin {"idle", "polled"} => worker.job \in JobId)
    BY DEF TypeOK, Holders, WorkerRecord
  <1>2. CASE Claim
    <2>1. ASSUME NEW j \in Queued, ClaimNextJob(j), starts' = [starts EXCEPT ![j] = @ + 1]
          PROVE  RowStep
      BY <1>1, <2>1 DEF Queued, ClaimNextJob, StoreTypeOK, JobRow, State, RowStep, RowMove,
         Claimed, KeepsRow
    <2> QED
      BY <1>2, <2>1 DEF Claim, RowStep, storeVars
  <1>3. CASE Launch
    BY <1>1, <1>3 DEF Launch, At, UpdateJobExecution, StoreTypeOK, JobRow, State, RowStep,
       RowMove, Noted, KeepsRow
  <1>4. CASE EnterVerifying \/ EnterPromoting \/ Blocked
    BY <1>1, <1>4, AdvanceMove DEF EnterVerifying, EnterPromoting, Blocked, At, RowStep,
       InFlightJobStates, storeVars
  <1>5. CASE Settle
    BY <1>1, <1>5, PromotionMove DEF Settle, At, RowStep
  <1>6. CASE FinishCancelledRow
    BY <1>1, <1>6, CancelMove DEF FinishCancelledRow, At, RowStep, storeVars
  <1>7. CASE FinishFailedRow
    BY <1>1, <1>7, FailMove DEF FinishFailedRow, At, RowStep, TypeOK, WorkerRecord
  <1>8. CASE PopPending \/ PollQueue \/ MarkRunning \/ Prepare \/ PrepareFails \/ Encode \/ Rebuild
    BY <1>8 DEF PopPending, PollQueue, MarkRunning, Prepare, PrepareFails, Encode, Rebuild,
       RowStep, storeVars
  <1>9. CASE Verify \/ VerifyFails \/ RetryGuard \/ StreamClear \/ Rename \/ Restore \/ StopsEarly
    BY <1>9 DEF Verify, VerifyFails, RetryGuard, StreamClear, Rename, Restore, StopsEarly,
       RowStep, storeVars
  <1>10. CASE FinishCancelled \/ ReleaseMedia \/ FinishFailed \/ ClearRunning
    BY <1>10 DEF FinishCancelled, ReleaseMedia, SetMediaStatus, FinishFailed, ClearRunning,
       RowStep, storeVars
  <1> QED
    BY <1>2, <1>3, <1>4, <1>5, <1>6, <1>7, <1>8, <1>9, <1>10 DEF Worker

\* So does a Cancel call.
LEMMA ClientMove ==
    ASSUME TypeOK, Holders, NEW c \in Clients,
           CancelStep(c) \/ CancelHangsUp(c) \/ \E j \in JobId : CancelCall(c, j)
    PROVE  RowStep
  <1>1. StoreTypeOK /\ (client[c].pc # "idle" => client[c].job \in JobId)
    BY DEF TypeOK, Holders, ClientRecord
  <1>2. CASE CancelWrites(c)
    BY <1>1, <1>2, CancelMove DEF CancelWrites, KeepAllButClient, RowStep, storeVars
  <1>3. CASE CancelReads(c) \/ CancelReleases(c) \/ CancelUnstages(c) \/ CancelHangsUp(c)
    BY <1>3 DEF CancelReads, CancelReleases, CancelUnstages, CancelHangsUp, SetMediaStatus,
       KeepAllButClient, RowStep, storeVars
  <1>4. CASE \E j \in JobId : CancelCall(c, j)
    BY <1>4 DEF CancelCall, KeepAllButClient, RowStep, storeVars
  <1> QED
    BY <1>2, <1>3, <1>4 DEF CancelStep

\* So do the startup sweep and recovery.
LEMMA RecoverMove ==
    ASSUME TypeOK, RecoveryOwn, Recover
    PROVE  RowStep
  <1>1. StoreTypeOK /\ rec \in RecoveryRecord
    BY DEF TypeOK
  <1>2. CASE Boot \/ SweepCommits \/ SweepOrphans
    BY <1>2 DEF Boot, SweepCommits, SweepOrphans, KeepInRecovery, RowStep, storeVars
  <1>3. ASSUME NEW j \in JobId, SweepOne(j)
        PROVE  RowStep
    BY <1>1, <1>3, RequeueMove DEF SweepOne, Swept, KeepInRecovery, RowStep,
       InFlightJobStates
  <1>4. ASSUME NEW j \in JobId,
               RecoverUnstages(j) \/ RecoverResumes(j) \/ RecoverIntact(j) \/ RecoverErrs(j)
        PROVE  RowStep
    BY <1>4 DEF RecoverUnstages, RecoverResumes, RecoverIntact, RecoverErrs,
       KeepInRecovery, RowStep, storeVars
  <1>5. ASSUME NEW j \in JobId, RecoverRequeues(j)
        PROVE  RowStep
    <2>1. State(j) \in InFlightJobStates
      BY <1>5 DEF RecoverRequeues, RecoverNext, RecoveryOwn, InFlightJobStates
    <2> QED
      BY <1>1, <1>5, <2>1, RequeueMove DEF RecoverRequeues, KeepInRecovery, RowStep
  <1>6. ASSUME NEW j \in JobId, RecoverPromoted(j)
        PROVE  RowStep
    BY <1>1, <1>6, PromotionMove DEF RecoverPromoted, KeepInRecovery, RowStep
  <1>7. ASSUME NEW j \in JobId, RecoverUndecidable(j)
        PROVE  RowStep
    BY <1>1, <1>7, FailMove DEF RecoverUndecidable, KeepInRecovery, RowStep, FailureCodes
  <1> QED
    BY <1>2, <1>3, <1>4, <1>5, <1>6, <1>7 DEF Recover

\* So does every step of the queue.
LEMMA NextMove ==
    ASSUME TypeOK, Holders, RecoveryOwn, [Next]_vars
    PROVE  RowStep
  <1>1. ASSUME NEW f \in Files, NEW p \in EnqueuePriorities, Enqueue(f, p)
        PROVE  RowStep
    <2>1. PICK j \in JobId :
             /\ State(j) = "absent" /\ IndexAllows(j, f)
             /\ jobs' = [jobs EXCEPT ![j] =
                   [file |-> f, state |-> "queued", priority |-> p, queuedAt |-> clock',
                    attempt |-> 0, staged |-> FALSE, failure |-> NoFailure]]
      BY <1>1 DEF Enqueue, EnqueueJob
    <2>2. /\ jobs'[j].state = "queued" /\ jobs'[j].file = f /\ jobs'[j].attempt = 0
          /\ \A k \in JobId \ {j} : jobs'[k] = jobs[k]
      BY <2>1 DEF TypeOK, StoreTypeOK
    <2> QED
      BY <1>1, <2>1, <2>2 DEF Enqueue, State, RowStep, RowMove, Inserted
  <1>2. ASSUME NEW j \in JobId, Restart(j)
        PROVE  RowStep
    BY <1>2, RestartRow DEF Restart, RestartJob, TypeOK, State, RowStep, RowMove, Restarted
  <1>3. CASE Crash \/ (\E b \in BOOLEAN : SetPaused(b)) \/ UNCHANGED vars
    BY <1>3 DEF Crash, SetPaused, vars, RowStep, storeVars
  <1> QED
    BY <1>1, <1>2, <1>3, WorkerMove, ClientMove, RecoverMove DEF Next

\* RecoveryOwn is preserved by every step.
LEMMA RecoveryOwnStep ==
    ASSUME TypeOK, RecoveryOwn, [Next]_vars
    PROVE  RecoveryOwn'
  <1>1. CASE Worker
    <2>1. mode = "up" /\ mode' = "up"
      BY <1>1 DEF Worker, PopPending, PollQueue, Claim, MarkRunning, Prepare, PrepareFails,
         Launch, Encode, Rebuild, EnterVerifying, EnterPromoting, Verify, VerifyFails,
         Blocked, RetryGuard, StreamClear, Rename, Restore, Settle, StopsEarly,
         FinishCancelled, FinishCancelledRow, ReleaseMedia, FinishFailed, FinishFailedRow,
         ClearRunning, At, KeepAllButWorker
    <2> QED
      BY <2>1 DEF RecoveryOwn
  <1>2. ASSUME NEW c \in Clients,
               CancelStep(c) \/ CancelHangsUp(c) \/ \E j \in JobId : CancelCall(c, j)
        PROVE  RecoveryOwn'
    <2>1. mode' = mode /\ (mode = "up" \/ client[c].pc # "idle")
      BY <1>2 DEF CancelStep, CancelReads, CancelWrites, CancelReleases, CancelUnstages,
         CancelHangsUp, CancelCall, KeepAllButClient
    <2> QED
      BY <2>1 DEF RecoveryOwn
  <1>3. CASE Crash \/ Boot
    BY <1>3 DEF Crash, Boot, KeepInRecovery, RecoveryOwn, NoCancel, NoRecovery
  <1>4. CASE SweepCommits
    BY <1>4 DEF SweepCommits, KeepInRecovery, RecoveryOwn, storeVars, TypeOK,
       RecoveryRecord, State, NoRecovery
  <1>5. CASE SweepOrphans
    BY <1>5 DEF SweepOrphans, KeepInRecovery, RecoveryOwn
  <1>6. ASSUME NEW j \in JobId, SweepOne(j)
        PROVE  RecoveryOwn'
    BY <1>6 DEF SweepOne, KeepInRecovery, RecoveryOwn
  <1>7. ASSUME NEW j \in JobId,
               RecoverUnstages(j) \/ RecoverResumes(j) \/ RecoverIntact(j) \/ RecoverErrs(j)
        PROVE  RecoveryOwn'
    <2>1. /\ mode = "recover" /\ mode' = mode /\ jobs' = jobs
          /\ UNCHANGED <<worker, client>>
          /\ rec \in RecoveryRecord
      BY <1>7 DEF RecoverUnstages, RecoverResumes, RecoverIntact, RecoverErrs, RecoverNext,
         KeepInRecovery, storeVars, TypeOK
    <2>2. rec'.intact \subseteq rec'.check /\ rec'.check \subseteq rec.check
      <3>1. rec.intact \subseteq rec.check
        BY <2>1 DEF RecoveryOwn
      <3>2. CASE RecoverUnstages(j)
        BY <2>1, <3>1, <3>2 DEF RecoverUnstages, RecoveryRecord
      <3>3. CASE RecoverResumes(j) \/ RecoverErrs(j)
        BY <2>1, <3>1, <3>3 DEF RecoverResumes, RecoverErrs, RecoveryRecord
      <3>4. CASE RecoverIntact(j)
        BY <2>1, <3>1, <3>4 DEF RecoverIntact, RecoveryRecord
      <3> QED
        BY <1>7, <3>2, <3>3, <3>4
    <2> QED
      BY <2>1, <2>2 DEF RecoveryOwn, State
  <1>8. ASSUME NEW j \in JobId,
               RecoverRequeues(j) \/ RecoverPromoted(j) \/ RecoverUndecidable(j)
        PROVE  RecoveryOwn'
    <2>1. /\ mode = "recover" /\ mode' = mode
          /\ UNCHANGED <<worker, client, starts>>
          /\ rec \in RecoveryRecord /\ StoreTypeOK
      BY <1>8 DEF RecoverRequeues, RecoverPromoted, RecoverUndecidable, RecoverNext,
         KeepInRecovery, TypeOK
    <2>2. \A k \in JobId \ {j} : jobs'[k] = jobs[k]
      BY <1>8, <2>1 DEF RecoverRequeues, RecoverPromoted, RecoverUndecidable,
         RequeueOrFail, RecordPromotion, FailJob, StoreTypeOK
    <2>3. rec'.check = rec.check \ {j} /\ rec'.intact \subseteq rec'.check
      <3>1. rec.intact \subseteq rec.check
        BY <2>1 DEF RecoveryOwn
      <3>2. CASE RecoverRequeues(j)
        BY <2>1, <3>1, <3>2 DEF RecoverRequeues, RecoveryRecord
      <3>3. CASE RecoverPromoted(j) \/ RecoverUndecidable(j)
        BY <2>1, <3>1, <3>3 DEF RecoverPromoted, RecoverUndecidable, RecoveryRecord
      <3> QED
        BY <1>8, <3>2, <3>3
    <2> QED
      BY <2>1, <2>2, <2>3 DEF RecoveryOwn, State, RecoveryRecord
  <1>9. ASSUME \/ \E f \in Files, p \in EnqueuePriorities : Enqueue(f, p)
               \/ \E j \in JobId : Restart(j)
               \/ \E b \in BOOLEAN : SetPaused(b)
        PROVE  RecoveryOwn'
    BY <1>9 DEF Enqueue, Restart, SetPaused, KeepAllButStore, RecoveryOwn
  <1>10. CASE UNCHANGED vars
    BY <1>10 DEF vars, storeVars, memVars, RecoveryOwn, State
  <1> QED
    BY <1>1, <1>2, <1>3, <1>4, <1>5, <1>6, <1>7, <1>8, <1>9, <1>10 DEF Next, Recover

Base == TypeOK /\ Holders /\ RecoveryOwn

\* Types, holders and the recovery lists are invariants: what every later proof starts from.
THEOREM BaseHolds == Spec => []Base
  <1>1. Init => RecoveryOwn
    BY DEF Init, RecoveryOwn, NoCancel, NoRecovery
  <1>2. TypeOK /\ RecoveryOwn /\ [Next]_vars => RecoveryOwn'
    BY RecoveryOwnStep
  <1> QED
    BY <1>1, <1>2, Typed, PTL DEF Spec, Base

-----------------------------------------------------------------------------

\* A row move never makes a second active job of a file.
LEMMA OneActiveStep ==
    ASSUME TypeOK, OneActivePerFile, RowStep
    PROVE  OneActivePerFile'
  <1>1. CASE jobs' = jobs
    BY <1>1 DEF OneActivePerFile, Active, State
  <1>2. ASSUME NEW j \in JobId, RowMove(j)
        PROVE  OneActivePerFile'
    <2>1. Active(j)' => Active(j) \/ IndexAllows(j, jobs'[j].file)
      BY <1>2 DEF RowMove, Inserted, Claimed, Advanced, Ended, Restarted, Requeued, Noted,
         KeepsRow, Active, State, ActiveJobStates, InFlightJobStates, TerminalStates
    <2>2. Active(j) => jobs'[j].file = jobs[j].file
      BY <1>2 DEF RowMove, Inserted, Claimed, Advanced, Ended, Restarted, Requeued, Noted,
         KeepsRow, Active, State, ActiveJobStates, InFlightJobStates
    <2>3. \A k \in JobId \ {j} : jobs'[k] = jobs[k]
      BY <1>2 DEF RowMove
    <2> QED
      BY <2>1, <2>2, <2>3 DEF OneActivePerFile, Active, State, IndexAllows
  <1> QED
    BY <1>1, <1>2 DEF RowStep

\* No file ever has two active jobs: every writer of jobs.state either goes from an
\* active state or asks the index.
THEOREM OneActive == Spec => []OneActivePerFile
  <1>1. Init => OneActivePerFile
    BY DEF Init, StoreInit, AbsentRow, OneActivePerFile, Active, State, ActiveJobStates,
       InFlightJobStates
  <1>2. Base /\ OneActivePerFile /\ [Next]_vars => OneActivePerFile'
    BY NextMove, OneActiveStep DEF Base
  <1> QED
    BY <1>1, <1>2, BaseHolds, PTL DEF Spec

\* What makes the cap inductive: a row's executions are paid for by its attempt
\* column, which the sweep raises before it queues the row again.
Attempts ==
    \A j \in JobId :
        /\ jobs[j].attempt <= MaxAutoAttempts
        /\ starts[j] <= jobs[j].attempt + 1
        /\ State(j) = "queued" => starts[j] <= jobs[j].attempt
        /\ State(j) = "absent" => starts[j] = 0

\* A row move keeps executions within the attempts paid for.
LEMMA AttemptsStep ==
    ASSUME TypeOK, TypeOK', Attempts, RowStep
    PROVE  Attempts'
  <1>1. CASE jobs' = jobs /\ starts' = starts
    BY <1>1 DEF Attempts, State
  <1>2. ASSUME NEW j \in JobId, RowMove(j)
        PROVE  Attempts'
    <2>1. /\ starts \in [JobId -> Nat]
          /\ \A k \in JobId : jobs[k].attempt \in Nat /\ jobs'[k].attempt \in Nat
          /\ MaxAutoAttempts \in Nat
      BY StoreAssumption DEF TypeOK, StoreTypeOK, JobRow
    <2>2. \A k \in JobId \ {j} : jobs'[k] = jobs[k] /\ starts'[k] = starts[k]
      BY <1>2, <2>1 DEF RowMove, Inserted, Claimed, Advanced, Ended, Restarted, Requeued,
         Noted
    <2>3. /\ jobs'[j].attempt <= MaxAutoAttempts
          /\ starts'[j] <= jobs'[j].attempt + 1
          /\ State(j)' = "queued" => starts'[j] <= jobs'[j].attempt
          /\ State(j)' = "absent" => starts'[j] = 0
      <3>1. CASE Inserted(j)
        BY <2>1, <3>1 DEF Inserted, Attempts
      <3>2. CASE Claimed(j)
        BY <2>1, <3>2 DEF Claimed, KeepsRow, Attempts
      <3>3. CASE Advanced(j) \/ Ended(j)
        BY <2>1, <3>3 DEF Advanced, Ended, KeepsRow, Attempts, InFlightJobStates,
           TerminalStates
      <3>4. CASE Restarted(j)
        BY <2>1, <3>4 DEF Restarted, Attempts
      <3>5. CASE Requeued(j)
        BY <2>1, <3>5 DEF Requeued, Attempts
      <3>6. CASE Noted(j)
        BY <2>1, <3>6 DEF Noted, KeepsRow, Attempts
      <3> QED
        BY <1>2, <3>1, <3>2, <3>3, <3>4, <3>5, <3>6 DEF RowMove
    <2> QED
      BY <2>2, <2>3 DEF Attempts, State
  <1> QED
    BY <1>1, <1>2 DEF RowStep

\* Executions stay within the attempts paid for.
THEOREM AttemptsHold == Spec => []Attempts
  <1>1. Init => Attempts
    BY StoreAssumption DEF Init, StoreInit, AbsentRow, Attempts, State
  <1>2. Base /\ Base' /\ Attempts /\ [Next]_vars => Attempts'
    BY NextMove, AttemptsStep DEF Base
  <1> QED
    BY <1>1, <1>2, BaseHolds, PTL DEF Spec

\* A job is executed at most MaxAutoAttempts + 1 times before someone restarts it,
\* however often the process dies.
THEOREM Capped == Spec => []AttemptCap
  <1>1. Base /\ Attempts => AttemptCap
    BY StoreAssumption DEF Base, TypeOK, StoreTypeOK, JobRow, Attempts, AttemptCap
  <1> QED
    BY <1>1, AttemptsHold, BaseHolds, PTL

-----------------------------------------------------------------------------
(* Nothing in flight is forgotten. *)

\* Taking the head of the pending list loses no other job from it.
LEMMA ResumingTail ==
    ASSUME pending \in Seq(JobId), pending # <<>>, pending' = Tail(pending)
    PROVE  \A j \in Resuming : j = Head(pending) \/ j \in Resuming'
  <1> SUFFICES ASSUME NEW i \in 1 .. Len(pending), pending[i] # Head(pending)
               PROVE  pending[i] \in Resuming'
    BY DEF Resuming
  <1>1. /\ i - 1 \in 1 .. Len(Tail(pending))
        /\ Tail(pending)[i - 1] = pending[i]
    OBVIOUS
  <1> QED
    BY <1>1 DEF Resuming

\* Appending to the pending list keeps the others and adds the job.
LEMMA ResumingAppend ==
    ASSUME pending \in Seq(JobId), NEW j \in JobId, pending' = Append(pending, j)
    PROVE  Resuming \subseteq Resuming' /\ j \in Resuming'
  <1>1. /\ Len(pending') = Len(pending) + 1 /\ Len(pending) \in Nat
        /\ \A i \in 1 .. Len(pending) : pending'[i] = pending[i]
        /\ pending'[Len(pending) + 1] = j
    OBVIOUS
  <1> QED
    BY <1>1 DEF Resuming

\* NoStrandedJob made inductive: recovery still has every row in flight on its
\* list, and the worker lets go only of rows it has written a final state to.
Accounted ==
    /\ NoStrandedJob
    /\ mode = "recover" => \A j \in JobId : State(j) \in InFlightJobStates =>
          \/ j \in rec.check
          \/ j \in Resuming /\ State(j) = "awaiting_stream_end"
          \/ j \in rec.abandoned
    /\ worker.pc \in {"release", "clear"} => State(worker.job) \notin InFlightJobStates

\* The worker loses track of no row in flight.
LEMMA AccountedWorker ==
    ASSUME Base, Accounted, Worker
    PROVE  Accounted'
  <1>1. /\ mode = "up" /\ mode' = "up" /\ rec' = rec
    BY DEF Worker, PopPending, PollQueue, Claim, MarkRunning, Prepare, PrepareFails,
       Launch, Encode, Rebuild, EnterVerifying, EnterPromoting, Verify, VerifyFails,
       Blocked, RetryGuard, StreamClear, Rename, Restore, Settle, StopsEarly,
       FinishCancelled, FinishCancelledRow, ReleaseMedia, FinishFailed, FinishFailedRow,
       ClearRunning, At, KeepAllButWorker
  <1>2. /\ worker.pc \notin {"idle", "polled"} => worker.job \in JobId
        /\ worker.pc \in {"idle", "polled"} => worker.job \notin JobId
        /\ worker \in WorkerRecord /\ StoreTypeOK /\ pending \in Seq(JobId)
    BY NoJobIsNone DEF Base, TypeOK, Holders, WorkerRecord
  <1>3. CASE PopPending
    <2>1. worker.job \notin JobId /\ jobs' = jobs
      BY <1>2, <1>3 DEF PopPending, At, storeVars
    <2>2. \A j \in Resuming : j = Head(pending) \/ j \in Resuming'
      BY <1>2, <1>3, ResumingTail DEF PopPending
    <2>3. State(Head(pending)) = "awaiting_stream_end" => worker'.job = Head(pending)
      BY <1>3 DEF PopPending, Idle
    <2>4. worker'.pc \notin {"release", "clear"}
      BY <1>3 DEF PopPending, Idle
    <2> QED
      BY <1>1, <2>1, <2>2, <2>3, <2>4 DEF Accounted, NoStrandedJob, State
  <1>4. CASE Claim
    <2>1. worker.job \notin JobId /\ pending' = pending
      BY <1>2, <1>4 DEF Claim, At, KeepAllButWorker
    <2>2. ASSUME NEW j \in Queued, ClaimNextJob(j),
                 worker' = [Idle EXCEPT !.pc = "claimed", !.job = j]
          PROVE  Accounted'
      <3>1. \A k \in JobId \ {j} : jobs'[k] = jobs[k]
        BY <1>2, <2>2 DEF ClaimNextJob, StoreTypeOK
      <3>2. worker'.job = j /\ worker'.pc = "claimed"
        BY <2>2 DEF Idle
      <3> QED
        BY <1>1, <2>1, <3>1, <3>2 DEF Accounted, NoStrandedJob, State, Resuming
    <2>3. CASE worker' = Idle /\ UNCHANGED storeVars
      BY <1>1, <2>1, <2>3 DEF Accounted, NoStrandedJob, State, Resuming, storeVars, Idle
    <2> QED
      BY <1>4, <2>2, <2>3 DEF Claim
  <1>5. CASE ClearRunning
    <2>1. /\ worker'.pc = "idle" /\ jobs' = jobs /\ pending' = pending
          /\ State(worker.job) \notin InFlightJobStates
      BY <1>5 DEF ClearRunning, At, storeVars, Idle, Accounted
    <2> QED
      BY <1>1, <2>1 DEF Accounted, NoStrandedJob, State, Resuming
  <1>6. ASSUME worker'.job = worker.job, pending' = pending,
               \A k \in JobId \ {worker.job} : jobs'[k] = jobs[k],
               worker'.pc \in {"release", "clear"} => State(worker.job)' \notin InFlightJobStates
        PROVE  Accounted'
    BY <1>1, <1>6 DEF Accounted, NoStrandedJob, State, Resuming
  <1>7. CASE PollQueue \/ MarkRunning \/ Prepare \/ PrepareFails \/ Encode \/ Rebuild
    <2>1. worker'.job = worker.job /\ pending' = pending /\ jobs' = jobs
      BY <1>2, <1>7 DEF PollQueue, MarkRunning, Prepare, PrepareFails, Encode, Rebuild,
         Goto, Unwind, KeepAllButWorker, storeVars, WorkerRecord
    <2>2. worker'.pc \notin {"release", "clear"}
      BY <1>2, <1>7 DEF PollQueue, MarkRunning, Prepare, PrepareFails, Encode, Rebuild,
         Goto, Unwind, WorkerRecord
    <2> QED
      BY <1>6, <2>1, <2>2
  <1>8. CASE Verify \/ VerifyFails \/ RetryGuard \/ StreamClear \/ Rename \/ Restore \/ StopsEarly
             \/ FinishCancelled \/ FinishFailed
    <2>1. worker'.job = worker.job /\ pending' = pending /\ jobs' = jobs
      BY <1>2, <1>8 DEF Verify, VerifyFails, RetryGuard, StreamClear, Rename, Restore,
         StopsEarly, FinishCancelled, FinishFailed, Goto, Unwind, KeepAllButWorker,
         storeVars, WorkerRecord
    <2>2. worker'.pc \notin {"release", "clear"}
      BY <1>2, <1>8 DEF Verify, VerifyFails, RetryGuard, StreamClear, Rename, Restore,
         StopsEarly, FinishCancelled, FinishFailed, Goto, Unwind, WorkerRecord
    <2> QED
      BY <1>6, <2>1, <2>2
  <1>9. CASE Launch \/ EnterVerifying \/ EnterPromoting \/ Blocked
    <2>1. worker'.job = worker.job /\ pending' = pending /\ worker'.pc \notin {"release", "clear"}
      BY <1>2, <1>9 DEF Launch, EnterVerifying, EnterPromoting, Blocked, Goto,
         KeepAllButWorker, WorkerRecord
    <2>2. \A k \in JobId \ {worker.job} : jobs'[k] = jobs[k]
      BY <1>2, <1>9 DEF Launch, EnterVerifying, EnterPromoting, Blocked,
         UpdateJobExecution, SetJobState, storeVars, StoreTypeOK
    <2> QED
      BY <1>6, <2>1, <2>2
  <1>10. CASE Settle \/ FinishCancelledRow \/ FinishFailedRow
    <2>1. worker'.job = worker.job /\ pending' = pending /\ worker.job \in JobId
      BY <1>2, <1>10 DEF Settle, FinishCancelledRow, FinishFailedRow, At, Goto,
         KeepAllButWorker, WorkerRecord
    <2>2. \A k \in JobId \ {worker.job} : jobs'[k] = jobs[k]
      BY <1>2, <1>10 DEF Settle, FinishCancelledRow, FinishFailedRow, RecordPromotion,
         CancelJob, FailJob, storeVars, StoreTypeOK
    <2>3. State(worker.job)' \in TerminalStates
      <3>1. CASE Settle
        BY <1>2, <2>1, <3>1 DEF Settle, RecordPromotion, State, StoreTypeOK, JobRow,
           TerminalStates
      <3>2. CASE FinishCancelledRow
        BY <1>2, <2>1, <3>2 DEF FinishCancelledRow, CancelJob, CancelJobFinds, State,
           StoreTypeOK, JobRow, TerminalStates, storeVars
      <3>3. CASE FinishFailedRow
        BY <1>2, <2>1, <3>3 DEF FinishFailedRow, FailJob, State, StoreTypeOK, JobRow,
           TerminalStates
      <3> QED
        BY <1>10, <3>1, <3>2, <3>3
    <2> QED
      BY <1>6, <2>1, <2>2, <2>3 DEF TerminalStates, InFlightJobStates
  <1>11. CASE ReleaseMedia
    <2>1. /\ worker'.job = worker.job /\ pending' = pending /\ jobs' = jobs
          /\ worker.pc = "release"
      BY <1>2, <1>11 DEF ReleaseMedia, SetMediaStatus, At, Goto, KeepAllButWorker,
         WorkerRecord
    <2> QED
      BY <1>6, <2>1 DEF Accounted, State
  <1> QED
    BY <1>3, <1>4, <1>5, <1>7, <1>8, <1>9, <1>10, <1>11 DEF Worker

\* No handler puts a row in flight.
LEMMA AccountedApi ==
    ASSUME Base, Accounted,
           \/ \E c \in Clients : CancelStep(c) \/ CancelHangsUp(c)
           \/ \E c \in Clients, j \in JobId : CancelCall(c, j)
           \/ \E f \in Files, p \in EnqueuePriorities : Enqueue(f, p)
           \/ \E j \in JobId : Restart(j)
           \/ \E b \in BOOLEAN : SetPaused(b)
    PROVE  Accounted'
  <1>1. UNCHANGED <<mode, worker, pending, rec>>
    BY DEF CancelStep, CancelReads, CancelWrites, CancelReleases, CancelUnstages,
       CancelHangsUp, CancelCall, KeepAllButClient, Enqueue, Restart, SetPaused,
       KeepAllButStore, memVars
  <1>2. StoreTypeOK /\ \A c \in Clients : client[c].pc # "idle" => client[c].job \in JobId
    BY DEF Base, TypeOK, Holders, ClientRecord
  <1>3. \A k \in JobId : jobs'[k] = jobs[k] \/ jobs'[k].state \in {"cancelled", "queued"}
    <2>1. ASSUME NEW c \in Clients, CancelStep(c) \/ CancelHangsUp(c)
          PROVE  \A k \in JobId : jobs'[k] = jobs[k] \/ jobs'[k].state \in {"cancelled", "queued"}
      <3>1. client[c].job \in JobId
        BY <1>2, <2>1 DEF CancelStep, CancelReads, CancelWrites, CancelReleases,
           CancelUnstages, CancelHangsUp
      <3> QED
        BY <1>2, <2>1, <3>1 DEF CancelStep, CancelReads, CancelWrites, CancelReleases,
           CancelUnstages, CancelHangsUp, CancelJob, SetMediaStatus, storeVars,
           StoreTypeOK, JobRow
    <2>2. ASSUME NEW f \in Files, NEW p \in EnqueuePriorities, Enqueue(f, p)
          PROVE  \A k \in JobId : jobs'[k] = jobs[k] \/ jobs'[k].state \in {"cancelled", "queued"}
      BY <1>2, <2>2 DEF Enqueue, EnqueueJob, StoreTypeOK
    <2>3. ASSUME NEW j \in JobId, Restart(j)
          PROVE  \A k \in JobId : jobs'[k] = jobs[k] \/ jobs'[k].state \in {"cancelled", "queued"}
      BY <1>2, <2>3 DEF Restart, RestartJob, StoreTypeOK, JobRow
    <2>4. CASE \/ \E c \in Clients, j \in JobId : CancelCall(c, j)
               \/ \E b \in BOOLEAN : SetPaused(b)
      BY <2>4 DEF CancelCall, SetPaused, storeVars
    <2> QED
      BY <2>1, <2>2, <2>3, <2>4
  <1>4. worker.pc \in {"release", "clear"} => worker.job \in JobId
    BY DEF Base, TypeOK, Holders, WorkerRecord
  <1> QED
    BY <1>1, <1>3, <1>4 DEF Accounted, NoStrandedJob, State, Resuming, InFlightJobStates

\* Recovery takes a row off its list only when it has dealt with it.
LEMMA AccountedRecover ==
    ASSUME Base, Accounted, Recover
    PROVE  Accounted'
  <1>1. /\ mode # "up" /\ worker' = worker /\ worker.pc = "idle"
        /\ rec \in RecoveryRecord /\ StoreTypeOK /\ pending \in Seq(JobId)
    <2>1. mode # "up" /\ worker' = worker
      <3>1. CASE Boot \/ SweepCommits \/ SweepOrphans
        BY <3>1 DEF Boot, SweepCommits, SweepOrphans, KeepInRecovery
      <3>2. ASSUME NEW j \in JobId,
                   SweepOne(j) \/ RecoverUnstages(j) \/ RecoverResumes(j) \/ RecoverIntact(j)
                   \/ RecoverRequeues(j) \/ RecoverPromoted(j) \/ RecoverErrs(j)
                   \/ RecoverUndecidable(j)
            PROVE  mode # "up" /\ worker' = worker
        BY <3>2 DEF SweepOne, RecoverUnstages, RecoverResumes, RecoverIntact,
           RecoverRequeues, RecoverPromoted, RecoverErrs, RecoverUndecidable, RecoverNext,
           KeepInRecovery
      <3> QED
        BY <3>1, <3>2 DEF Recover
    <2> QED
      BY <2>1 DEF Base, TypeOK, RecoveryOwn, Idle
  <1>2. CASE Boot
    BY <1>1, <1>2 DEF Boot, Accounted, NoStrandedJob
  <1>3. CASE SweepCommits
    <2>1. \A j \in JobId : State(j) \in InFlightJobStates => j \in rec'.check
      BY <1>1, <1>3 DEF SweepCommits, Swept, InFlightJobStates, RecoveryRecord
    <2> QED
      BY <1>1, <1>3, <2>1 DEF SweepCommits, Accounted, NoStrandedJob, State, storeVars
  <1>4. CASE SweepOrphans
    BY <1>1, <1>4 DEF SweepOrphans, Accounted, NoStrandedJob, State, Resuming, storeVars,
       NoRecovery
  <1>5. ASSUME NEW j \in JobId, SweepOne(j)
        PROVE  Accounted'
    BY <1>1, <1>5 DEF SweepOne, Accounted, NoStrandedJob
  <1>6. ASSUME NEW j \in JobId, RecoverUnstages(j) \/ RecoverIntact(j)
        PROVE  Accounted'
    <2>1. /\ mode' = mode /\ mode = "recover" /\ jobs' = jobs /\ pending' = pending
          /\ rec'.check = rec.check /\ rec'.abandoned = rec.abandoned
      BY <1>1, <1>6 DEF RecoverUnstages, RecoverIntact, RecoverNext, KeepInRecovery,
         storeVars, RecoveryRecord
    <2> QED
      BY <1>1, <2>1 DEF Accounted, NoStrandedJob, State, Resuming
  <1>7. ASSUME NEW j \in JobId, RecoverResumes(j)
        PROVE  Accounted'
    <2>1. /\ mode' = mode /\ mode = "recover" /\ jobs' = jobs /\ State(j) = "awaiting_stream_end"
          /\ rec'.check = rec.check \ {j} /\ rec'.abandoned = rec.abandoned
      BY <1>1, <1>7 DEF RecoverResumes, RecoverNext, storeVars, RecoveryRecord
    <2>2. Resuming \subseteq Resuming' /\ j \in Resuming'
      BY <1>1, <1>7, ResumingAppend DEF RecoverResumes
    <2> QED
      BY <1>1, <2>1, <2>2 DEF Accounted, NoStrandedJob, State
  <1>8. ASSUME NEW j \in JobId, RecoverErrs(j)
        PROVE  Accounted'
    <2>1. /\ mode' = mode /\ mode = "recover" /\ jobs' = jobs /\ pending' = pending
          /\ rec'.check = rec.check \ {j} /\ rec'.abandoned = rec.abandoned \union {j}
      BY <1>1, <1>8 DEF RecoverErrs, RecoverNext, storeVars, RecoveryRecord
    <2> QED
      BY <1>1, <2>1 DEF Accounted, NoStrandedJob, State, Resuming
  <1>9. ASSUME NEW j \in JobId,
               RecoverRequeues(j) \/ RecoverPromoted(j) \/ RecoverUndecidable(j)
        PROVE  Accounted'
    <2>1. /\ mode' = mode /\ mode = "recover" /\ pending' = pending
          /\ rec'.check = rec.check \ {j} /\ rec'.abandoned = rec.abandoned
      BY <1>1, <1>9 DEF RecoverRequeues, RecoverPromoted, RecoverUndecidable, RecoverNext,
         RecoveryRecord
    <2>2. /\ \A k \in JobId \ {j} : jobs'[k] = jobs[k]
          /\ jobs'[j].state \notin InFlightJobStates
      <3>1. CASE RecoverRequeues(j)
        BY <1>1, <3>1, RequeueRow DEF RecoverRequeues, InFlightJobStates
      <3>2. CASE RecoverPromoted(j)
        BY <1>1, <3>2 DEF RecoverPromoted, RecordPromotion, StoreTypeOK, JobRow,
           InFlightJobStates
      <3>3. CASE RecoverUndecidable(j)
        BY <1>1, <3>3 DEF RecoverUndecidable, FailJob, StoreTypeOK, JobRow,
           InFlightJobStates
      <3> QED
        BY <1>9, <3>1, <3>2, <3>3
    <2> QED
      BY <1>1, <2>1, <2>2 DEF Accounted, NoStrandedJob, State, Resuming
  <1> QED
    BY <1>2, <1>3, <1>4, <1>5, <1>6, <1>7, <1>8, <1>9 DEF Recover

\* No row in flight is forgotten, neither while serving nor while recovering.
THEOREM AccountedHolds == Spec => []Accounted
  <1>1. Init => Accounted
    BY DEF Init, Accounted, NoStrandedJob, Idle
  <1>2. Base /\ Accounted /\ [Next]_vars => Accounted'
    <2> SUFFICES ASSUME Base, Accounted, [Next]_vars
                 PROVE  Accounted'
      OBVIOUS
    <2>1. CASE Crash
      BY <2>1 DEF Crash, Accounted, NoStrandedJob, Idle
    <2>2. CASE UNCHANGED vars
      BY <2>2 DEF vars, storeVars, memVars, Accounted, NoStrandedJob, State, Resuming
    <2> QED
      BY <2>1, <2>2, AccountedWorker, AccountedApi, AccountedRecover DEF Next
  <1> QED
    BY <1>1, <1>2, BaseHolds, PTL DEF Spec

\* While the process serves, every row in flight is the worker's, or waits to be
\* resumed, or recovery logged an error about it.
THEOREM NoneStranded == Spec => []NoStrandedJob
  <1>1. Accounted => NoStrandedJob
    BY DEF Accounted
  <1> QED
    BY <1>1, AccountedHolds, PTL

-----------------------------------------------------------------------------
(* A job is done only if its output is in the library. *)

\* DoneMeansLanded made inductive: past the rename, the worker's own job landed.
DoneLanded ==
    /\ DoneMeansLanded
    /\ worker.pc \in {"renamed", "settle"} => landed[worker.job]

\* The worker records a promotion only past the rename.
LEMMA DoneWorker ==
    ASSUME Base, DoneLanded, Worker
    PROVE  DoneLanded'
  <1>1. /\ worker.pc \notin {"idle", "polled"} => worker.job \in JobId
        /\ worker \in WorkerRecord /\ StoreTypeOK /\ landed \in [JobId -> BOOLEAN]
    BY NoJobIsNone DEF Base, TypeOK, Holders, WorkerRecord
  <1>2. CASE Claim
    <2>1. ASSUME NEW j \in Queued, ClaimNextJob(j),
                 worker' = [Idle EXCEPT !.pc = "claimed", !.job = j],
                 landed' = [landed EXCEPT ![j] = FALSE]
          PROVE  DoneLanded'
      BY <1>1, <2>1 DEF Queued, ClaimNextJob, StoreTypeOK, JobRow, State, DoneLanded,
         DoneMeansLanded, Idle
    <2>2. CASE worker' = Idle /\ UNCHANGED storeVars /\ UNCHANGED landed
      BY <2>2 DEF DoneLanded, DoneMeansLanded, State, storeVars, Idle
    <2> QED
      BY <1>2, <2>1, <2>2 DEF Claim
  <1>3. CASE Rename
    BY <1>1, <1>3 DEF Rename, At, Goto, KeepAllButWorker, DoneLanded, DoneMeansLanded,
       State, storeVars, WorkerRecord
  <1>4. CASE Restore
    BY <1>1, <1>4 DEF Restore, At, DoneLanded, DoneMeansLanded, State, storeVars, diskVars,
       WorkerRecord
  <1>5. CASE Settle
    <2>1. landed' = landed /\ landed[worker.job] /\ worker'.pc \in {"clear", "unwind"}
      BY <1>1, <1>5 DEF Settle, At, Goto, diskVars, DoneLanded, WorkerRecord
    <2>2. \A k \in JobId \ {worker.job} : jobs'[k] = jobs[k]
      BY <1>1, <1>5 DEF Settle, RecordPromotion, StoreTypeOK
    <2> QED
      BY <2>1, <2>2 DEF DoneLanded, DoneMeansLanded, State
  <1>6. ASSUME landed' = landed, worker'.pc \notin {"renamed", "settle"},
               \A k \in JobId : jobs'[k].state = "done" => jobs[k].state = "done"
        PROVE  DoneLanded'
    BY <1>6 DEF DoneLanded, DoneMeansLanded, State
  <1>7. CASE PopPending \/ PollQueue \/ MarkRunning \/ Prepare \/ PrepareFails \/ Encode \/ Rebuild
    <2>1. landed' = landed /\ jobs' = jobs
      BY <1>7 DEF PopPending, PollQueue, MarkRunning, Prepare, PrepareFails, Encode,
         Rebuild, storeVars, diskVars
    <2>2. worker'.pc \notin {"renamed", "settle"}
      <3>1. CASE PopPending
        BY <3>1 DEF PopPending, Idle
      <3>2. CASE ~PopPending
        BY <1>1, <1>7, <3>2 DEF PollQueue, MarkRunning, Prepare, PrepareFails, Encode,
           Rebuild, Goto, Unwind, WorkerRecord
      <3> QED
        BY <3>1, <3>2
    <2> QED
      BY <1>6, <2>1, <2>2
  <1>8. CASE Verify \/ VerifyFails \/ RetryGuard \/ StreamClear \/ StopsEarly
             \/ FinishCancelled \/ FinishFailed \/ ReleaseMedia \/ ClearRunning
    <2>1. landed' = landed /\ jobs' = jobs
      BY <1>8 DEF Verify, VerifyFails, RetryGuard, StreamClear, StopsEarly,
         FinishCancelled, FinishFailed, ReleaseMedia, SetMediaStatus, ClearRunning,
         storeVars, diskVars
    <2>2. worker'.pc \notin {"renamed", "settle"}
      <3>1. CASE ClearRunning
        BY <3>1 DEF ClearRunning, Idle
      <3>2. CASE ~ClearRunning
        BY <1>1, <1>8, <3>2 DEF Verify, VerifyFails, RetryGuard, StreamClear, StopsEarly,
           FinishCancelled, FinishFailed, ReleaseMedia, Goto, Unwind, WorkerRecord
      <3> QED
        BY <3>1, <3>2
    <2> QED
      BY <1>6, <2>1, <2>2
  <1>9. CASE Launch \/ EnterVerifying \/ EnterPromoting \/ Blocked
    BY <1>1, <1>6, <1>9 DEF Launch, EnterVerifying, EnterPromoting, Blocked,
       UpdateJobExecution, SetJobState, Goto, storeVars, diskVars, WorkerRecord,
       StoreTypeOK, JobRow
  <1>10. CASE FinishCancelledRow \/ FinishFailedRow
    BY <1>1, <1>6, <1>10 DEF FinishCancelledRow, FinishFailedRow, CancelJob, FailJob, Goto,
       storeVars, diskVars, WorkerRecord, StoreTypeOK, JobRow
  <1> QED
    BY <1>2, <1>3, <1>4, <1>5, <1>7, <1>8, <1>9, <1>10 DEF Worker

\* No handler finishes a job.
LEMMA DoneApi ==
    ASSUME Base, DoneLanded,
           \/ \E c \in Clients : CancelStep(c) \/ CancelHangsUp(c)
           \/ \E c \in Clients, j \in JobId : CancelCall(c, j)
           \/ \E f \in Files, p \in EnqueuePriorities : Enqueue(f, p)
           \/ \E j \in JobId : Restart(j)
           \/ \E b \in BOOLEAN : SetPaused(b)
    PROVE  DoneLanded'
  <1>1. UNCHANGED <<worker, landed>>
    BY DEF CancelStep, CancelReads, CancelWrites, CancelReleases, CancelUnstages,
       CancelHangsUp, CancelCall, KeepAllButClient, Enqueue, Restart, SetPaused,
       KeepAllButStore, memVars, diskVars
  <1>2. StoreTypeOK
    BY DEF Base, TypeOK
  <1>3. \A k \in JobId : jobs'[k].state = "done" => jobs[k].state = "done"
    <2>1. CASE \/ \E c \in Clients : CancelStep(c) \/ CancelHangsUp(c)
               \/ \E c \in Clients, j \in JobId : CancelCall(c, j)
      BY ZenonT(60), <1>2, <2>1 DEF CancelStep, CancelReads, CancelWrites, CancelReleases,
         CancelUnstages, CancelHangsUp, CancelCall, CancelJob, SetMediaStatus, storeVars,
         StoreTypeOK, JobRow
    <2>2. CASE \E f \in Files, p \in EnqueuePriorities : Enqueue(f, p)
      BY <1>2, <2>2 DEF Enqueue, EnqueueJob, StoreTypeOK, JobRow
    <2>3. CASE \E j \in JobId : Restart(j)
      BY <1>2, <2>3, RestartRow DEF Restart
    <2>4. CASE \E b \in BOOLEAN : SetPaused(b)
      BY <2>4 DEF SetPaused, storeVars
    <2> QED
      BY <2>1, <2>2, <2>3, <2>4
  <1> QED
    BY <1>1, <1>3 DEF DoneLanded, DoneMeansLanded, State

\* Recovery finishes a job only after the verdict that it landed.
LEMMA DoneRecover ==
    ASSUME Base, DoneLanded, Recover \/ Crash
    PROVE  DoneLanded'
  <1>1. landed' = landed /\ worker'.pc = "idle"
    <2>1. CASE Crash
      BY <2>1 DEF Crash, diskVars, Idle
    <2>2. CASE Boot \/ SweepCommits \/ SweepOrphans
      BY <2>2 DEF Base, RecoveryOwn, Idle, Boot, SweepCommits, SweepOrphans,
         KeepInRecovery, diskVars
    <2>3. ASSUME NEW j \in JobId,
                 SweepOne(j) \/ RecoverUnstages(j) \/ RecoverResumes(j) \/ RecoverIntact(j)
                 \/ RecoverRequeues(j) \/ RecoverPromoted(j) \/ RecoverErrs(j)
                 \/ RecoverUndecidable(j)
          PROVE  landed' = landed /\ worker'.pc = "idle"
      <3>1. mode # "up" /\ landed' = landed /\ worker' = worker
        BY <2>3 DEF SweepOne, RecoverUnstages, RecoverResumes, RecoverIntact,
           RecoverRequeues, RecoverPromoted, RecoverErrs, RecoverUndecidable, RecoverNext,
           KeepInRecovery, diskVars
      <3> QED
        BY <3>1 DEF Base, RecoveryOwn, Idle
    <2> QED
      BY <2>1, <2>2, <2>3 DEF Recover
  <1>2. StoreTypeOK
    BY DEF Base, TypeOK
  <1>3. \A k \in JobId : jobs'[k].state = "done" => jobs[k].state = "done" \/ landed[k]
    <2>1. CASE Crash \/ Boot \/ SweepCommits \/ SweepOrphans
      BY <2>1 DEF Crash, Boot, SweepCommits, SweepOrphans, storeVars
    <2>2. ASSUME NEW j \in JobId, SweepOne(j) \/ RecoverRequeues(j)
          PROVE  \A k \in JobId : jobs'[k].state = "done" => jobs[k].state = "done"
      BY <1>2, <2>2, RequeueRow DEF SweepOne, RecoverRequeues
    <2>3. ASSUME NEW j \in JobId,
                 RecoverUnstages(j) \/ RecoverResumes(j) \/ RecoverIntact(j) \/ RecoverErrs(j)
          PROVE  jobs' = jobs
      BY <2>3 DEF RecoverUnstages, RecoverResumes, RecoverIntact, RecoverErrs, storeVars
    <2>4. ASSUME NEW j \in JobId, RecoverPromoted(j)
          PROVE  \A k \in JobId : jobs'[k].state = "done" => jobs[k].state = "done" \/ landed[k]
      BY <1>2, <2>4 DEF RecoverPromoted, RecordPromotion, StoreTypeOK
    <2>5. ASSUME NEW j \in JobId, RecoverUndecidable(j)
          PROVE  \A k \in JobId : jobs'[k].state = "done" => jobs[k].state = "done"
      BY <1>2, <2>5 DEF RecoverUndecidable, FailJob, StoreTypeOK, JobRow
    <2> QED
      BY <2>1, <2>2, <2>3, <2>4, <2>5 DEF Recover
  <1> QED
    BY <1>1, <1>3 DEF DoneLanded, DoneMeansLanded, State

\* Past the rename the worker's job has landed, and so has every job that is done.
THEOREM DoneLandedHolds == Spec => []DoneLanded
  <1>1. Init => DoneLanded
    <2> SUFFICES ASSUME Init
                 PROVE  DoneLanded
      OBVIOUS
    <2>1. \A j \in JobId : State(j) = "absent"
      BY DEF Init, StoreInit, AbsentRow, State
    <2>2. worker.pc = "idle"
      BY DEF Init, Idle
    <2> QED
      BY <2>1, <2>2 DEF DoneLanded, DoneMeansLanded
  <1>2. Base /\ DoneLanded /\ [Next]_vars => DoneLanded'
    <2>1. CASE UNCHANGED vars
      BY <2>1 DEF vars, storeVars, memVars, diskVars, DoneLanded, DoneMeansLanded, State
    <2> QED
      BY <2>1, DoneWorker, DoneApi, DoneRecover DEF Next
  <1> QED
    BY <1>1, <1>2, BaseHolds, PTL DEF Spec

\* A job reported done is one whose latest execution replaced the library file, in
\* the worker and in recovery alike.
THEOREM OnlyLandedIsDone == Spec => []DoneMeansLanded
  <1>1. DoneLanded => DoneMeansLanded
    BY DEF DoneLanded
  <1> QED
    BY <1>1, DoneLandedHolds, PTL
=============================================================================
