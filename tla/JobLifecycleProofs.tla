------------------------- MODULE JobLifecycleProofs -------------------------
(***************************************************************************)
(* Theorems about JobQueue that relate the rows to the disk: what becomes  *)
(* of a staging file, what a landed output forbids, where a cancelled job  *)
(* ends, and that the queue implements JobLifecycle.                       *)
(*                                                                         *)
(* The invariants come in layers, each proved from those before it.        *)
(* RowsExist: who holds a job holds a row. Lists: a promotion is resumed   *)
(* once, and recovery's lists follow the rows it moves. LandedRows: an     *)
(* output lands once in an execution. StagingSafe: a staging file is the   *)
(* worker's, a resumed promotion's, some Cancel call's to remove, or on    *)
(* record as left behind.                                                  *)
(*                                                                         *)
(* SlotMoves is the half of CancelReturns that is not fairness: a Cancel   *)
(* call waits only for the job in the slot, and a worker in the slot only  *)
(* goes forward or lets go, but to ask Plex again as long as nobody wants  *)
(* it to stop.                                                             *)
(*                                                                         *)
(* RecoveryEnds bounds what a restart has to do: each step of recovery     *)
(* leaves fewer, whatever states the crash left the jobs in, so the        *)
(* process is back in service after at most 4 * MaxJobs + 3 of them.       *)
(***************************************************************************)
EXTENDS JobQueueProofs, FiniteSetTheorems

\* A job somebody holds, the worker or a Cancel call, has a row; and the worker's
\* own row is queued only if someone restarted it meanwhile.
RowsExist ==
    /\ worker.job # NoJob =>
          /\ State(worker.job) # "absent"
          /\ State(worker.job) = "queued" => starts[worker.job] = 0
    /\ \A c \in Clients : client[c].pc # "idle" => State(client[c].job) # "absent"

\* What every worker step but Claim leaves alone.
LEMMA WorkerFrame ==
    ASSUME Base, Worker, ~Claim
    PROVE  /\ mode = "up" /\ UNCHANGED <<mode, rec, starts>>
           /\ \A k \in JobId \ {worker.job} :
                 jobs'[k] = jobs[k] /\ stagingFile'[k] = stagingFile[k] /\ landed'[k] = landed[k]
           /\ worker.job \in JobId =>
                 \/ jobs'[worker.job].state = jobs[worker.job].state
                 \/ jobs'[worker.job].state \notin {"absent", "queued", "running"}
  <1>1. /\ worker.pc \notin {"idle", "polled"} => worker.job \in JobId
        /\ worker \in WorkerRecord /\ StoreTypeOK
        /\ stagingFile \in [JobId -> {"none", "partial", "whole"}]
        /\ landed \in [JobId -> BOOLEAN]
    BY NoJobIsNone DEF Base, TypeOK, Holders, WorkerRecord
  <1>2. CASE PopPending \/ PollQueue \/ MarkRunning \/ Prepare \/ PrepareFails \/ Rebuild
             \/ ClearRunning
    BY <1>2 DEF PopPending, PollQueue, MarkRunning, Prepare, PrepareFails, Rebuild,
       ClearRunning, At, KeepAllButWorker, storeVars, diskVars, State
  <1>3. CASE Verify \/ VerifyFails \/ RetryGuard \/ StreamClear \/ Restore \/ StopsEarly
             \/ ReleaseMedia
    BY <1>3 DEF Verify, VerifyFails, RetryGuard, StreamClear, Restore, StopsEarly,
       ReleaseMedia, SetMediaStatus, At, KeepAllButWorker, storeVars, diskVars, State
  <1>4. CASE Encode \/ Rename \/ FinishCancelled \/ FinishFailed
    BY <1>1, <1>4 DEF Encode, Rename, FinishCancelled, FinishFailed, RemoveOwnStaging,
       RemoveStaging, At, KeepAllButWorker, storeVars, State
  <1>5. CASE Launch
    BY <1>1, <1>5 DEF Launch, UpdateJobExecution, At, KeepAllButWorker, storeVars, diskVars,
       State, StoreTypeOK, JobRow
  <1>6. CASE EnterVerifying \/ EnterPromoting \/ Blocked
    BY <1>1, <1>6 DEF EnterVerifying, EnterPromoting, Blocked, SetJobState, At,
       KeepAllButWorker, storeVars, diskVars, State, StoreTypeOK, JobRow
  <1>7. CASE Settle
    BY <1>1, <1>7 DEF Settle, RecordPromotion, At, KeepAllButWorker, diskVars, State,
       StoreTypeOK, JobRow
  <1>8. CASE FinishCancelledRow
    BY <1>1, <1>8 DEF FinishCancelledRow, CancelJob, At, KeepAllButWorker, diskVars,
       storeVars, State, StoreTypeOK, JobRow
  <1>9. CASE FinishFailedRow
    BY <1>1, <1>9 DEF FinishFailedRow, FailJob, At, KeepAllButWorker, diskVars, State,
       StoreTypeOK, JobRow
  <1> QED
    BY <1>2, <1>3, <1>4, <1>5, <1>6, <1>7, <1>8, <1>9 DEF Worker

\* Every worker step but Claim and PopPending keeps the job, ClearRunning apart.
LEMMA WorkerKeepsJob ==
    ASSUME Base, Worker, ~Claim, ~PopPending
    PROVE  /\ pending' = pending
           /\ ~ClearRunning => worker'.job = worker.job /\ client' = client
  <1>1. worker \in WorkerRecord
    BY DEF Base, TypeOK
  <1> QED
    BY <1>1 DEF Worker, PollQueue, MarkRunning, Prepare, PrepareFails,
       Launch, Encode, Rebuild, EnterVerifying, EnterPromoting, Verify, VerifyFails,
       Blocked, RetryGuard, StreamClear, Rename, Restore, Settle, StopsEarly,
       FinishCancelled, FinishCancelledRow, ReleaseMedia, FinishFailed, FinishFailedRow,
       ClearRunning, Goto, Unwind, KeepAllButWorker, WorkerRecord

\* The worker takes up only a row that exists, and queues none.
LEMMA RowsExistWorker ==
    ASSUME Base, RowsExist, Worker
    PROVE  RowsExist'
  <1>1. /\ StoreTypeOK /\ worker.job \in JobId \union {NoJob}
        /\ \A c \in Clients : client[c].pc # "idle" => client[c].job \in JobId
    BY DEF Base, TypeOK, Holders, WorkerRecord, ClientRecord
  <1>2. CASE Claim
    <2>1. ASSUME NEW j \in Queued, ClaimNextJob(j),
                 worker' = [Idle EXCEPT !.pc = "claimed", !.job = j]
          PROVE  RowsExist'
      <3>1. /\ j \in JobId /\ jobs'[j].state = "running"
            /\ \A k \in JobId \ {j} : jobs'[k] = jobs[k]
        BY <1>1, <2>1 DEF Queued, ClaimNextJob, StoreTypeOK, JobRow
      <3>2. worker'.job = j /\ client' = client
        BY <1>2, <2>1 DEF Claim, KeepAllButWorker, Idle
      <3> QED
        BY <1>1, <3>1, <3>2 DEF RowsExist, State
    <2>2. CASE worker' = Idle /\ UNCHANGED storeVars
      BY <1>2, <2>2 DEF Claim, KeepAllButWorker, RowsExist, State, Idle, storeVars
    <2> QED
      BY <1>2, <2>1, <2>2 DEF Claim
  <1>3. CASE PopPending
    <2>1. worker'.job # NoJob => State(worker'.job) = "awaiting_stream_end"
      BY <1>3 DEF PopPending, Idle
    <2> QED
      BY <1>3, <2>1 DEF PopPending, RowsExist, State, storeVars
  <1>4. CASE ClearRunning
    BY <1>4 DEF ClearRunning, RowsExist, State, storeVars, Idle, NoCancel
  <1>5. CASE ~Claim /\ ~PopPending /\ ~ClearRunning
    <2>1. worker'.job = worker.job /\ client' = client /\ starts' = starts
      BY <1>5, WorkerFrame, WorkerKeepsJob
    <2>2. \A k \in JobId \ {worker.job} : jobs'[k] = jobs[k]
      BY <1>5, WorkerFrame
    <2>3. worker.job \in JobId =>
             \/ jobs'[worker.job].state = jobs[worker.job].state
             \/ jobs'[worker.job].state \notin {"absent", "queued", "running"}
      BY <1>5, WorkerFrame
    <2> QED
      BY <1>1, <2>1, <2>2, <2>3, NoJobIsNone DEF RowsExist, State
  <1> QED
    BY <1>2, <1>3, <1>4, <1>5

\* A handler names only a row it was given, and the one that queues a held row again
\* is Restart, which forgives its executions.
LEMMA RowsExistApi ==
    ASSUME Base, RowsExist,
           \/ \E c \in Clients : CancelStep(c) \/ CancelHangsUp(c)
           \/ \E c \in Clients, j \in JobId : CancelCall(c, j)
           \/ \E f \in Files, p \in EnqueuePriorities : Enqueue(f, p)
           \/ \E j \in JobId : Restart(j)
           \/ \E b \in BOOLEAN : SetPaused(b)
    PROVE  RowsExist'
  <1>1. /\ StoreTypeOK /\ worker.job \in JobId \union {NoJob} /\ starts \in [JobId -> Nat]
        /\ client \in [Clients -> ClientRecord]
        /\ \A c \in Clients : client[c].pc # "idle" => client[c].job \in JobId
    BY DEF Base, TypeOK, Holders, WorkerRecord, ClientRecord
  <1>2. ASSUME NEW c \in Clients, CancelStep(c) \/ CancelHangsUp(c)
        PROVE  RowsExist'
    <2>1. /\ worker' = worker /\ starts' = starts
          /\ \A d \in Clients \ {c} : client'[d] = client[d]
      BY <1>1, <1>2 DEF CancelStep, CancelReads, CancelWrites, CancelReleases,
         CancelUnstages, CancelHangsUp, KeepAllButClient
    <2>2. client[c].pc # "idle" /\ client'[c].job \in {client[c].job, NoJob}
          /\ (client'[c].job = NoJob => client'[c].pc = "idle")
      <3>1. client[c].pc # "idle" /\ client[c].job # NoJob
        BY <1>2 DEF CancelStep, CancelReads, CancelWrites, CancelReleases, CancelUnstages,
           CancelHangsUp, Base, Holders
      <3>2. client[c] \in ClientRecord
        BY <1>1
      <3>3. CASE CancelReads(c)
        BY <1>1, <3>1, <3>2, <3>3 DEF CancelReads, NoCancel, ClientRecord
      <3>4. CASE CancelReleases(c)
        BY <1>1, <3>1, <3>2, <3>4 DEF CancelReleases, NoCancel, ClientRecord
      <3>5. CASE CancelUnstages(c)
        BY <1>1, <3>1, <3>2, <3>5 DEF CancelUnstages, NoCancel, ClientRecord
      <3>6. CASE CancelWrites(c)
        BY <1>1, <3>1, <3>2, <3>6 DEF CancelWrites, NoCancel, ClientRecord
      <3>7. CASE CancelHangsUp(c)
        BY <1>1, <3>1, <3>2, <3>7 DEF CancelHangsUp, NoCancel, ClientRecord
      <3> QED
        BY <1>2, <3>3, <3>4, <3>5, <3>6, <3>7 DEF CancelStep
    <2>3. \A k \in JobId : jobs'[k] = jobs[k] \/ jobs'[k].state = "cancelled"
      <3>1. client[c].job \in JobId
        BY <1>1, <2>2
      <3> QED
        BY <1>1, <1>2, <3>1 DEF CancelStep, CancelReads, CancelWrites, CancelReleases,
           CancelUnstages, CancelHangsUp, CancelJob, SetMediaStatus, storeVars,
           StoreTypeOK, JobRow
    <2> QED
      BY <1>1, <2>1, <2>2, <2>3, NoJobIsNone DEF RowsExist, State
  <1>3. ASSUME NEW c \in Clients, NEW j \in JobId, CancelCall(c, j)
        PROVE  RowsExist'
    <2>1. /\ worker' = worker /\ starts' = starts /\ jobs' = jobs /\ State(j) # "absent"
          /\ \A d \in Clients \ {c} : client'[d] = client[d]
          /\ client'[c].job = j
      BY <1>1, <1>3 DEF CancelCall, KeepAllButClient, storeVars, NoCancel
    <2> QED
      BY <2>1 DEF RowsExist, State
  <1>4. ASSUME NEW f \in Files, NEW p \in EnqueuePriorities, Enqueue(f, p)
        PROVE  RowsExist'
    <2>1. UNCHANGED <<worker, client, starts>>
      BY <1>4 DEF Enqueue, KeepAllButStore, memVars
    <2>2. \A k \in JobId : jobs'[k] = jobs[k] \/ State(k) = "absent"
      BY <1>1, <1>4 DEF Enqueue, EnqueueJob, StoreTypeOK
    <2> QED
      BY <1>1, <2>1, <2>2, NoJobIsNone DEF RowsExist, State
  <1>5. ASSUME NEW j \in JobId, Restart(j)
        PROVE  RowsExist'
    <2>1. UNCHANGED <<worker, client>> /\ starts' = [starts EXCEPT ![j] = 0]
      BY <1>5 DEF Restart, KeepAllButStore, memVars
    <2>2. jobs'[j].state = "queued" /\ \A k \in JobId \ {j} : jobs'[k] = jobs[k]
      BY <1>1, <1>5, RestartRow DEF Restart
    <2> QED
      BY <1>1, <2>1, <2>2, NoJobIsNone DEF RowsExist, State
  <1>6. CASE \E b \in BOOLEAN : SetPaused(b)
    BY <1>6 DEF SetPaused, memVars, storeVars, RowsExist, State
  <1> QED
    BY <1>2, <1>3, <1>4, <1>5, <1>6

\* While recovery runs, nobody holds a job.
LEMMA RecoverHoldsNothing ==
    ASSUME Base, Recover \/ Crash
    PROVE  worker' = Idle /\ \A c \in Clients : client'[c].pc = "idle"
  <1>1. CASE Crash
    BY <1>1 DEF Crash, NoCancel
  <1>2. CASE Recover
    <2>1. mode # "up" /\ worker' = worker /\ client' = client
      <3>1. CASE Boot \/ SweepCommits \/ SweepOrphans
        BY <3>1 DEF Boot, SweepCommits, SweepOrphans, KeepInRecovery
      <3>2. ASSUME NEW j \in JobId,
                   SweepOne(j) \/ RecoverUnstages(j) \/ RecoverResumes(j) \/ RecoverIntact(j)
                   \/ RecoverRequeues(j) \/ RecoverPromoted(j) \/ RecoverErrs(j)
                   \/ RecoverUndecidable(j)
            PROVE  mode # "up" /\ worker' = worker /\ client' = client
        BY <3>2 DEF SweepOne, RecoverUnstages, RecoverResumes, RecoverIntact,
           RecoverRequeues, RecoverPromoted, RecoverErrs, RecoverUndecidable, RecoverNext,
           KeepInRecovery
      <3> QED
        BY <1>2, <3>1, <3>2 DEF Recover
    <2> QED
      BY <2>1 DEF Base, RecoveryOwn
  <1> QED
    BY <1>1, <1>2

\* Whoever holds a job holds a row.
THEOREM HeldRowsExist == Spec => []RowsExist
  <1>1. Init => RowsExist
    BY DEF Init, RowsExist, Idle, NoCancel
  <1>2. Base /\ RowsExist /\ [Next]_vars => RowsExist'
    <2>1. CASE UNCHANGED vars
      BY <2>1 DEF vars, storeVars, memVars, RowsExist, State
    <2>2. ASSUME Base, Recover \/ Crash
          PROVE  RowsExist'
      BY <2>2, RecoverHoldsNothing DEF RowsExist, Idle
    <2> QED
      BY <2>1, <2>2, RowsExistWorker, RowsExistApi DEF Next
  <1> QED
    BY <1>1, <1>2, BaseHolds, PTL DEF Spec

-----------------------------------------------------------------------------
(* The two lists that outlive recovery's look at a row. *)

\* A promotion waits to be resumed once, never while the worker has the job, and
\* nothing is claimed before the list is empty.
PendingOnce ==
    /\ \A i, k \in 1 .. Len(pending) : pending[i] = pending[k] => i = k
    /\ worker.job \notin Resuming
    /\ worker.pc = "polled" => pending = <<>>

\* Rows recovery will unstage are settled, rows it resumes are off its list, and the
\* orphan sweep will keep what they need.
RecoveryLists ==
    /\ mode \in {"down", "up"} => rec.unstage = {} /\ rec.intact = {}
    /\ \A j \in rec.unstage : State(j) \in {"queued", "failed"}
    /\ mode = "recover" =>
          /\ Resuming = rec.keep
          /\ \A j \in Resuming : State(j) = "awaiting_stream_end" /\ j \notin rec.check

Lists == PendingOnce /\ RecoveryLists

\* Taking the head off a list without repetitions takes it off for good.
LEMMA OnceTail ==
    ASSUME pending \in Seq(JobId), pending # <<>>, pending' = Tail(pending),
           \A i, k \in 1 .. Len(pending) : pending[i] = pending[k] => i = k
    PROVE  /\ \A i, k \in 1 .. Len(pending') : pending'[i] = pending'[k] => i = k
           /\ Head(pending) \notin Resuming'
           /\ Resuming' \subseteq Resuming
  <1>1. /\ Len(pending') = Len(pending) - 1 /\ Len(pending) \in Nat
        /\ \A i \in 1 .. Len(pending') : pending'[i] = pending[i + 1]
        /\ Head(pending) = pending[1] /\ Len(pending) # 0
    OBVIOUS
  <1>2. \A i \in 1 .. Len(pending') : i + 1 \in 1 .. Len(pending) /\ i + 1 # 1
    BY <1>1
  <1> QED
    BY <1>1, <1>2 DEF Resuming

\* Appending a job that is not on the list repeats nothing.
LEMMA OnceAppend ==
    ASSUME pending \in Seq(JobId), NEW j \in JobId, pending' = Append(pending, j),
           j \notin Resuming,
           \A i, k \in 1 .. Len(pending) : pending[i] = pending[k] => i = k
    PROVE  /\ \A i, k \in 1 .. Len(pending') : pending'[i] = pending'[k] => i = k
           /\ Resuming' = Resuming \union {j}
  <1>1. /\ Len(pending') = Len(pending) + 1 /\ Len(pending) \in Nat
        /\ \A i \in 1 .. Len(pending) : pending'[i] = pending[i] /\ pending[i] # j
        /\ pending'[Len(pending) + 1] = j
    BY DEF Resuming
  <1> QED
    BY <1>1 DEF Resuming

\* The worker resumes each promotion once and claims only when none is left.
LEMMA ListsWorker ==
    ASSUME Base, Lists, Worker
    PROVE  Lists'
  <1>1. /\ StoreTypeOK /\ worker \in WorkerRecord /\ pending \in Seq(JobId)
        /\ worker.job \in JobId \union {NoJob}
    BY DEF Base, TypeOK, WorkerRecord
  <1>2. mode = "up" /\ mode' = "up" /\ rec' = rec
    BY DEF Worker, PopPending, PollQueue, Claim, MarkRunning, Prepare, PrepareFails,
       Launch, Encode, Rebuild, EnterVerifying, EnterPromoting, Verify, VerifyFails,
       Blocked, RetryGuard, StreamClear, Rename, Restore, Settle, StopsEarly,
       FinishCancelled, FinishCancelledRow, ReleaseMedia, FinishFailed, FinishFailedRow,
       ClearRunning, At, KeepAllButWorker
  <1>3. RecoveryLists'
    BY <1>2 DEF Lists, RecoveryLists
  <1>4. CASE Claim
    <2>1. pending = <<>> /\ pending' = pending
      BY <1>4 DEF Claim, At, KeepAllButWorker, Lists, PendingOnce
    <2> QED
      BY <1>3, <2>1 DEF Lists, PendingOnce, Resuming
  <1>5. CASE PopPending
    <2>1. /\ pending # <<>> /\ pending' = Tail(pending)
          /\ worker'.job \in {NoJob, Head(pending)} /\ worker'.pc # "polled"
      BY <1>5 DEF PopPending, Idle
    <2>2. NoJob \notin Resuming
      BY <1>1, NoJobIsNone DEF Resuming
    <2> QED
      BY <1>1, <1>3, <2>1, <2>2, OnceTail DEF Lists, PendingOnce
  <1>6. CASE ~Claim /\ ~PopPending
    <2>1. pending' = pending /\ (worker'.job = worker.job \/ worker'.job = NoJob)
      BY <1>6, WorkerKeepsJob DEF ClearRunning, Idle
    <2>2. NoJob \notin Resuming
      BY <1>1, NoJobIsNone DEF Resuming
    <2>3. worker'.pc = "polled" => pending = <<>>
      <3>1. CASE ClearRunning
        BY <3>1 DEF ClearRunning, Idle
      <3>2. CASE ~ClearRunning
        BY <1>1, <1>6, <3>2 DEF Worker, PollQueue, MarkRunning, Prepare, PrepareFails,
           Launch, Encode, Rebuild, EnterVerifying, EnterPromoting, Verify, VerifyFails,
           Blocked, RetryGuard, StreamClear, Rename, Restore, Settle, StopsEarly,
           FinishCancelled, FinishCancelledRow, ReleaseMedia, FinishFailed,
           FinishFailedRow, Goto, Unwind, WorkerRecord
      <3> QED
        BY <3>1, <3>2
    <2> QED
      BY <1>3, <2>1, <2>2, <2>3 DEF Lists, PendingOnce, Resuming
  <1> QED
    BY <1>4, <1>5, <1>6

\* Recovery's lists follow the rows it moves.
LEMMA ListsRecover ==
    ASSUME Base, Lists, Recover
    PROVE  Lists'
  <1>1. /\ StoreTypeOK /\ rec \in RecoveryRecord /\ pending \in Seq(JobId)
        /\ worker' = Idle
    BY RecoverHoldsNothing DEF Base, TypeOK
  <1>2. NoJob \notin Resuming'
    <2>1. pending' \in Seq(JobId)
      BY RecoverType DEF Base, TypeOK
    <2> QED
      BY <2>1, NoJobIsNone DEF Resuming
  <1>3. ASSUME pending' = pending
        PROVE  PendingOnce'
    BY <1>1, <1>2, <1>3 DEF Lists, PendingOnce, Idle, Resuming
  <1>4. CASE Boot
    BY <1>3, <1>4 DEF Boot, Base, RecoveryOwn, Lists, RecoveryLists, State, storeVars
  <1>5. CASE SweepCommits
    <2>1. pending = <<>> /\ rec.keep = {} /\ pending' = pending
      BY <1>5 DEF SweepCommits, Base, RecoveryOwn
    <2>2. rec'.unstage = rec.unstage /\ rec'.keep = rec.keep /\ mode' = "recover"
          /\ jobs' = jobs
      BY <1>1, <1>5 DEF SweepCommits, RecoveryRecord, storeVars
    <2> QED
      BY <1>3, <2>1, <2>2 DEF Lists, RecoveryLists, State, Resuming
  <1>6. CASE SweepOrphans
    BY <1>3, <1>6 DEF SweepOrphans, Lists, RecoveryLists, NoRecovery
  <1>7. ASSUME NEW j \in JobId, SweepOne(j)
        PROVE  Lists'
    <2>1. /\ mode' = "sweep" /\ pending' = pending
          /\ rec'.unstage \subseteq rec.unstage \union {j}
      BY <1>1, <1>7 DEF SweepOne, RecoveryRecord
    <2>2. /\ jobs'[j].state \in {"failed", "queued"}
          /\ \A k \in JobId \ {j} : jobs'[k] = jobs[k]
      BY <1>1, <1>7, RequeueRow DEF SweepOne
    <2>3. rec.unstage \subseteq JobId
      BY <1>1 DEF RecoveryRecord
    <2> QED
      BY <1>3, <2>1, <2>2, <2>3 DEF Lists, RecoveryLists, State
  <1>8. ASSUME NEW j \in JobId, RecoverUnstages(j) \/ RecoverIntact(j) \/ RecoverErrs(j)
        PROVE  Lists'
    <2>1. /\ mode' = "recover" /\ pending' = pending /\ jobs' = jobs
          /\ rec'.unstage \subseteq rec.unstage /\ rec'.check \subseteq rec.check
          /\ rec'.keep = rec.keep /\ mode = "recover"
      BY <1>1, <1>8 DEF RecoverUnstages, RecoverIntact, RecoverErrs, RecoverNext,
         RecoveryRecord, storeVars
    <2> QED
      BY <1>3, <2>1 DEF Lists, RecoveryLists, State, Resuming
  <1>9. ASSUME NEW j \in JobId, RecoverResumes(j)
        PROVE  Lists'
    <2>1. /\ mode' = "recover" /\ mode = "recover" /\ jobs' = jobs
          /\ State(j) = "awaiting_stream_end" /\ j \in rec.check
          /\ rec'.unstage = rec.unstage /\ rec'.check = rec.check \ {j}
          /\ rec'.keep = rec.keep \union {j} /\ pending' = Append(pending, j)
      BY <1>1, <1>9 DEF RecoverResumes, RecoverNext, RecoveryRecord, storeVars
    <2>2. j \notin Resuming
      BY <2>1 DEF Lists, RecoveryLists
    <2>3. /\ \A i, k \in 1 .. Len(pending') : pending'[i] = pending'[k] => i = k
          /\ Resuming' = Resuming \union {j}
      BY <1>1, <2>1, <2>2, OnceAppend DEF Lists, PendingOnce
    <2> QED
      BY <1>1, <1>2, <2>1, <2>3 DEF Lists, PendingOnce, RecoveryLists, State, Idle
  <1>10. ASSUME NEW j \in JobId,
                RecoverRequeues(j) \/ RecoverPromoted(j) \/ RecoverUndecidable(j)
         PROVE  Lists'
    <2>1. /\ mode' = "recover" /\ mode = "recover" /\ pending' = pending
          /\ j \in rec.check
          /\ rec'.unstage = rec.unstage /\ rec'.check = rec.check \ {j}
          /\ rec'.keep = rec.keep
      BY <1>1, <1>10 DEF RecoverRequeues, RecoverPromoted, RecoverUndecidable, RecoverNext,
         RecoveryRecord, Base, RecoveryOwn
    <2>2. \A k \in JobId \ {j} : jobs'[k] = jobs[k]
      BY <1>1, <1>10, RequeueRow DEF RecoverRequeues, RecoverPromoted, RecoverUndecidable,
         RecordPromotion, FailJob, StoreTypeOK
    <2>3. State(j) \in {"promoting", "awaiting_stream_end"}
      BY <2>1 DEF Base, RecoveryOwn
    <2>4. j \notin rec.unstage /\ j \notin Resuming
      BY <2>1, <2>3 DEF Lists, RecoveryLists
    <2>5. rec.unstage \subseteq JobId /\ Resuming \subseteq JobId
      BY <1>1 DEF RecoveryRecord, Resuming
    <2> QED
      BY <1>3, <2>1, <2>2, <2>4, <2>5 DEF Lists, RecoveryLists, State, Resuming
  <1> QED
    BY <1>4, <1>5, <1>6, <1>7, <1>8, <1>9, <1>10 DEF Recover

\* A promotion is resumed once and recovery's lists follow the rows.
THEOREM ListsHold == Spec => []Lists
  <1>1. Init => Lists
    BY NoJobIsNone DEF Init, Lists, PendingOnce, RecoveryLists, Resuming, Idle, NoRecovery
  <1>2. Base /\ Lists /\ [Next]_vars => Lists'
    <2> SUFFICES ASSUME Base, Lists, [Next]_vars
                 PROVE  Lists'
      OBVIOUS
    <2>1. CASE UNCHANGED vars
      BY <2>1 DEF vars, storeVars, memVars, Lists, PendingOnce, RecoveryLists, State,
         Resuming
    <2>2. CASE Crash
      BY <2>2, NoJobIsNone DEF Crash, Lists, PendingOnce, RecoveryLists, Resuming, Idle,
         NoRecovery
    <2>3. CASE \/ \E c \in Clients : CancelStep(c) \/ CancelHangsUp(c)
               \/ \E c \in Clients, j \in JobId : CancelCall(c, j)
               \/ \E f \in Files, p \in EnqueuePriorities : Enqueue(f, p)
               \/ \E j \in JobId : Restart(j)
               \/ \E b \in BOOLEAN : SetPaused(b)
      <3>1. UNCHANGED <<mode, worker, pending, rec>>
        BY <2>3 DEF CancelStep, CancelReads, CancelWrites, CancelReleases, CancelUnstages,
           CancelHangsUp, CancelCall, KeepAllButClient, Enqueue, Restart, SetPaused,
           KeepAllButStore, memVars
      <3>2. mode = "up"
        <4>1. \A c \in Clients : CancelStep(c) \/ CancelHangsUp(c) => client[c].pc # "idle"
          BY DEF CancelStep, CancelReads, CancelWrites, CancelReleases, CancelUnstages,
             CancelHangsUp
        <4> QED
          BY <2>3, <4>1 DEF CancelCall, Enqueue, Restart, SetPaused, Base, RecoveryOwn
      <3> QED
        BY <3>1, <3>2 DEF Lists, PendingOnce, RecoveryLists, Resuming
    <2> QED
      BY <2>1, <2>2, <2>3, ListsWorker, ListsRecover DEF Next
  <1> QED
    BY <1>1, <1>2, BaseHolds, PTL DEF Spec

-----------------------------------------------------------------------------
(* What a landed output forbids. *)

BeforeRename == {"claimed", "resuming", "prepare", "launch", "encoding", "rebuild",
                 "finalise", "probing", "verify", "guard", "deferred", "rename"}
WhilePromoting == {"verify", "guard", "deferred", "rename"}

\* A job's output lands once in an execution: the rename takes the staging file away,
\* no row that is still encoding or verifying has landed, and neither has one whose
\* source recovery found intact.
LandedRows ==
    /\ worker.pc \in BeforeRename => ~landed[worker.job]
    /\ worker.pc \in WhilePromoting => State(worker.job) \notin {"running", "verifying"}
    /\ \A j \in JobId : landed[j] =>
          stagingFile[j] = "none" /\ State(j) \notin {"running", "verifying"}
    /\ \A j \in rec.intact : ~landed[j]

\* The staging file of a promotion that still waits is whole, and no Cancel call is
\* about to remove it; one whose row moved on is some Cancel call's to remove; and the
\* worker leaves withRunning only when its staging file is gone or on record.
Removes(c, j) ==
    client[c].job = j /\ client[c].staged /\ client[c].pc \in {"releasing", "unstaging"}

StagingKept ==
    /\ \A j \in Resuming : State(j) = "awaiting_stream_end" =>
          /\ jobs[j].staged /\ stagingFile[j] = "whole"
          /\ \A c \in Clients : client[c].job = j =>
                /\ client[c].pc \notin {"releasing", "unstaging"}
                /\ client[c].pc = "cancelling" => client[c].staged
    /\ mode = "up" => \A j \in Resuming :
          stagingFile[j] # "none" /\ State(j) # "awaiting_stream_end" =>
             \E c \in Clients : Removes(c, j)
    /\ worker.pc \in {"renamed", "settle"} => stagingFile[worker.job] = "none"
    /\ worker.pc \in {"cancelRow", "release", "failRow", "clear"} =>
          stagingFile[worker.job] = "none" \/ worker.job \in left

\* A promotion about to be resumed has not landed.
LEMMA ResumedNotLanded ==
    ASSUME Base, LandedRows, StagingKept, NEW j \in Resuming,
           State(j) = "awaiting_stream_end"
    PROVE  j \in JobId /\ ~landed[j]
  <1>1. j \in JobId
    BY DEF Base, TypeOK, Resuming
  <1> QED
    BY <1>1 DEF LandedRows, StagingKept

\* The worker lands its job once, past the point where the row is promoting.
LEMMA LandedWorker ==
    ASSUME Base, Lists, LandedRows, StagingKept, Worker
    PROVE  LandedRows'
  <1>1. /\ worker.pc \notin {"idle", "polled"} => worker.job \in JobId
        /\ worker \in WorkerRecord /\ StoreTypeOK
        /\ stagingFile \in [JobId -> {"none", "partial", "whole"}]
        /\ landed \in [JobId -> BOOLEAN] /\ pending \in Seq(JobId)
        /\ rec \in RecoveryRecord
    BY NoJobIsNone DEF Base, TypeOK, Holders, WorkerRecord
  <1>2. rec' = rec /\ mode = "up" /\ rec.intact = {}
    <2>1. rec' = rec /\ mode = "up"
      BY WorkerFrame DEF Claim, At, KeepAllButWorker
    <2> QED
      BY <2>1 DEF Lists, RecoveryLists
  <1>3. CASE Claim
    <2>1. ASSUME NEW j \in Queued, ClaimNextJob(j),
                 worker' = [Idle EXCEPT !.pc = "claimed", !.job = j],
                 landed' = [landed EXCEPT ![j] = FALSE]
          PROVE  LandedRows'
      <3>1. /\ j \in JobId /\ \A k \in JobId \ {j} : jobs'[k] = jobs[k]
            /\ landed'[j] = FALSE /\ \A k \in JobId \ {j} : landed'[k] = landed[k]
        BY <1>1, <2>1 DEF Queued, ClaimNextJob, StoreTypeOK
      <3>2. worker'.job = j /\ worker'.pc = "claimed" /\ stagingFile' = stagingFile
        BY <1>3, <2>1 DEF Claim, Idle
      <3> QED
        BY <1>2, <3>1, <3>2 DEF LandedRows, State, WhilePromoting
    <2>2. CASE worker' = Idle /\ UNCHANGED <<storeVars, landed>>
      BY <1>2, <1>3, <2>2 DEF Claim, LandedRows, State, storeVars, Idle, BeforeRename,
         WhilePromoting
    <2> QED
      BY <1>3, <2>1, <2>2 DEF Claim
  <1>4. CASE PopPending
    <2>1. /\ UNCHANGED <<jobs, landed, stagingFile>> /\ worker'.pc \in {"idle", "resuming"}
          /\ worker'.pc = "resuming" =>
                worker'.job = Head(pending) /\ State(Head(pending)) = "awaiting_stream_end"
      BY <1>4 DEF PopPending, storeVars, diskVars, Idle
    <2>2. Head(pending) \in Resuming
      <3>1. pending # <<>> /\ Head(pending) = pending[1] /\ Len(pending) \in Nat /\ Len(pending) # 0
        BY <1>1, <1>4 DEF PopPending
      <3> QED
        BY <3>1 DEF Resuming
    <2>3. worker'.pc = "resuming" => ~landed[worker'.job]
      BY <2>1, <2>2, ResumedNotLanded
    <2> QED
      BY <1>2, <2>1, <2>3 DEF LandedRows, State, WhilePromoting, BeforeRename
  <1>5. ASSUME UNCHANGED <<landed, stagingFile, jobs>>, worker'.job = worker.job,
               worker'.pc \in BeforeRename => worker.pc \in BeforeRename,
               worker'.pc \in WhilePromoting => worker.pc \in WhilePromoting
        PROVE  LandedRows'
    BY <1>2, <1>5 DEF LandedRows, State
  <1>6. CASE PollQueue \/ MarkRunning \/ Prepare \/ PrepareFails \/ Rebuild
    BY <1>1, <1>5, <1>6 DEF PollQueue, MarkRunning, Prepare, PrepareFails, Rebuild, At,
       Goto, Unwind, storeVars, diskVars, WorkerRecord, BeforeRename, WhilePromoting
  <1>7. CASE Verify \/ VerifyFails \/ RetryGuard \/ StreamClear \/ Restore \/ StopsEarly
             \/ ReleaseMedia
    BY <1>1, <1>5, <1>7 DEF Verify, VerifyFails, RetryGuard, StreamClear, Restore,
       StopsEarly, ReleaseMedia, SetMediaStatus, At, Goto, Unwind, storeVars, diskVars,
       WorkerRecord, BeforeRename, WhilePromoting
  <1>8. CASE ClearRunning
    BY <1>2, <1>8 DEF ClearRunning, LandedRows, State, storeVars, diskVars, Idle,
       BeforeRename, WhilePromoting
  <1>9. ASSUME landed' = landed, worker'.job = worker.job, worker.job \in JobId,
               \A k \in JobId \ {worker.job} : jobs'[k] = jobs[k],
               \A k \in JobId : stagingFile[k] = "none" => stagingFile'[k] = "none",
               worker'.pc \in BeforeRename => worker.pc \in BeforeRename,
               worker'.pc \in WhilePromoting =>
                  \/ jobs'[worker.job].state \notin {"running", "verifying"}
                  \/ worker.pc \in WhilePromoting
                     /\ jobs'[worker.job].state = jobs[worker.job].state,
               \/ jobs'[worker.job].state \in {jobs[worker.job].state} \union
                     (JobStates \ {"running", "verifying"})
               \/ ~landed[worker.job]
        PROVE  LandedRows'
    BY <1>2, <1>9 DEF LandedRows, State
  <1>10. CASE Launch
    <2>1. ~landed[worker.job]
      BY <1>10 DEF Launch, At, LandedRows, BeforeRename
    <2>2. /\ landed' = landed /\ worker'.job = worker.job /\ worker'.pc = "encoding"
          /\ \A k \in JobId : jobs'[k].state = jobs[k].state
          /\ \A k \in JobId \ {worker.job} : stagingFile'[k] = stagingFile[k]
      BY <1>1, <1>10 DEF Launch, UpdateJobExecution, At, Goto, WorkerRecord, StoreTypeOK,
         JobRow
    <2> QED
      BY <1>2, <2>1, <2>2 DEF LandedRows, State, WhilePromoting
  <1>11. CASE Encode
    BY <1>1, <1>9, <1>11 DEF Encode, At, Goto, storeVars, WorkerRecord, BeforeRename,
       WhilePromoting
  <1>12. CASE FinishCancelled \/ FinishFailed
    BY <1>1, <1>9, <1>12 DEF FinishCancelled, FinishFailed, RemoveOwnStaging,
       RemoveStaging, At, Goto, storeVars, WorkerRecord, BeforeRename, WhilePromoting
  <1>13. CASE Rename
    <2>1. /\ worker'.job = worker.job /\ worker'.pc = "renamed" /\ jobs' = jobs
          /\ worker.pc = "rename" /\ stagingFile'[worker.job] = "none"
          /\ \A k \in JobId \ {worker.job} :
                stagingFile'[k] = stagingFile[k] /\ landed'[k] = landed[k]
      BY <1>1, <1>13 DEF Rename, At, Goto, storeVars, WorkerRecord
    <2> QED
      BY <1>2, <2>1 DEF LandedRows, State, WhilePromoting, BeforeRename
  <1>14. CASE EnterVerifying
    <2>1. ~landed[worker.job]
      BY <1>14 DEF EnterVerifying, At, LandedRows, BeforeRename
    <2>2. /\ landed' = landed /\ worker'.job = worker.job /\ worker'.pc = "probing"
          /\ stagingFile' = stagingFile /\ \A k \in JobId \ {worker.job} : jobs'[k] = jobs[k]
      BY <1>1, <1>14 DEF EnterVerifying, SetJobState, At, Goto, diskVars, WorkerRecord,
         StoreTypeOK
    <2> QED
      BY <1>2, <2>1, <2>2 DEF LandedRows, State, WhilePromoting
  <1>15. CASE EnterPromoting \/ Blocked
    <2>1. /\ landed' = landed /\ worker'.job = worker.job
          /\ worker.pc \in BeforeRename /\ worker'.pc \in BeforeRename
          /\ stagingFile' = stagingFile /\ \A k \in JobId \ {worker.job} : jobs'[k] = jobs[k]
      BY <1>1, <1>15 DEF EnterPromoting, Blocked, SetJobState, At, Goto, diskVars,
         storeVars, WorkerRecord, StoreTypeOK, BeforeRename
    <2>2. jobs'[worker.job].state \notin {"running", "verifying"}
      <3>1. CASE EnterPromoting
        BY <1>1, <3>1 DEF EnterPromoting, At, SetJobState, StoreTypeOK, JobRow
      <3>2. CASE Blocked
        BY <1>1, <3>2 DEF Blocked, At, SetJobState, storeVars, StoreTypeOK, JobRow,
           LandedRows, WhilePromoting, State
      <3> QED
        BY <1>15, <3>1, <3>2
    <2> QED
      BY <1>2, <2>1, <2>2 DEF LandedRows, State
  <1>16. CASE Settle \/ FinishCancelledRow \/ FinishFailedRow
    <2>1. /\ landed' = landed /\ worker'.job = worker.job
          /\ worker'.pc \notin BeforeRename /\ worker'.pc \notin WhilePromoting
          /\ stagingFile' = stagingFile
      BY <1>1, <1>16 DEF Settle, FinishCancelledRow, FinishFailedRow, At, Goto, diskVars,
         storeVars, WorkerRecord, StoreTypeOK, BeforeRename, WhilePromoting
    <2>2. \A k \in JobId : jobs'[k] = jobs[k] \/ jobs'[k].state \notin {"running", "verifying"}
      <3>1. CASE Settle
        BY <1>1, <3>1 DEF Settle, At, RecordPromotion, StoreTypeOK, JobRow
      <3>2. CASE FinishCancelledRow
        BY <1>1, <3>2 DEF FinishCancelledRow, At, CancelJob, storeVars, StoreTypeOK, JobRow
      <3>3. CASE FinishFailedRow
        BY <1>1, <3>3 DEF FinishFailedRow, At, FailJob, StoreTypeOK, JobRow
      <3> QED
        BY <1>16, <3>1, <3>2, <3>3
    <2> QED
      BY <1>2, <2>1, <2>2 DEF LandedRows, State
  <1> QED
    BY <1>3, <1>4, <1>6, <1>7, <1>8, <1>10, <1>11, <1>12, <1>13, <1>14, <1>15, <1>16
       DEF Worker

\* What every handler leaves alone: rows only leave the pipeline, staging files only
\* disappear.
LEMMA ApiFrame ==
    ASSUME Base,
           \/ \E c \in Clients : CancelStep(c) \/ CancelHangsUp(c)
           \/ \E c \in Clients, j \in JobId : CancelCall(c, j)
           \/ \E f \in Files, p \in EnqueuePriorities : Enqueue(f, p)
           \/ \E j \in JobId : Restart(j)
           \/ \E b \in BOOLEAN : SetPaused(b)
    PROVE  /\ UNCHANGED <<mode, worker, pending, rec, landed, left>> /\ mode = "up"
           /\ \A k \in JobId : jobs'[k] = jobs[k] \/ jobs'[k].state \in {"cancelled", "queued"}
           /\ \A k \in JobId : stagingFile'[k] = stagingFile[k] \/ stagingFile'[k] = "none"
  <1>1. /\ StoreTypeOK
        /\ stagingFile \in [JobId -> {"none", "partial", "whole"}]
        /\ \A c \in Clients : client[c].pc # "idle" => client[c].job \in JobId /\ mode = "up"
    BY DEF Base, TypeOK, Holders, ClientRecord, RecoveryOwn
  <1>2. ASSUME NEW c \in Clients, CancelStep(c) \/ CancelHangsUp(c)
        PROVE  /\ UNCHANGED <<mode, worker, pending, rec, landed, left>> /\ mode = "up"
               /\ \A k \in JobId : jobs'[k] = jobs[k] \/ jobs'[k].state \in {"cancelled", "queued"}
               /\ \A k \in JobId : stagingFile'[k] = stagingFile[k] \/ stagingFile'[k] = "none"
    <2>1. client[c].job \in JobId /\ mode = "up"
      BY <1>1, <1>2 DEF CancelStep, CancelReads, CancelWrites, CancelReleases,
         CancelUnstages, CancelHangsUp
    <2>2. UNCHANGED <<mode, worker, pending, rec, landed, left>>
      BY <1>2 DEF CancelStep, CancelReads, CancelWrites, CancelReleases,
         CancelUnstages, CancelHangsUp, KeepAllButClient
    <2>3. \A k \in JobId : jobs'[k] = jobs[k] \/ jobs'[k].state \in {"cancelled", "queued"}
      <3>1. CASE CancelWrites(c)
        <4>1. jobs' = jobs \/ jobs' = [jobs EXCEPT ![client[c].job].state = "cancelled"]
          BY <3>1 DEF CancelWrites, CancelJob, storeVars
        <4> QED
          BY <1>1, <2>1, <4>1 DEF StoreTypeOK, JobRow
      <3>2. CASE CancelReads(c) \/ CancelReleases(c) \/ CancelUnstages(c) \/ CancelHangsUp(c)
        BY <3>2 DEF CancelReads, CancelReleases, CancelUnstages, CancelHangsUp,
           SetMediaStatus, storeVars
      <3> QED
        BY <1>2, <3>1, <3>2 DEF CancelStep
    <2>4. \A k \in JobId : stagingFile'[k] = stagingFile[k] \/ stagingFile'[k] = "none"
      BY <1>1, <1>2, <2>1 DEF CancelStep, CancelReads, CancelWrites, CancelReleases,
         CancelUnstages, CancelHangsUp, RemoveStaging
    <2> QED
      BY <2>1, <2>2, <2>3, <2>4
  <1>3. CASE \/ \E c \in Clients, j \in JobId : CancelCall(c, j)
             \/ \E b \in BOOLEAN : SetPaused(b)
    BY <1>3 DEF CancelCall, SetPaused, KeepAllButClient, storeVars, diskVars, memVars
  <1>4. ASSUME NEW f \in Files, NEW p \in EnqueuePriorities, Enqueue(f, p)
        PROVE  \A k \in JobId : jobs'[k] = jobs[k] \/ jobs'[k].state \in {"cancelled", "queued"}
    BY <1>1, <1>4 DEF Enqueue, EnqueueJob, StoreTypeOK
  <1>5. ASSUME NEW j \in JobId, Restart(j)
        PROVE  \A k \in JobId : jobs'[k] = jobs[k] \/ jobs'[k].state \in {"cancelled", "queued"}
    BY <1>1, <1>5, RestartRow DEF Restart
  <1>6. CASE \/ \E f \in Files, p \in EnqueuePriorities : Enqueue(f, p)
             \/ \E j \in JobId : Restart(j)
    <2>1. UNCHANGED <<mode, worker, pending, rec, landed, left, stagingFile>> /\ mode = "up"
      BY <1>6 DEF Enqueue, Restart, KeepAllButStore, diskVars, memVars
    <2> QED
      BY <1>4, <1>5, <1>6, <2>1
  <1> QED
    BY <1>2, <1>3, <1>6

\* No handler undoes what LandedRows says.
LEMMA LandedApi ==
    ASSUME Base, Lists, LandedRows,
           \/ \E c \in Clients : CancelStep(c) \/ CancelHangsUp(c)
           \/ \E c \in Clients, j \in JobId : CancelCall(c, j)
           \/ \E f \in Files, p \in EnqueuePriorities : Enqueue(f, p)
           \/ \E j \in JobId : Restart(j)
           \/ \E b \in BOOLEAN : SetPaused(b)
    PROVE  LandedRows'
  <1>1. /\ UNCHANGED <<mode, worker, pending, rec, landed, left>> /\ mode = "up"
        /\ \A k \in JobId : jobs'[k] = jobs[k] \/ jobs'[k].state \in {"cancelled", "queued"}
        /\ \A k \in JobId : stagingFile'[k] = stagingFile[k] \/ stagingFile'[k] = "none"
    BY ApiFrame
  <1>2. worker.pc \in WhilePromoting => worker.job \in JobId
    BY DEF Base, TypeOK, Holders, WorkerRecord, WhilePromoting
  <1> QED
    BY <1>1, <1>2 DEF LandedRows, State

\* Recovery requeues no row that landed and stages none.
LEMMA LandedRecover ==
    ASSUME Base, Lists, LandedRows, Recover \/ Crash
    PROVE  LandedRows'
  <1>1. /\ StoreTypeOK /\ rec \in RecoveryRecord /\ worker' = Idle
        /\ stagingFile \in [JobId -> {"none", "partial", "whole"}]
    BY RecoverHoldsNothing DEF Base, TypeOK
  <1>2. ASSUME landed' = landed,
               \A k \in JobId : stagingFile'[k] = stagingFile[k] \/ stagingFile'[k] = "none",
               \A k \in JobId : jobs'[k] = jobs[k]
                                \/ jobs'[k].state \notin {"running", "verifying"},
               \A j \in rec'.intact : ~landed[j]
        PROVE  LandedRows'
    BY <1>1, <1>2 DEF LandedRows, State, Idle, BeforeRename, WhilePromoting
  <1>3. CASE Crash
    BY <1>2, <1>3 DEF Crash, storeVars, diskVars, NoRecovery
  <1>4. CASE Boot \/ SweepCommits \/ SweepOrphans
    <2>1. rec'.intact \subseteq rec.intact
      BY <1>1, <1>4 DEF Boot, SweepCommits, SweepOrphans, RecoveryRecord, NoRecovery
    <2> QED
      BY <1>1, <1>2, <1>4, <2>1 DEF Boot, SweepCommits, SweepOrphans, storeVars, diskVars,
         LandedRows
  <1>5. ASSUME NEW j \in JobId, SweepOne(j) \/ RecoverRequeues(j)
        PROVE  LandedRows'
    <2>1. /\ landed' = landed /\ stagingFile' = stagingFile
          /\ rec'.intact \subseteq rec.intact
      <3>1. CASE SweepOne(j)
        BY <1>1, <3>1 DEF SweepOne, diskVars, RecoveryRecord
      <3>2. CASE RecoverRequeues(j)
        BY <1>1, <3>2 DEF RecoverRequeues, diskVars, RecoveryRecord
      <3> QED
        BY <1>5, <3>1, <3>2
    <2>2. \A k \in JobId : jobs'[k] = jobs[k] \/ jobs'[k].state \notin {"running", "verifying"}
      BY <1>1, <1>5, RequeueRow DEF SweepOne, RecoverRequeues
    <2> QED
      BY <1>2, <2>1, <2>2 DEF LandedRows
  <1>6. ASSUME NEW j \in JobId, RecoverUnstages(j) \/ RecoverResumes(j) \/ RecoverErrs(j)
        PROVE  LandedRows'
    <2>1. /\ landed' = landed /\ jobs' = jobs /\ rec'.intact = rec.intact
          /\ \A k \in JobId : stagingFile'[k] = stagingFile[k] \/ stagingFile'[k] = "none"
      BY <1>1, <1>6 DEF RecoverUnstages, RecoverResumes, RecoverErrs, RemoveStaging,
         storeVars, diskVars, RecoveryRecord
    <2> QED
      BY <1>2, <2>1 DEF LandedRows
  <1>7. ASSUME NEW j \in JobId, RecoverIntact(j)
        PROVE  LandedRows'
    <2>1. /\ landed' = landed /\ jobs' = jobs /\ rec'.intact = rec.intact \union {j}
          /\ ~landed[j]
          /\ \A k \in JobId : stagingFile'[k] = stagingFile[k] \/ stagingFile'[k] = "none"
      BY <1>1, <1>7 DEF RecoverIntact, RemoveStaging, storeVars, RecoveryRecord
    <2> QED
      BY <1>2, <2>1 DEF LandedRows
  <1>8. ASSUME NEW j \in JobId, RecoverPromoted(j) \/ RecoverUndecidable(j)
        PROVE  LandedRows'
    <2>1. landed' = landed /\ stagingFile' = stagingFile /\ rec'.intact = rec.intact
      BY <1>1, <1>8 DEF RecoverPromoted, RecoverUndecidable, diskVars, RecoveryRecord
    <2>2. \A k \in JobId : jobs'[k] = jobs[k] \/ jobs'[k].state \notin {"running", "verifying"}
      <3>1. CASE RecoverPromoted(j)
        BY <1>1, <3>1 DEF RecoverPromoted, RecordPromotion, StoreTypeOK, JobRow
      <3>2. CASE RecoverUndecidable(j)
        BY <1>1, <3>2 DEF RecoverUndecidable, FailJob, StoreTypeOK, JobRow
      <3> QED
        BY <1>8, <3>1, <3>2
    <2> QED
      BY <1>2, <2>1, <2>2 DEF LandedRows
  <1> QED
    BY <1>3, <1>4, <1>5, <1>6, <1>7, <1>8 DEF Recover

-----------------------------------------------------------------------------
(* No staging file is lost or left over. *)

StagingSafe == StagingKept /\ StagingFollowsRows

\* What a worker step does to a staging file the worker does not hold: nothing.
LEMMA StagingElsewhere ==
    ASSUME Base, Lists, StagingSafe, Worker,
           \A k \in JobId \ {worker.job} : jobs'[k] = jobs[k] /\ stagingFile'[k] = stagingFile[k],
           mode' = "up", mode = "up",
           \A c \in Clients :
              \/ client'[c] = client[c]
              \/ client[c].pc = "waiting" /\ client'[c].pc = "idle",
           \A k \in JobId \ {worker.job} : k \in left => k \in left',
           \A k \in Resuming : k = worker'.job \/ k \in Resuming' \/ State(k) # "awaiting_stream_end",
           Resuming' \subseteq Resuming,
           worker.job \in JobId =>
              \/ worker'.job = worker.job
              \/ stagingFile'[worker.job] = "none"
              \/ worker.job \in left',
           worker'.pc \in {"renamed", "settle"} => stagingFile'[worker'.job] = "none",
           worker'.pc \in {"cancelRow", "release", "failRow", "clear"} =>
              stagingFile'[worker'.job] = "none" \/ worker'.job \in left'
    PROVE  StagingSafe'
  <1>1. worker.job \notin Resuming /\ Resuming \subseteq JobId
    <2>1. worker.job \notin Resuming
      BY DEF Lists, PendingOnce
    <2>2. pending \in Seq(JobId)
      BY DEF Base, TypeOK
    <2> QED
      BY <2>1, <2>2 DEF Resuming
  <1>2. \A c \in Clients, j \in JobId : Removes(c, j) => Removes(c, j)'
    BY DEF Removes
  <1>3. ASSUME NEW j \in Resuming', State(j)' = "awaiting_stream_end"
        PROVE  /\ jobs'[j].staged /\ stagingFile'[j] = "whole"
               /\ \A c \in Clients : client'[c].job = j =>
                     /\ client'[c].pc \notin {"releasing", "unstaging"}
                     /\ client'[c].pc = "cancelling" => client'[c].staged
    <2>1. j \in Resuming /\ j \in JobId \ {worker.job}
      BY <1>1
    <2>2. jobs'[j] = jobs[j] /\ stagingFile'[j] = stagingFile[j]
      BY <2>1
    <2> QED
      BY <1>3, <2>1, <2>2 DEF StagingSafe, StagingKept, State
  <1>4. ASSUME NEW j \in Resuming', stagingFile'[j] # "none", State(j)' # "awaiting_stream_end"
        PROVE  \E c \in Clients : Removes(c, j)'
    <2>1. j \in Resuming /\ j \in JobId \ {worker.job}
      BY <1>1
    <2>2. jobs'[j] = jobs[j] /\ stagingFile'[j] = stagingFile[j]
      BY <2>1
    <2> QED
      BY <1>2, <1>4, <2>1, <2>2 DEF StagingSafe, StagingKept, State
  <1>5. ASSUME NEW j \in JobId, stagingFile'[j] # "none"
        PROVE  \/ worker'.job = j
               \/ j \in Resuming'
               \/ j \in left'
               \/ \E c \in Clients : Removes(c, j)'
    <2>1. CASE j = worker.job
      BY <1>5, <2>1
    <2>2. CASE j # worker.job
      <3>1. \/ j \in Resuming
            \/ j \in left
            \/ \E c \in Clients : Removes(c, j)
        BY <1>5, <2>2 DEF StagingSafe, StagingFollowsRows, Removes
      <3>2. CASE j \in Resuming /\ State(j) # "awaiting_stream_end"
        BY <1>2, <1>5, <2>2, <3>2 DEF StagingSafe, StagingKept
      <3> QED
        BY <1>2, <2>2, <3>1, <3>2
    <2> QED
      BY <2>1, <2>2
  <1>6. StagingKept'
    BY <1>3, <1>4 DEF StagingKept, State
  <1>7. StagingFollowsRows'
    BY <1>3, <1>5 DEF StagingFollowsRows, Removes, State
  <1> QED
    BY <1>6, <1>7 DEF StagingSafe

\* The worker leaves no staging file behind unrecorded.
LEMMA StagingWorker ==
    ASSUME Base, Lists, LandedRows, StagingSafe, Worker
    PROVE  StagingSafe'
  <1>1. /\ worker.pc \notin {"idle", "polled"} => worker.job \in JobId
        /\ worker.pc \in {"idle", "polled"} => worker.job \notin JobId
        /\ worker \in WorkerRecord /\ StoreTypeOK /\ pending \in Seq(JobId)
        /\ stagingFile \in [JobId -> {"none", "partial", "whole"}]
        /\ landed \in [JobId -> BOOLEAN] /\ left \in SUBSET JobId
    BY NoJobIsNone DEF Base, TypeOK, Holders, WorkerRecord
  <1>2. CASE Claim
    <2>1. Resuming = {} /\ Resuming' = {} /\ worker.job \notin JobId
      <3>1. At("polled") /\ pending' = pending
        BY <1>2 DEF Claim, KeepAllButWorker
      <3>2. pending = <<>>
        BY <3>1 DEF At, Lists, PendingOnce
      <3> QED
        BY <1>1, <3>1, <3>2 DEF At, Resuming
    <2>2. UNCHANGED <<stagingFile, left, client, mode>> /\ mode = "up"
      BY <1>2 DEF Claim, At, KeepAllButWorker
    <2>3. worker'.pc \in {"idle", "claimed"}
      <3>1. Idle.pc = "idle" /\ \A j : [Idle EXCEPT !.pc = "claimed", !.job = j].pc = "claimed"
        BY DEF Idle
      <3> QED
        BY <1>2, <3>1 DEF Claim
    <2> QED
      BY <2>1, <2>2, <2>3 DEF StagingSafe, StagingKept, StagingFollowsRows
  <1>3. CASE PopPending
    <2>1. /\ UNCHANGED <<jobs, stagingFile, left, client, mode>> /\ mode = "up"
          /\ worker.job \notin JobId /\ worker'.pc \in {"idle", "resuming"}
      BY <1>1, <1>3 DEF PopPending, At, storeVars, diskVars, Idle
    <2>2. \A k \in Resuming : k = Head(pending) \/ k \in Resuming'
      BY <1>1, <1>3, ResumingTail DEF PopPending
    <2>3. Resuming' \subseteq Resuming
      BY <1>1, <1>3, OnceTail DEF PopPending, Lists, PendingOnce
    <2>4. State(Head(pending)) = "awaiting_stream_end" => worker'.job = Head(pending)
      BY <1>3 DEF PopPending, Idle
    <2> QED
      BY <2>1, <2>2, <2>3, <2>4, StagingElsewhere
  <1>4. CASE ClearRunning
    <2>1. /\ UNCHANGED <<stagingFile, left, pending>> /\ worker'.pc = "idle"
          /\ worker.pc = "clear"
          /\ \A c \in Clients :
                \/ client'[c] = client[c]
                \/ client[c].pc = "waiting" /\ client'[c].pc = "idle"
      BY <1>4 DEF ClearRunning, At, diskVars, Idle, NoCancel
    <2>2. stagingFile[worker.job] = "none" \/ worker.job \in left
      BY <2>1 DEF StagingSafe, StagingKept
    <2>3. Resuming' = Resuming
      BY <2>1 DEF Resuming
    <2>4. \A k \in JobId \ {worker.job} : jobs'[k] = jobs[k] /\ stagingFile'[k] = stagingFile[k]
      BY <1>4 DEF ClearRunning, storeVars, diskVars
    <2>5. mode = "up" /\ mode' = "up"
      BY <1>4 DEF ClearRunning, At
    <2> QED
      BY <2>1, <2>2, <2>3, <2>4, <2>5, StagingElsewhere
  <1>5. CASE ~Claim /\ ~PopPending /\ ~ClearRunning
    <2>1. worker'.job = worker.job /\ pending' = pending /\ client' = client
      BY <1>5, WorkerKeepsJob
    <2>2. /\ mode = "up" /\ mode' = "up"
          /\ \A k \in JobId \ {worker.job} :
                jobs'[k] = jobs[k] /\ stagingFile'[k] = stagingFile[k]
      BY <1>5, WorkerFrame
    <2>3. Resuming' = Resuming
      BY <2>1 DEF Resuming
    <2>4. ASSUME \A k \in JobId \ {worker.job} : k \in left => k \in left',
                 worker'.pc \in {"renamed", "settle"} => stagingFile'[worker.job] = "none",
                 worker'.pc \in {"cancelRow", "release", "failRow", "clear"} =>
                    stagingFile'[worker.job] = "none" \/ worker.job \in left'
          PROVE  StagingSafe'
      BY <2>1, <2>2, <2>3, <2>4, StagingElsewhere
    <2>5. /\ worker.pc \in {"renamed", "settle"} => stagingFile[worker.job] = "none"
          /\ worker.pc \in {"cancelRow", "release", "failRow", "clear"} =>
                stagingFile[worker.job] = "none" \/ worker.job \in left
      BY DEF StagingSafe, StagingKept
    <2>6. CASE PollQueue \/ MarkRunning \/ Prepare \/ PrepareFails \/ Rebuild
      <3>1. left' = left
        BY <2>6 DEF PollQueue, MarkRunning, Prepare, PrepareFails, Rebuild, diskVars
      <3>2. worker'.pc \notin {"renamed", "settle", "cancelRow", "release", "failRow", "clear"}
        BY <1>1, <2>6 DEF PollQueue, MarkRunning, Prepare, PrepareFails, Rebuild, Goto,
           Unwind, WorkerRecord
      <3> QED
        BY <2>4, <3>1, <3>2
    <2>7. CASE Verify \/ VerifyFails \/ RetryGuard \/ StreamClear \/ StopsEarly
               \/ EnterVerifying \/ EnterPromoting \/ Blocked
      <3>1. left' = left
        BY <2>7 DEF Verify, VerifyFails, RetryGuard, StreamClear, StopsEarly,
           EnterVerifying, EnterPromoting, Blocked, diskVars
      <3>2. worker'.pc \notin {"renamed", "settle", "cancelRow", "release", "failRow", "clear"}
        BY <1>1, <2>7 DEF Verify, VerifyFails, RetryGuard, StreamClear, StopsEarly,
           EnterVerifying, EnterPromoting, Blocked, Goto, Unwind, WorkerRecord
      <3> QED
        BY <2>4, <3>1, <3>2
    <2>8. CASE Launch \/ Encode
      BY <1>1, <2>4, <2>8 DEF Launch, Encode, Goto, WorkerRecord
    <2>9. CASE Rename
      BY <1>1, <2>4, <2>9 DEF Rename, At, Goto, WorkerRecord
    <2>10. CASE Restore \/ Settle
      BY <1>1, <2>4, <2>5, <2>10 DEF Restore, Settle, At, Goto, diskVars, WorkerRecord
    <2>11. CASE FinishCancelled \/ FinishFailed
      <3>1. LeaveBehind /\ worker.job \in JobId /\ worker'.pc \in {"cancelRow", "failRow"}
        BY <1>1, <2>11 DEF FinishCancelled, FinishFailed, At, Goto, WorkerRecord
      <3> QED
        BY <1>1, <2>4, <3>1 DEF LeaveBehind
    <2>12. CASE FinishCancelledRow \/ FinishFailedRow \/ ReleaseMedia
      BY <1>1, <2>4, <2>5, <2>12 DEF FinishCancelledRow, FinishFailedRow, ReleaseMedia, At,
         Goto, diskVars, WorkerRecord
    <2> QED
      BY <1>5, <2>6, <2>7, <2>8, <2>9, <2>10, <2>11, <2>12 DEF Worker
  <1> QED
    BY <1>2, <1>3, <1>4, <1>5

\* A Cancel call takes a staging file away only after its own write moved the row.
LEMMA StagingCancel ==
    ASSUME Base, Lists, StagingSafe, NEW c \in Clients,
           CancelStep(c) \/ CancelHangsUp(c) \/ \E j \in JobId : CancelCall(c, j)
    PROVE  StagingSafe'
  <1>1. /\ StoreTypeOK /\ Resuming \subseteq JobId
        /\ stagingFile \in [JobId -> {"none", "partial", "whole"}]
        /\ client \in [Clients -> ClientRecord] /\ client[c] \in ClientRecord
        /\ client[c].pc # "idle" => client[c].job \in JobId
    BY DEF Base, TypeOK, Holders, ClientRecord, Resuming
  <1>2. /\ UNCHANGED <<mode, worker, pending, rec, landed, left>> /\ mode = "up"
        /\ \A k \in JobId : jobs'[k] = jobs[k] \/ jobs'[k].state \in {"cancelled", "queued"}
        /\ \A k \in JobId : stagingFile'[k] = stagingFile[k] \/ stagingFile'[k] = "none"
    BY ApiFrame
  <1>3. \A d \in Clients \ {c} : client'[d] = client[d]
    BY <1>1 DEF CancelStep, CancelReads, CancelWrites, CancelReleases, CancelUnstages,
       CancelHangsUp, CancelCall
  <1>4. /\ client'[c].job = client[c].job \/ client'[c].pc \in {"idle", "waiting", "reading"}
        /\ client'[c].pc = "cancelling" =>
              client[c].pc = "reading" /\ client'[c].staged = jobs[client[c].job].staged
        /\ client'[c].pc = "releasing" =>
              /\ client[c].pc = "cancelling" /\ client'[c].staged = client[c].staged
              /\ jobs'[client[c].job].state = "cancelled"
        /\ client'[c].pc = "unstaging" =>
              client[c].pc = "releasing" /\ client'[c].staged = client[c].staged
        /\ client[c].pc = "releasing" => client'[c].pc = "unstaging"
        /\ client[c].pc = "unstaging" /\ client[c].staged =>
              stagingFile'[client[c].job] = "none"
        /\ \A k \in JobId :
              stagingFile'[k] = stagingFile[k] \/ (Removes(c, k) /\ client[c].pc = "unstaging")
        /\ \A k \in JobId :
              jobs'[k] = jobs[k]
              \/ (client[c].job = k /\ client[c].pc = "cancelling" /\ client'[c].pc = "releasing")
    <2>1. CASE CancelReads(c)
      BY <1>1, <2>1 DEF CancelReads, storeVars, ClientRecord
    <2>2. CASE CancelWrites(c)
      <3>1. CASE ~CancelJobFinds(client[c].job) /\ client' = [client EXCEPT ![c] = NoCancel] /\ UNCHANGED storeVars
        BY <1>1, <2>2, <3>1 DEF CancelWrites, storeVars, ClientRecord, NoCancel
      <3>2. CASE CancelJob(client[c].job) /\ client' = [client EXCEPT ![c].pc = "releasing"]
        BY <1>1, <2>2, <3>2 DEF CancelWrites, CancelJob, ClientRecord, StoreTypeOK, JobRow
      <3> QED
        BY <2>2, <3>1, <3>2 DEF CancelWrites
    <2>3. CASE CancelReleases(c)
      BY <1>1, <2>3 DEF CancelReleases, SetMediaStatus, ClientRecord
    <2>4. CASE CancelUnstages(c)
      BY <1>1, <2>4 DEF CancelUnstages, RemoveStaging, Removes, storeVars, ClientRecord, NoCancel
    <2>5. CASE CancelHangsUp(c)
      BY <1>1, <2>5 DEF CancelHangsUp, storeVars, ClientRecord, NoCancel
    <2>6. CASE \E j \in JobId : CancelCall(c, j)
      <3>1. client[c].pc = "idle" /\ UNCHANGED <<jobs, stagingFile>>
        BY <2>6 DEF CancelCall, storeVars
      <3>2. client'[c].pc \in {"waiting", "reading"}
        BY <1>1, <2>6 DEF CancelCall, NoCancel
      <3> QED
        BY <3>1, <3>2
    <2> QED
      BY <2>1, <2>2, <2>3, <2>4, <2>5, <2>6 DEF CancelStep
  <1>5. Resuming' = Resuming
    BY <1>2 DEF Resuming
  <1>6. ASSUME NEW j \in JobId, stagingFile'[j] # "none", NEW d \in Clients, Removes(d, j)
        PROVE  Removes(d, j)'
    <2>1. CASE d # c
      BY <1>3, <1>6, <2>1 DEF Removes
    <2>2. CASE d = c
      BY <1>4, <1>6, <2>2 DEF Removes
    <2> QED
      BY <2>1, <2>2
  <1>7. ASSUME NEW j \in Resuming, State(j)' = "awaiting_stream_end"
        PROVE  /\ jobs'[j].staged /\ stagingFile'[j] = "whole"
               /\ \A d \in Clients : client'[d].job = j =>
                     /\ client'[d].pc \notin {"releasing", "unstaging"}
                     /\ client'[d].pc = "cancelling" => client'[d].staged
    <2>1. jobs'[j] = jobs[j] /\ State(j) = "awaiting_stream_end" /\ j \in JobId
      BY <1>1, <1>2, <1>7 DEF State
    <2>2. /\ jobs[j].staged /\ stagingFile[j] = "whole"
          /\ \A d \in Clients : client[d].job = j =>
                /\ client[d].pc \notin {"releasing", "unstaging"}
                /\ client[d].pc = "cancelling" => client[d].staged
      BY <2>1 DEF StagingSafe, StagingKept
    <2>3. stagingFile'[j] = "whole"
      BY <1>4, <2>1, <2>2 DEF Removes
    <2>4. client'[c].job = j =>
             /\ client'[c].pc \notin {"releasing", "unstaging"}
             /\ client'[c].pc = "cancelling" => client'[c].staged
      BY <1>4, <2>1, <2>2, <1>7 DEF State
    <2> QED
      BY <1>3, <2>1, <2>2, <2>3, <2>4
  <1>8. ASSUME NEW j \in Resuming, stagingFile'[j] # "none", State(j)' # "awaiting_stream_end"
        PROVE  \E d \in Clients : Removes(d, j)'
    <2>1. j \in JobId /\ stagingFile[j] # "none"
      BY <1>1, <1>2, <1>8
    <2>2. CASE State(j) # "awaiting_stream_end"
      BY <1>2, <1>6, <1>8, <2>1, <2>2 DEF StagingSafe, StagingKept
    <2>3. CASE State(j) = "awaiting_stream_end"
      <3>1. client[c].job = j /\ client[c].pc = "cancelling" /\ client'[c].pc = "releasing"
        BY <1>4, <1>8, <2>1, <2>3 DEF State
      <3>2. client[c].staged
        BY <2>3, <3>1 DEF StagingSafe, StagingKept
      <3> QED
        BY <1>4, <3>1, <3>2 DEF Removes
    <2> QED
      BY <2>2, <2>3
  <1>9. StagingKept'
    BY <1>1, <1>2, <1>5, <1>7, <1>8 DEF StagingSafe, StagingKept, State, Base, TypeOK, Holders, WorkerRecord
  <1>10. StagingFollowsRows'
    <2>1. ASSUME NEW j \in JobId, stagingFile'[j] # "none"
          PROVE  \/ worker'.job = j
                 \/ j \in Resuming'
                 \/ j \in left'
                 \/ \E d \in Clients : Removes(d, j)'
      BY <1>2, <1>5, <1>6, <2>1 DEF StagingSafe, StagingFollowsRows, Removes
    <2> QED
      BY <1>5, <1>7, <2>1 DEF StagingFollowsRows, Removes, State
  <1> QED
    BY <1>9, <1>10 DEF StagingSafe

\* Enqueue, Restart and SetPaused touch no staging file and no awaiting row.
LEMMA StagingUsers ==
    ASSUME Base, Lists, StagingSafe,
           \/ \E f \in Files, p \in EnqueuePriorities : Enqueue(f, p)
           \/ \E j \in JobId : Restart(j)
           \/ \E b \in BOOLEAN : SetPaused(b)
    PROVE  StagingSafe'
  <1>1. StoreTypeOK /\ Resuming \subseteq JobId
    BY DEF Base, TypeOK, Resuming
  <1>2. /\ UNCHANGED <<mode, worker, pending, left, client, stagingFile>>
        /\ \A k \in JobId :
              \/ jobs'[k] = jobs[k]
              \/ State(k) # "awaiting_stream_end" /\ jobs'[k].state = "queued"
    <2>1. ASSUME NEW f \in Files, NEW p \in EnqueuePriorities, Enqueue(f, p)
          PROVE  \A k \in JobId :
                    \/ jobs'[k] = jobs[k]
                    \/ State(k) # "awaiting_stream_end" /\ jobs'[k].state = "queued"
      BY <1>1, <2>1 DEF Enqueue, EnqueueJob, StoreTypeOK
    <2>2. ASSUME NEW j \in JobId, Restart(j)
          PROVE  \A k \in JobId :
                    \/ jobs'[k] = jobs[k]
                    \/ State(k) # "awaiting_stream_end" /\ jobs'[k].state = "queued"
      <3>1. jobs'[j].state = "queued" /\ \A k \in JobId \ {j} : jobs'[k] = jobs[k]
        BY <1>1, <2>2, RestartRow DEF Restart
      <3>2. State(j) # "awaiting_stream_end"
        BY <2>2 DEF Restart, RestartJob
      <3> QED
        BY <3>1, <3>2
    <2>3. ASSUME NEW b \in BOOLEAN, SetPaused(b)
          PROVE  jobs' = jobs
      BY <2>3 DEF SetPaused, storeVars
    <2> QED
      BY <2>1, <2>2, <2>3 DEF Enqueue, Restart, SetPaused, KeepAllButStore, memVars, diskVars
  <1>3. Resuming' = Resuming
    BY <1>2 DEF Resuming
  <1>4. StagingKept'
    BY <1>1, <1>2, <1>3 DEF StagingSafe, StagingKept, State, Removes
  <1>5. StagingFollowsRows'
    BY <1>1, <1>2, <1>3 DEF StagingSafe, StagingFollowsRows, State
  <1> QED
    BY <1>4, <1>5 DEF StagingSafe

\* Recovery keeps the staging file of every promotion it will resume and no other.
LEMMA StagingRecover ==
    ASSUME Base, Lists, StagingSafe, Recover \/ Crash
    PROVE  StagingSafe'
  <1>1. /\ worker' = Idle /\ \A c \in Clients : client'[c].pc = "idle"
        /\ StoreTypeOK /\ Resuming \subseteq JobId /\ rec \in RecoveryRecord
        /\ pending \in Seq(JobId) /\ stagingFile \in [JobId -> {"none", "partial", "whole"}]
    BY RecoverHoldsNothing DEF Base, TypeOK, Resuming
  <1>2. ASSUME \A j \in Resuming' : State(j)' = "awaiting_stream_end" =>
                  jobs'[j].staged /\ stagingFile'[j] = "whole",
               mode' = "up" =>
                  \A j \in JobId : stagingFile'[j] # "none" =>
                     j \in Resuming' /\ State(j)' = "awaiting_stream_end",
               Resuming' \subseteq JobId
        PROVE  StagingSafe'
    BY <1>1, <1>2 DEF StagingSafe, StagingKept, StagingFollowsRows, Idle
  <1>3. CASE mode' # "up" /\ pending' = <<>>
    BY <1>2, <1>3 DEF Resuming
  <1>4. CASE Crash
    BY <1>3, <1>4 DEF Crash
  <1>5. CASE Boot
    BY <1>3, <1>5 DEF Boot, Base, RecoveryOwn
  <1>6. CASE SweepCommits
    BY <1>3, <1>6 DEF SweepCommits, Base, RecoveryOwn
  <1>7. ASSUME NEW j \in JobId, SweepOne(j)
        PROVE  StagingSafe'
    BY <1>3, <1>7 DEF SweepOne, Base, RecoveryOwn
  <1>8. CASE SweepOrphans
    <2>1. /\ mode = "recover" /\ jobs' = jobs /\ Resuming' = Resuming
          /\ \A j \in JobId : stagingFile'[j] = IF j \in rec.keep THEN stagingFile[j] ELSE "none"
      BY <1>8 DEF SweepOrphans, storeVars, Resuming
    <2>2. /\ Resuming = rec.keep
          /\ \A j \in Resuming : State(j) = "awaiting_stream_end"
      BY <2>1 DEF Lists, RecoveryLists
    <2> QED
      BY <1>1, <1>2, <2>1, <2>2 DEF StagingSafe, StagingKept, State
  <1>9. ASSUME NEW j \in JobId, mode = "recover", mode' = "recover",
               j \in rec.unstage \union rec.check, Resuming' = Resuming,
               \A k \in JobId \ {j} : jobs'[k] = jobs[k] /\ stagingFile'[k] = stagingFile[k]
        PROVE  StagingSafe'
    <2>1. j \notin Resuming
      BY <1>9 DEF Lists, RecoveryLists
    <2>2. \A k \in Resuming : jobs'[k] = jobs[k] /\ stagingFile'[k] = stagingFile[k]
      BY <1>1, <1>9, <2>1
    <2> QED
      BY <1>1, <1>2, <1>9, <2>2 DEF StagingSafe, StagingKept, State
  <1>10. ASSUME NEW j \in JobId, RecoverUnstages(j) \/ RecoverIntact(j) \/ RecoverErrs(j)
         PROVE  StagingSafe'
    <2>1. /\ mode = "recover" /\ mode' = "recover" /\ pending' = pending /\ jobs' = jobs
          /\ j \in rec.unstage \union rec.check
      BY <1>10 DEF RecoverUnstages, RecoverIntact, RecoverErrs, RecoverNext, storeVars
    <2>2. \A k \in JobId \ {j} : stagingFile'[k] = stagingFile[k]
      BY <1>1, <1>10 DEF RecoverUnstages, RecoverIntact, RecoverErrs, RemoveStaging,
         diskVars
    <2> QED
      BY <1>9, <2>1, <2>2 DEF Resuming
  <1>11. ASSUME NEW j \in JobId,
                RecoverRequeues(j) \/ RecoverPromoted(j) \/ RecoverUndecidable(j)
         PROVE  StagingSafe'
    <2>1. /\ mode = "recover" /\ mode' = "recover" /\ j \in rec.check
          /\ pending' = pending /\ stagingFile' = stagingFile
      BY <1>11 DEF RecoverRequeues, RecoverPromoted, RecoverUndecidable, RecoverNext,
         diskVars, Base, RecoveryOwn
    <2>2. \A k \in JobId \ {j} : jobs'[k] = jobs[k]
      BY <1>1, <1>11, RequeueRow DEF RecoverRequeues, RecoverPromoted, RecoverUndecidable,
         RecordPromotion, FailJob, StoreTypeOK
    <2> QED
      BY <1>9, <2>1, <2>2 DEF Resuming
  <1>12. ASSUME NEW j \in JobId, RecoverResumes(j)
         PROVE  StagingSafe'
    <2>1. /\ mode' = "recover" /\ jobs' = jobs /\ stagingFile' = stagingFile
          /\ jobs[j].staged /\ stagingFile[j] = "whole" /\ j \notin Resuming
      BY <1>12 DEF RecoverResumes, RecoverNext, storeVars, diskVars, Lists, RecoveryLists
    <2>2. Resuming' = Resuming \union {j}
      BY <1>1, <1>12, <2>1, OnceAppend DEF RecoverResumes, Lists, PendingOnce
    <2> QED
      BY <1>1, <1>2, <2>1, <2>2 DEF StagingSafe, StagingKept, State
  <1> QED
    BY <1>4, <1>5, <1>6, <1>7, <1>8, <1>10, <1>11, <1>12 DEF Recover

\* The disk agrees with the rows: what lands lands once, and no staging file is lost
\* or left over.
THEOREM DiskHolds == Spec => [](LandedRows /\ StagingSafe)
  <1>1. Init => LandedRows /\ StagingSafe
    <2> SUFFICES ASSUME Init
                 PROVE  LandedRows /\ StagingSafe
      OBVIOUS
    <2>1. /\ worker.pc = "idle" /\ rec.intact = {} /\ mode = "down" /\ Resuming = {}
          /\ \A j \in JobId : ~landed[j] /\ stagingFile[j] = "none"
      BY DEF Init, Idle, NoRecovery, Resuming
    <2> QED
      BY <2>1 DEF LandedRows, StagingSafe, StagingKept, StagingFollowsRows, BeforeRename,
         WhilePromoting
  <1>2. Base /\ Lists /\ LandedRows /\ StagingSafe /\ [Next]_vars => (LandedRows /\ StagingSafe)'
    <2> SUFFICES ASSUME Base, Lists, LandedRows, StagingSafe, [Next]_vars
                 PROVE  LandedRows' /\ StagingSafe'
      OBVIOUS
    <2>1. CASE UNCHANGED vars
      <3>1. UNCHANGED <<jobs, landed, stagingFile, left, mode, worker, pending, rec, client>>
        BY <2>1 DEF vars, storeVars, diskVars, memVars
      <3>2. Resuming' = Resuming
        BY <3>1 DEF Resuming
      <3> QED
        BY <3>1, <3>2 DEF LandedRows, StagingSafe, StagingKept, StagingFollowsRows, State,
           Removes
    <2>2. CASE Worker
      BY <2>2, LandedWorker, StagingWorker DEF StagingSafe
    <2>3. CASE Recover \/ Crash
      BY <2>3, LandedRecover, StagingRecover
    <2>4. ASSUME NEW c \in Clients, CancelStep(c) \/ CancelHangsUp(c) \/ \E j \in JobId : CancelCall(c, j)
          PROVE  LandedRows' /\ StagingSafe'
      BY <2>4, LandedApi, StagingCancel
    <2>5. CASE \/ \E f \in Files, p \in EnqueuePriorities : Enqueue(f, p)
               \/ \E j \in JobId : Restart(j)
               \/ \E b \in BOOLEAN : SetPaused(b)
      BY <2>5, LandedApi, StagingUsers
    <2> QED
      BY <2>1, <2>2, <2>3, <2>4, <2>5 DEF Next
  <1> QED
    BY <1>1, <1>2, BaseHolds, ListsHold, PTL DEF Spec

\* A promotion waiting to be resumed has its whole output on disk, and a staging file
\* on disk while serving is in use, about to be removed or on record.
THEOREM StagingFollows == Spec => []StagingFollowsRows
  <1>1. StagingSafe => StagingFollowsRows
    BY DEF StagingSafe
  <1> QED
    BY <1>1, DiskHolds, PTL

-----------------------------------------------------------------------------
(* Two promises about steps. *)

\* Recovery requeues a row only if it was interrupted before its rename.
LEMMA NeverRequeuedStep ==
    ASSUME Base, Lists, LandedRows, Next
    PROVE  \A j \in JobId :
              (mode # "up" /\ landed[j] /\ State(j) # "queued") => State(j)' # "queued"
  <1> SUFFICES ASSUME NEW j \in JobId, mode # "up", landed[j], State(j) # "queued"
               PROVE  State(j)' # "queued"
    OBVIOUS
  <1>1. StoreTypeOK /\ rec \in RecoveryRecord
    BY DEF Base, TypeOK
  <1>2. ASSUME \A k \in JobId : jobs'[k] = jobs[k] \/ ~landed[k] \/ jobs'[k].state # "queued"
        PROVE  State(j)' # "queued"
    BY <1>2 DEF State
  <1>3. CASE Worker
    BY <1>3, WorkerFrame DEF Claim, At
  <1>4. CASE \/ \E c \in Clients : CancelStep(c) \/ CancelHangsUp(c)
             \/ \E c \in Clients, k \in JobId : CancelCall(c, k)
             \/ \E f \in Files, p \in EnqueuePriorities : Enqueue(f, p)
             \/ \E k \in JobId : Restart(k)
             \/ \E b \in BOOLEAN : SetPaused(b)
    BY <1>4, ApiFrame
  <1>5. CASE Crash \/ Boot \/ SweepCommits \/ SweepOrphans
    BY <1>2, <1>5 DEF Crash, Boot, SweepCommits, SweepOrphans, storeVars
  <1>6. ASSUME NEW k \in JobId, SweepOne(k) \/ RecoverRequeues(k)
        PROVE  State(j)' # "queued"
    <2>1. ~landed[k]
      BY <1>6 DEF SweepOne, Swept, RecoverRequeues, LandedRows
    <2>2. \A i \in JobId \ {k} : jobs'[i] = jobs[i]
      BY <1>1, <1>6, RequeueRow DEF SweepOne, RecoverRequeues
    <2> QED
      BY <1>2, <2>1, <2>2
  <1>7. ASSUME NEW k \in JobId,
               RecoverUnstages(k) \/ RecoverResumes(k) \/ RecoverIntact(k) \/ RecoverErrs(k)
        PROVE  State(j)' # "queued"
    BY <1>2, <1>7 DEF RecoverUnstages, RecoverResumes, RecoverIntact, RecoverErrs, storeVars
  <1>8. ASSUME NEW k \in JobId, RecoverPromoted(k) \/ RecoverUndecidable(k)
        PROVE  State(j)' # "queued"
    <2>1. CASE RecoverPromoted(k)
      BY <1>1, <1>2, <2>1 DEF RecoverPromoted, RecordPromotion, StoreTypeOK, JobRow
    <2>2. CASE RecoverUndecidable(k)
      BY <1>1, <1>2, <2>2 DEF RecoverUndecidable, FailJob, StoreTypeOK, JobRow
    <2> QED
      BY <1>8, <2>1, <2>2
  <1> QED
    BY <1>3, <1>4, <1>5, <1>6, <1>7, <1>8 DEF Next, Recover

\* Recovery never queues again a job whose output already replaced the source.
THEOREM LandedStays == Spec => LandedNeverRequeued
  <1>1. Base /\ Lists /\ LandedRows /\ [Next]_vars =>
           [\A j \in JobId :
              (mode # "up" /\ landed[j] /\ State(j) # "queued") => State(j)' # "queued"]_vars
    BY NeverRequeuedStep
  <1> QED
    BY <1>1, BaseHolds, ListsHold, DiskHolds, PTL DEF Spec, LandedNeverRequeued

\* The only step of the worker's that ends a wait is ClearRunning, and by then the
\* row is settled.
LEMMA SettledStep ==
    ASSUME Base, Accounted, RowsExist, Next, mode' = "up", worker' # worker,
           NEW c \in Clients, client[c].pc = "waiting", client'[c].pc # "waiting"
    PROVE  jobs'[client[c].job].state \in TerminalStates \union {"queued"}
  <1>1. mode = "up"
    BY DEF Base, RecoveryOwn
  <1>2. ~Recover /\ ~Crash
    BY RecoverHoldsNothing, <1>1 DEF Recover, Boot, SweepCommits, SweepOrphans, SweepOne,
       RecoverUnstages, RecoverResumes, RecoverIntact, RecoverRequeues, RecoverPromoted,
       RecoverErrs, RecoverUndecidable, RecoverNext, Crash
  <1>3. Worker
    BY <1>2, ApiFrame DEF Next
  <1>4. ClearRunning
    BY <1>3, WorkerKeepsJob DEF Claim, PopPending, KeepAllButWorker
  <1>5. client[c].job = worker.job /\ jobs' = jobs /\ worker.pc = "clear"
    BY <1>4 DEF ClearRunning, At, storeVars
  <1>6. worker.job \in JobId /\ StoreTypeOK
    BY <1>5, NoJobIsNone DEF Base, TypeOK, Holders, WorkerRecord
  <1>7. /\ State(worker.job) \notin InFlightJobStates /\ State(worker.job) # "absent"
        /\ State(worker.job) \in JobStates \union {"absent"}
    BY <1>5, <1>6, NoJobIsNone DEF Accounted, RowsExist, StoreTypeOK, JobRow, State
  <1> QED
    BY <1>5, <1>7 DEF State, JobStates, ActiveJobStates

\* When Cancel of a running job comes back, its row shows where the job ended.
THEOREM CancelSettles == Spec => CancelReturnsSettled
  <1>1. Base /\ Accounted /\ RowsExist /\ [Next]_vars =>
           [mode' = "up" => \A c \in Clients :
               client[c].pc = "waiting" /\ client'[c].pc # "waiting" /\ worker' # worker
               => jobs'[client[c].job].state \in TerminalStates \union {"queued"}]_vars
    BY SettledStep
  <1> QED
    BY <1>1, BaseHolds, AccountedHolds, HeldRowsExist, PTL DEF Spec, CancelReturnsSettled

-----------------------------------------------------------------------------
(* Why a Cancel comes back: the half of it that is not liveness. *)

\* The slot has the worker's job while the worker is inside withRunning; a Cancel call
\* waits only for a job that is in the slot and knows of the request.
SlotHeld ==
    /\ worker.pc \in SlotPoints <=> current.job # NoJob
    /\ current.job # NoJob => current.job = worker.job
    /\ current.requested => current.job # NoJob
    /\ \A c \in Clients : client[c].pc = "waiting" =>
          current.job = client[c].job /\ current.requested

\* How far into withRunning a program point is.
Point(pc) ==
    CASE pc \in {"prepare", "rebuild"} -> 1
      [] pc = "launch" -> 2       [] pc = "encoding" -> 3
      [] pc = "finalise" -> 4     [] pc = "probing" -> 5
      [] pc = "verify" -> 6       [] pc = "guard" -> 7
      [] pc = "deferred" -> 8     [] pc = "rename" -> 9
      [] pc = "renamed" -> 10     [] pc = "settle" -> 11
      [] pc = "unwind" -> 12      [] pc \in {"cancelRow", "failRow"} -> 13
      [] pc = "release" -> 14     [] pc = "clear" -> 15

\* The worker inside withRunning goes on or lets go of the slot, and then leaves nobody
\* waiting; it goes back only to ask Plex again, and not even that once somebody has
\* asked it to stop, which is not forgotten.
Onwards ==
    worker.pc \in SlotPoints =>
       \/ UNCHANGED worker /\ current'.job = current.job
          /\ (current.requested => current'.requested)
       \/ /\ worker'.pc \in SlotPoints /\ worker'.job = worker.job
          /\ current'.job = current.job /\ current'.requested = current.requested
          /\ \/ Point(worker'.pc) > Point(worker.pc)
             \/ worker.pc = "deferred" /\ worker'.pc = "guard" /\ ~current.requested
       \/ /\ worker' = Idle /\ current' = NoCurrent
          /\ \A c \in Clients : client'[c].pc # "waiting"
SlotMovesOn == [][Onwards]_vars

LEMMA SlotWorker ==
    ASSUME Base, SlotHeld, Worker
    PROVE  SlotHeld' /\ Onwards
  <1>1. /\ worker \in WorkerRecord
        /\ current \in [job : JobId \union {NoJob}, requested : BOOLEAN, staging : BOOLEAN]
        /\ worker.pc \in {"idle", "polled"} <=> worker.job = NoJob
        /\ client \in [Clients -> ClientRecord]
    BY DEF Base, TypeOK, Holders
  <1>2. CASE PopPending \/ PollQueue \/ Claim
    <2>1. /\ worker.pc \in {"idle", "polled"} /\ current' = current /\ client' = client
          /\ worker'.pc \in {"idle", "polled", "resuming", "claimed"}
      <3>1. CASE PopPending
        <4>1. /\ worker.pc = "idle" /\ current' = current /\ client' = client
              /\ \/ worker' = Idle
                 \/ worker' = [Idle EXCEPT !.pc = "resuming", !.job = Head(pending)]
          BY <3>1 DEF PopPending, At
        <4>2. Idle.pc = "idle"
          BY DEF Idle
        <4>3. [Idle EXCEPT !.pc = "resuming", !.job = Head(pending)].pc = "resuming"
          BY DEF Idle
        <4> QED
          BY <4>1, <4>2, <4>3
      <3>2. CASE PollQueue
        BY <1>1, <3>2 DEF PollQueue, At, Goto, KeepAllButWorker, WorkerRecord
      <3>3. CASE Claim
        <4>1. /\ worker.pc = "polled" /\ current' = current /\ client' = client
              /\ \/ worker' = Idle
                 \/ \E j \in JobId : worker' = [Idle EXCEPT !.pc = "claimed", !.job = j]
          BY <3>3 DEF Claim, At, KeepAllButWorker, Queued
        <4>2. Idle.pc = "idle"
          BY DEF Idle
        <4>3. \A j \in JobId : [Idle EXCEPT !.pc = "claimed", !.job = j].pc = "claimed"
          BY DEF Idle
        <4> QED
          BY <4>1, <4>2, <4>3
      <3> QED
        BY <1>2, <3>1, <3>2, <3>3
    <2>2. worker.pc \notin SlotPoints /\ worker'.pc \notin SlotPoints
      BY <2>1 DEF SlotPoints, BodyPoints, UnwindPoints
    <2> QED
      BY <2>1, <2>2 DEF SlotHeld, Onwards
  <1>3. CASE MarkRunning
    <2>1. /\ worker.pc \in {"claimed", "resuming"} /\ worker'.pc \in {"prepare", "rebuild"}
          /\ worker'.job = worker.job /\ current'.job = worker.job /\ ~current'.requested
          /\ worker.job # NoJob /\ client' = client
      BY <1>1, <1>3 DEF MarkRunning, At, Goto, NoCurrent, WorkerRecord
    <2>2. \A c \in Clients : client[c].pc # "waiting"
      <3>1. worker.pc \notin SlotPoints
        BY <2>1 DEF SlotPoints, BodyPoints, UnwindPoints
      <3> QED
        BY <3>1 DEF SlotHeld
    <2> QED
      BY <2>1, <2>2 DEF SlotHeld, Onwards, SlotPoints, BodyPoints, UnwindPoints
  <1>4. CASE ClearRunning
    <2>1. /\ worker.pc = "clear" /\ worker' = Idle /\ current' = NoCurrent
          /\ \A c \in Clients : client'[c].pc # "waiting"
      <3>1. worker.pc = "clear" /\ current.job = worker.job
        BY <1>4 DEF ClearRunning, At, SlotHeld, SlotPoints, UnwindPoints
      <3>2. \A c \in Clients : client[c].pc = "waiting" => client[c].job = worker.job
        BY <3>1 DEF SlotHeld
      <3> QED
        BY <1>1, <1>4, <3>1, <3>2 DEF ClearRunning, NoCancel
    <2> QED
      BY <2>1 DEF SlotHeld, Onwards, Idle, NoCurrent, SlotPoints, BodyPoints, UnwindPoints
  <1>5. CASE \/ Prepare \/ PrepareFails \/ Launch \/ Encode \/ Rebuild
             \/ EnterVerifying \/ EnterPromoting \/ Verify \/ VerifyFails
             \/ Blocked \/ RetryGuard \/ StreamClear \/ Rename \/ Restore \/ Settle
             \/ StopsEarly
             \/ FinishCancelled \/ FinishCancelledRow \/ ReleaseMedia
             \/ FinishFailed \/ FinishFailedRow
    <2>1. /\ client' = client /\ worker'.job = worker.job
          /\ worker.pc \in SlotPoints /\ worker'.pc \in SlotPoints
          /\ \/ Point(worker'.pc) > Point(worker.pc)
             \/ worker.pc = "deferred" /\ worker'.pc = "guard" /\ ~current.requested
      <3>1. CASE Prepare
        <4>1. /\ worker.pc = "prepare" /\ worker'.pc = "launch"
              /\ client' = client /\ worker'.job = worker.job
          BY <1>1, <3>1 DEF Prepare, At, Goto, WorkerRecord
        <4> QED
          BY <4>1 DEF SlotPoints, BodyPoints, UnwindPoints, Point
      <3>2. CASE PrepareFails
        <4>1. /\ worker.pc = "prepare" /\ worker'.pc = "unwind"
              /\ client' = client /\ worker'.job = worker.job
          BY <1>1, <3>2 DEF PrepareFails, At, Unwind, WorkerRecord
        <4> QED
          BY <4>1 DEF SlotPoints, BodyPoints, UnwindPoints, Point
      <3>3. CASE Rebuild
        <4>1. /\ worker.pc = "rebuild" /\ worker'.pc = "finalise"
              /\ client' = client /\ worker'.job = worker.job
          BY <1>1, <3>3 DEF Rebuild, At, Goto, WorkerRecord
        <4> QED
          BY <4>1 DEF SlotPoints, BodyPoints, UnwindPoints, Point
      <3>4. CASE Launch
        <4>1. /\ worker.pc = "launch" /\ worker'.pc = "encoding"
              /\ client' = client /\ worker'.job = worker.job
          BY <1>1, <3>4 DEF Launch, At, Goto, KeepAllButWorker, WorkerRecord
        <4> QED
          BY <4>1 DEF SlotPoints, BodyPoints, UnwindPoints, Point
      <3>5. CASE Encode
        <4>1. /\ worker.pc = "encoding" /\ worker'.pc = "finalise"
              /\ client' = client /\ worker'.job = worker.job
          BY <1>1, <3>5 DEF Encode, At, Goto, KeepAllButWorker, WorkerRecord
        <4> QED
          BY <4>1 DEF SlotPoints, BodyPoints, UnwindPoints, Point
      <3>6. CASE EnterVerifying
        <4>1. /\ worker.pc = "finalise" /\ worker'.pc = "probing"
              /\ client' = client /\ worker'.job = worker.job
          BY <1>1, <3>6 DEF EnterVerifying, At, Goto, KeepAllButWorker, WorkerRecord
        <4> QED
          BY <4>1 DEF SlotPoints, BodyPoints, UnwindPoints, Point
      <3>7. CASE EnterPromoting
        <4>1. /\ worker.pc = "probing" /\ worker'.pc = "verify"
              /\ client' = client /\ worker'.job = worker.job
          BY <1>1, <3>7 DEF EnterPromoting, At, Goto, KeepAllButWorker, WorkerRecord
        <4> QED
          BY <4>1 DEF SlotPoints, BodyPoints, UnwindPoints, Point
      <3>8. CASE Verify
        <4>1. /\ worker.pc = "verify" /\ worker'.pc = "guard"
              /\ client' = client /\ worker'.job = worker.job
          BY <1>1, <3>8 DEF Verify, At, Goto, KeepAllButWorker, WorkerRecord
        <4> QED
          BY <4>1 DEF SlotPoints, BodyPoints, UnwindPoints, Point
      <3>9. CASE VerifyFails
        <4>1. /\ worker.pc = "verify" /\ worker'.pc = "unwind"
              /\ client' = client /\ worker'.job = worker.job
          BY <1>1, <3>9 DEF VerifyFails, At, Unwind, KeepAllButWorker, WorkerRecord
        <4> QED
          BY <4>1 DEF SlotPoints, BodyPoints, UnwindPoints, Point
      <3>10. CASE Blocked
        <4>1. /\ worker.pc = "guard" /\ worker'.pc = "deferred"
              /\ client' = client /\ worker'.job = worker.job
          BY <1>1, <3>10 DEF Blocked, At, Goto, KeepAllButWorker, WorkerRecord
        <4> QED
          BY <4>1 DEF SlotPoints, BodyPoints, UnwindPoints, Point
      <3>11. CASE RetryGuard
        <4>1. /\ worker.pc = "deferred" /\ worker'.pc = "guard" /\ ~current.requested
              /\ client' = client /\ worker'.job = worker.job
          BY <1>1, <3>11 DEF RetryGuard, NotCancelled, At, Goto, KeepAllButWorker, WorkerRecord
        <4> QED
          BY <4>1 DEF SlotPoints, BodyPoints, UnwindPoints, Point
      <3>12. CASE StreamClear
        <4>1. /\ worker.pc = "guard" /\ worker'.pc = "rename"
              /\ client' = client /\ worker'.job = worker.job
          BY <1>1, <3>12 DEF StreamClear, At, Goto, KeepAllButWorker, WorkerRecord
        <4> QED
          BY <4>1 DEF SlotPoints, BodyPoints, UnwindPoints, Point
      <3>13. CASE Rename
        <4>1. /\ worker.pc = "rename" /\ worker'.pc = "renamed"
              /\ client' = client /\ worker'.job = worker.job
          BY <1>1, <3>13 DEF Rename, At, Goto, KeepAllButWorker, WorkerRecord
        <4> QED
          BY <4>1 DEF SlotPoints, BodyPoints, UnwindPoints, Point
      <3>14. CASE Restore
        <4>1. /\ worker.pc = "renamed" /\ worker'.pc = "settle"
              /\ client' = client /\ worker'.job = worker.job
          BY <1>1, <3>14 DEF Restore, At, KeepAllButWorker, WorkerRecord
        <4> QED
          BY <4>1 DEF SlotPoints, BodyPoints, UnwindPoints, Point
      <3>15. CASE Settle
        <4>1. /\ worker.pc = "settle" /\ worker'.pc \in {"clear", "unwind"}
              /\ client' = client /\ worker'.job = worker.job
          BY <1>1, <3>15 DEF Settle, At, Goto, KeepAllButWorker, WorkerRecord
        <4> QED
          BY <4>1 DEF SlotPoints, BodyPoints, UnwindPoints, Point
      <3>16. CASE StopsEarly
        <4>1. /\ worker.pc \in BodyPoints /\ worker'.pc = "unwind"
              /\ client' = client /\ worker'.job = worker.job
          BY <1>1, <3>16 DEF StopsEarly, Unwind, KeepAllButWorker, WorkerRecord
        <4> QED
          BY <4>1 DEF SlotPoints, BodyPoints, UnwindPoints, Point
      <3>17. CASE FinishCancelled \/ FinishCancelledRow \/ ReleaseMedia \/ FinishFailed \/ FinishFailedRow
        BY <1>1, <3>17 DEF FinishCancelled, FinishCancelledRow, ReleaseMedia, FinishFailed,
           FinishFailedRow, At, Goto, KeepAllButWorker, WorkerRecord, SlotPoints, BodyPoints,
           UnwindPoints, Point
      <3> QED
        BY <1>5, <3>1, <3>2, <3>3, <3>4, <3>5, <3>6, <3>7, <3>8, <3>9, <3>10, <3>11, <3>12, <3>13, <3>14, <3>15, <3>16, <3>17
    <2>2. current'.job = current.job /\ current'.requested = current.requested
      BY <1>1, <1>5 DEF Prepare, PrepareFails, Rebuild, Launch, Encode, EnterVerifying,
         EnterPromoting, Verify, VerifyFails, Blocked, RetryGuard, StreamClear, Rename, Restore,
         Settle, StopsEarly, FinishCancelled, FinishCancelledRow, ReleaseMedia, FinishFailed,
         FinishFailedRow, KeepAllButWorker
    <2> QED
      BY <2>1, <2>2 DEF SlotHeld, Onwards
  <1> QED
    BY <1>2, <1>3, <1>4, <1>5 DEF Worker

LEMMA SlotClient ==
    ASSUME Base, SlotHeld, NEW c \in Clients,
           CancelStep(c) \/ CancelHangsUp(c) \/ \E j \in JobId : CancelCall(c, j)
    PROVE  SlotHeld' /\ Onwards
  <1>1. /\ client \in [Clients -> ClientRecord] /\ NoJob \notin JobId /\ worker' = worker
        /\ current \in [job : JobId \union {NoJob}, requested : BOOLEAN, staging : BOOLEAN]
    BY NoJobIsNone DEF Base, TypeOK, CancelStep, CancelReads, CancelWrites, CancelReleases,
       CancelUnstages, CancelHangsUp, CancelCall, KeepAllButClient
  <1>2. /\ current'.job = current.job /\ (current.requested => current'.requested)
        /\ current'.requested => current.requested \/ current.job # NoJob
        /\ \A d \in Clients : client'[d].pc = "waiting" =>
              current'.job = client'[d].job /\ current'.requested
    <2>1. CASE CancelStep(c) \/ CancelHangsUp(c)
      <3>1. /\ current' = current /\ client'[c].pc # "waiting"
            /\ \A d \in Clients \ {c} : client'[d] = client[d]
        <4>1. client[c] \in ClientRecord
          BY <1>1
        <4>2. CASE CancelReads(c)
          <5> DEFINE r == [client[c] EXCEPT !.pc = "cancelling", !.staged = jobs[client[c].job].staged]
          <5>1. client' = [client EXCEPT ![c] = r] /\ current' = current
            BY <1>1, <4>2 DEF CancelReads
          <5>2. r.pc # "waiting"
            BY <4>1 DEF NoCancel, ClientRecord
          <5> HIDE DEF r
          <5> QED
            BY <1>1, <5>1, <5>2
        <4>3. CASE CancelReleases(c)
          <5> DEFINE r == [client[c] EXCEPT !.pc = "unstaging"]
          <5>1. client' = [client EXCEPT ![c] = r] /\ current' = current
            BY <1>1, <4>3 DEF CancelReleases
          <5>2. r.pc # "waiting"
            BY <4>1 DEF NoCancel, ClientRecord
          <5> HIDE DEF r
          <5> QED
            BY <1>1, <5>1, <5>2
        <4>4. CASE CancelHangsUp(c)
          <5> DEFINE r == IF client[c].pc = "releasing" THEN [client[c] EXCEPT !.pc = "unstaging"]
                   ELSE NoCancel
          <5>1. client' = [client EXCEPT ![c] = r] /\ current' = current
            BY <1>1, <4>4 DEF CancelHangsUp
          <5>2. r.pc # "waiting"
            BY <4>1 DEF NoCancel, ClientRecord
          <5> HIDE DEF r
          <5> QED
            BY <1>1, <5>1, <5>2
        <4>5. CASE CancelWrites(c)
          <5>1. /\ current' = current
                /\ \/ client' = [client EXCEPT ![c] = [client[c] EXCEPT !.pc = "releasing"]]
                   \/ client' = [client EXCEPT ![c] = NoCancel]
            BY <1>1, <4>5 DEF CancelWrites
          <5> QED
            BY <1>1, <4>1, <5>1 DEF NoCancel, ClientRecord
        <4>6. CASE CancelUnstages(c)
          BY <1>1, <4>6 DEF CancelUnstages, NoCancel
        <4> QED
          BY <2>1, <4>2, <4>3, <4>4, <4>5, <4>6 DEF CancelStep
      <3>2. \A d \in Clients : client'[d] = client[d] \/ client'[d].pc # "waiting"
        BY <3>1
      <3> QED
        BY <3>1, <3>2 DEF SlotHeld
    <2>2. ASSUME NEW j \in JobId, CancelCall(c, j)
          PROVE  /\ current'.job = current.job /\ (current.requested => current'.requested)
                 /\ current'.requested => current.requested \/ current.job # NoJob
                 /\ \A d \in Clients : client'[d].pc = "waiting" =>
                       current'.job = client'[d].job /\ current'.requested
      <3>1. CASE current.job = j
        <4>1. /\ current' = [current EXCEPT !.requested = TRUE]
              /\ client' = [client EXCEPT ![c] = [NoCancel EXCEPT !.pc = "waiting", !.job = j]]
          BY <2>2, <3>1 DEF CancelCall
        <4>2. current'.job = j /\ current'.requested
          BY <1>1, <3>1, <4>1
        <4>3. \A d \in Clients : client'[d] = client[d] \/ client'[d].job = j
          BY <1>1, <4>1 DEF NoCancel
        <4> QED
          BY <1>1, <3>1, <4>2, <4>3 DEF SlotHeld
      <3>2. CASE current.job # j
        <4>1. current' = current /\ \A d \in Clients : client'[d] = client[d] \/ client'[d].pc # "waiting"
          BY <1>1, <2>2, <3>2 DEF CancelCall, NoCancel
        <4> QED
          BY <4>1 DEF SlotHeld
      <3> QED
        BY <3>1, <3>2
    <2> QED
      BY <2>1, <2>2
  <1> QED
    BY <1>1, <1>2 DEF SlotHeld, Onwards

LEMMA SlotRecover ==
    ASSUME Base, SlotHeld, Recover \/ Crash
    PROVE  SlotHeld' /\ Onwards
  <1>1. CASE Crash
    BY <1>1 DEF Crash, SlotHeld, Onwards, Idle, NoCurrent, NoCancel, SlotPoints, BodyPoints,
       UnwindPoints
  <1>2. CASE Recover
    <2>1. UNCHANGED <<worker, current, client>>
      <3>1. CASE Boot \/ SweepCommits \/ SweepOrphans
        BY <3>1 DEF Boot, SweepCommits, SweepOrphans, KeepInRecovery
      <3>2. ASSUME NEW j \in JobId,
                   SweepOne(j) \/ RecoverUnstages(j) \/ RecoverResumes(j) \/ RecoverIntact(j)
                   \/ RecoverRequeues(j) \/ RecoverPromoted(j) \/ RecoverErrs(j)
                   \/ RecoverUndecidable(j)
            PROVE  UNCHANGED <<worker, current, client>>
        BY <3>2 DEF SweepOne, RecoverUnstages, RecoverResumes, RecoverIntact,
           RecoverRequeues, RecoverPromoted, RecoverErrs, RecoverUndecidable, KeepInRecovery
      <3> QED
        BY <1>2, <3>1, <3>2 DEF Recover
    <2> QED
      BY <2>1 DEF SlotHeld, Onwards
  <1> QED
    BY <1>1, <1>2

LEMMA SlotStep == Base /\ SlotHeld /\ [Next]_vars => SlotHeld' /\ [Onwards]_vars
  <1> SUFFICES ASSUME Base, SlotHeld, [Next]_vars PROVE SlotHeld' /\ [Onwards]_vars
    OBVIOUS
  <1>1. CASE \/ UNCHANGED vars
             \/ \E f \in Files, p \in EnqueuePriorities : Enqueue(f, p)
             \/ \E j \in JobId : Restart(j)
             \/ \E b \in BOOLEAN : SetPaused(b)
    <2>1. UNCHANGED <<worker, current, client>>
      BY <1>1 DEF vars, memVars, Enqueue, Restart, SetPaused, KeepAllButStore
    <2> QED
      BY <2>1 DEF SlotHeld, Onwards
  <1> QED
    BY <1>1, SlotWorker, SlotClient, SlotRecover DEF Next

\* While anybody waits in Cancel, every step of the worker's brings it nearer to the end
\* of withRunning, where the slot empties and nobody is left waiting: a stream that never
\* ends cannot send it round once more, and no other call makes it forget the request
\* (worker.go withRunning, Cancel, deferReplace): for any number of callers, jobs and
\* crashes.  That it takes those steps is what CancelReturns adds.
THEOREM SlotMoves == Spec => []SlotHeld /\ SlotMovesOn
  <1>1. Init => SlotHeld
    BY DEF Init, SlotHeld, Idle, NoCurrent, NoCancel, SlotPoints, BodyPoints, UnwindPoints
  <1> QED
    BY <1>1, SlotStep, BaseHolds, PTL DEF Spec, SlotMovesOn

-----------------------------------------------------------------------------
(* Recovery has a bound on its steps, however much a crash left it to do. *)

\* How many steps of recovery there are at most before the process serves: the start,
\* a row of the sweep each, its commit, for a staging file to be removed one, for a row
\* to be decided two (its staging file goes before the row), and the orphan sweep.
StepsToServe ==
    CASE mode = "down" -> 4 * MaxJobs + 3
      [] mode = "sweep" -> 3 * MaxJobs + 2 + Cardinality(Swept)
      [] mode = "recover" ->
            1 + Cardinality(rec.unstage) + Cardinality(rec.check)
              + Cardinality(rec.check \ rec.intact)
      [] mode = "up" -> 0
RecoveryRunsDown == [][mode # "up" => StepsToServe' < StepsToServe \/ mode' = "down"]_vars

LEMMA JobsAreFew ==
    ASSUME NEW S \in SUBSET JobId
    PROVE  IsFiniteSet(S) /\ Cardinality(S) \in 0 .. MaxJobs
  <1>1. IsFiniteSet(JobId) /\ Cardinality(JobId) = MaxJobs
    <2>1. Cardinality(1 .. MaxJobs) = IF 1 > MaxJobs THEN 0 ELSE MaxJobs - 1 + 1
      BY StoreAssumption, FS_Interval
    <2>2. IsFiniteSet(1 .. MaxJobs)
      BY StoreAssumption, FS_Interval
    <2> QED
      BY <2>1, <2>2, StoreAssumption DEF JobId
  <1>2. IsFiniteSet(S) /\ Cardinality(S) <= MaxJobs
    BY <1>1, FS_Subset
  <1>3. Cardinality(S) \in Nat
    BY <1>2, FS_CardinalityType
  <1> QED
    BY <1>2, <1>3, StoreAssumption

LEMMA OneFewer ==
    ASSUME NEW S \in SUBSET JobId, NEW j \in S
    PROVE  Cardinality(S \ {j}) = Cardinality(S) - 1
  BY JobsAreFew, FS_RemoveElement

LEMMA RecoveryIsBounded ==
    ASSUME TypeOK
    PROVE  StepsToServe \in 0 .. (4 * MaxJobs + 3) /\ (StepsToServe = 0 <=> mode = "up")
  <1>1. PICK n \in Nat : n = MaxJobs
    BY StoreAssumption
  <1>2. PICK w \in 0 .. n : w = Cardinality(Swept)
    BY <1>1, JobsAreFew DEF Swept
  <1>3. PICK u \in 0 .. n, c \in 0 .. n, d \in 0 .. n :
           /\ u = Cardinality(rec.unstage) /\ c = Cardinality(rec.check)
           /\ d = Cardinality(rec.check \ rec.intact)
    <2>1. rec.unstage \in SUBSET JobId /\ rec.check \in SUBSET JobId
      BY DEF TypeOK, RecoveryRecord
    <2>2. rec.check \ rec.intact \in SUBSET JobId
      BY <2>1
    <2> QED
      BY <1>1, <2>1, <2>2, JobsAreFew
  <1>4. \/ mode = "down" /\ StepsToServe = 4 * n + 3
        \/ mode = "sweep" /\ StepsToServe = 3 * n + 2 + w
        \/ mode = "recover" /\ StepsToServe = 1 + u + c + d
        \/ mode = "up" /\ StepsToServe = 0
    BY <1>1, <1>2, <1>3 DEF TypeOK, StepsToServe
  <1> QED
    BY <1>1, <1>4

LEMMA SweepCounts ==
    ASSUME Base, Boot \/ SweepCommits \/ SweepOrphans \/ \E j \in JobId : SweepOne(j)
    PROVE  StepsToServe' < StepsToServe
  <1>1. TypeOK /\ rec \in RecoveryRecord
    BY DEF Base, TypeOK
  <1>2. PICK n \in Nat : n = MaxJobs
    BY StoreAssumption
  <1>3. CASE Boot
    <2>1. mode = "down" /\ mode' = "sweep" /\ jobs' = jobs
      BY <1>3 DEF Boot, storeVars
    <2>2. PICK w \in 0 .. n : w = Cardinality(Swept)
      BY <1>2, JobsAreFew DEF Swept
    <2>3. Swept' = Swept
      BY <2>1 DEF Swept, State
    <2>4. StepsToServe = 4 * n + 3 /\ StepsToServe' = 3 * n + 2 + w
      BY <1>2, <2>1, <2>2, <2>3 DEF StepsToServe
    <2> QED
      BY <2>4
  <1>4. CASE SweepCommits
    <2>1. mode = "sweep" /\ mode' = "recover" /\ Swept = {}
      BY <1>4 DEF SweepCommits
    <2>2. rec'.unstage \in SUBSET JobId /\ rec'.check \in SUBSET JobId
      BY <1>1, <1>4 DEF SweepCommits, RecoveryRecord
    <2>3. rec'.check \ rec'.intact \in SUBSET JobId
      BY <2>2
    <2>4. PICK u \in 0 .. n, c \in 0 .. n, d \in 0 .. n :
             /\ u = Cardinality(rec'.unstage) /\ c = Cardinality(rec'.check)
             /\ d = Cardinality(rec'.check \ rec'.intact)
      BY <1>2, <2>2, <2>3, JobsAreFew
    <2>5. Cardinality(Swept) = 0
      BY <2>1, FS_EmptySet
    <2>6. StepsToServe = 3 * n + 2 /\ StepsToServe' = 1 + u + c + d
      BY <1>2, <2>1, <2>4, <2>5 DEF StepsToServe
    <2> QED
      BY <2>6
  <1>5. CASE SweepOrphans
    <2>1. mode = "recover" /\ mode' = "up" /\ rec.unstage = {} /\ rec.check = {}
      BY <1>5 DEF SweepOrphans
    <2>2. rec.check \ rec.intact = {}
      BY <2>1
    <2>3. StepsToServe = 1 /\ StepsToServe' = 0
      BY <2>1, <2>2, FS_EmptySet DEF StepsToServe
    <2> QED
      BY <2>3
  <1>6. ASSUME NEW j \in JobId, SweepOne(j)
        PROVE  StepsToServe' < StepsToServe
    <2>1. mode = "sweep" /\ mode' = mode /\ j \in Swept /\ RequeueOrFail(j)
      BY <1>6 DEF SweepOne
    <2>2. /\ jobs'[j].state \in {"failed", "queued"}
          /\ \A k \in JobId \ {j} : jobs'[k] = jobs[k]
      BY <1>1, <2>1, RequeueRow DEF TypeOK
    <2>3. Swept' = Swept \ {j}
      BY <2>2 DEF Swept, State
    <2>4. PICK w \in 0 .. n : w = Cardinality(Swept)
      BY <1>2, JobsAreFew DEF Swept
    <2>5. Cardinality(Swept') = w - 1
      BY <2>1, <2>3, <2>4, OneFewer DEF Swept
    <2>6. StepsToServe = 3 * n + 2 + w /\ StepsToServe' = 3 * n + 2 + (w - 1)
      BY <1>2, <2>1, <2>4, <2>5 DEF StepsToServe
    <2> QED
      BY <2>6
  <1> QED
    BY <1>3, <1>4, <1>5, <1>6

LEMMA VerdictCounts ==
    ASSUME Base, NEW j \in JobId,
           \/ RecoverUnstages(j) \/ RecoverResumes(j) \/ RecoverIntact(j) \/ RecoverRequeues(j)
           \/ RecoverPromoted(j) \/ RecoverErrs(j) \/ RecoverUndecidable(j)
    PROVE  StepsToServe' < StepsToServe
  <1>1. rec \in RecoveryRecord
    BY DEF Base, TypeOK
  <1>2. mode = "recover" /\ mode' = mode
    BY DEF RecoverUnstages, RecoverResumes, RecoverIntact, RecoverRequeues, RecoverPromoted,
       RecoverErrs, RecoverUndecidable, RecoverNext
  <1>3. rec.intact \subseteq rec.check
    BY <1>2 DEF Base, RecoveryOwn
  <1> DEFINE open == rec.check \ rec.intact
  <1>4. rec.unstage \in SUBSET JobId /\ rec.check \in SUBSET JobId /\ open \in SUBSET JobId
    BY <1>1 DEF RecoveryRecord
  <1>5. PICK u \in Nat, c \in Nat, d \in Nat :
           u = Cardinality(rec.unstage) /\ c = Cardinality(rec.check) /\ d = Cardinality(open)
    BY <1>4, JobsAreFew, StoreAssumption
  <1>6. StepsToServe = 1 + u + c + d
    BY <1>2, <1>5 DEF StepsToServe
  <1>7. /\ mode' = "recover"
        /\ StepsToServe' = 1 + Cardinality(rec'.unstage) + Cardinality(rec'.check)
                             + Cardinality(rec'.check \ rec'.intact)
    BY <1>2 DEF StepsToServe
  <1>8. CASE RecoverUnstages(j)
    <2>1. /\ j \in rec.unstage /\ rec'.unstage = rec.unstage \ {j}
          /\ rec'.check = rec.check /\ rec'.intact = rec.intact
      BY <1>1, <1>8 DEF RecoverUnstages, RecoveryRecord
    <2>2. Cardinality(rec'.unstage) = u - 1
      BY <1>4, <1>5, <2>1, OneFewer
    <2> QED
      BY <1>5, <1>6, <1>7, <2>1, <2>2
  <1>9. CASE RecoverResumes(j) \/ RecoverPromoted(j) \/ RecoverErrs(j) \/ RecoverUndecidable(j)
    <2>1. /\ j \in open /\ rec'.unstage = rec.unstage
          /\ rec'.check = rec.check \ {j} /\ rec'.intact = rec.intact
      BY <1>1, <1>9 DEF RecoverResumes, RecoverPromoted, RecoverErrs, RecoverUndecidable,
         RecoveryRecord
    <2>2. rec'.check \ rec'.intact = open \ {j} /\ j \in rec.check
      BY <2>1
    <2> HIDE DEF open
    <2>3. Cardinality(rec'.check) = c - 1 /\ Cardinality(rec'.check \ rec'.intact) = d - 1
      BY <1>4, <1>5, <2>1, <2>2, OneFewer
    <2> QED
      BY <1>5, <1>6, <1>7, <2>1, <2>3
  <1>10. CASE RecoverIntact(j)
    <2>1. /\ j \in open /\ rec'.unstage = rec.unstage
          /\ rec'.check = rec.check /\ rec'.intact = rec.intact \union {j}
      BY <1>1, <1>10 DEF RecoverIntact, RecoveryRecord
    <2>2. rec'.check \ rec'.intact = open \ {j}
      BY <2>1
    <2> HIDE DEF open
    <2>3. Cardinality(rec'.check \ rec'.intact) = d - 1
      BY <1>4, <1>5, <2>1, <2>2, OneFewer
    <2> QED
      BY <1>5, <1>6, <1>7, <2>1, <2>3
  <1>11. CASE RecoverRequeues(j)
    <2>1. /\ j \in rec.intact /\ rec'.unstage = rec.unstage
          /\ rec'.check = rec.check \ {j} /\ rec'.intact = rec.intact \ {j}
      BY <1>1, <1>11 DEF RecoverRequeues, RecoveryRecord
    <2>2. rec'.check \ rec'.intact = open /\ j \in rec.check
      BY <1>3, <2>1
    <2> HIDE DEF open
    <2>3. Cardinality(rec'.check) = c - 1
      BY <1>4, <1>5, <2>1, <2>2, OneFewer
    <2>4. Cardinality(rec'.unstage) = u /\ Cardinality(rec'.check \ rec'.intact) = d
      <3>1. rec'.check \ rec'.intact = open
        BY <2>2
      <3> QED
        BY <1>5, <2>1, <3>1
    <2> QED
      BY <1>5, <1>6, <1>7, <2>3, <2>4
  <1> QED
    BY <1>8, <1>9, <1>10, <1>11

\* However many jobs a crash leaves in whatever states, the process serves after at most
\* 4 * MaxJobs + 3 steps of recovery, unless it dies again: each step leaves fewer, no
\* handler and no worker runs in between, and none are left exactly when it serves
\* (recover.go Recover, store/jobs.go SweepInterruptedJobs).
THEOREM RecoveryEnds ==
    Spec => /\ [](StepsToServe \in 0 .. (4 * MaxJobs + 3) /\ (StepsToServe = 0 <=> mode = "up"))
            /\ RecoveryRunsDown
  <1>1. Base => StepsToServe \in 0 .. (4 * MaxJobs + 3) /\ (StepsToServe = 0 <=> mode = "up")
    BY RecoveryIsBounded DEF Base
  <1>2. ASSUME Base, Next, mode # "up" PROVE StepsToServe' < StepsToServe \/ mode' = "down"
    <2>1. Recover \/ Crash
      <3>1. ~Worker
        <4>1. SUFFICES ASSUME Worker PROVE FALSE
          OBVIOUS
        <4>2. ~Claim
          BY <1>2 DEF Claim, At
        <4> QED
          BY <1>2, <4>1, <4>2, WorkerFrame
      <3> QED
        BY <1>2, <3>1, ApiFrame DEF Next
    <2>2. CASE Crash
      BY <2>2 DEF Crash
    <2>3. CASE Recover
      BY <1>2, <2>3, SweepCounts, VerdictCounts DEF Recover
    <2> QED
      BY <2>1, <2>2, <2>3
  <1>3. Base /\ [Next]_vars => [mode # "up" => StepsToServe' < StepsToServe \/ mode' = "down"]_vars
    BY <1>2
  <1> QED
    BY <1>1, <1>3, BaseHolds, PTL DEF Spec, RecoveryRunsDown

-----------------------------------------------------------------------------
(* The queue implements JobLifecycle. *)

\* What the abstract job sees of row k stays.
SameLife(k) == Phase(k)' = Phase(k) /\ landed'[k] = landed[k] /\ starts'[k] = starts[k]

\* How a step may change what the abstract job sees of row j: JobLifecycle's actions,
\* one line each.
LifeMove(j) ==
    \/ /\ Phase(j) \in {"absent", "dropped"} /\ Phase(j)' = "waiting"
       /\ starts'[j] = 0 /\ landed'[j] = landed[j]
    \/ /\ Phase(j) = "executing" /\ Phase(j)' = "executing"
       /\ starts'[j] = 0 /\ landed'[j] = landed[j]
    \/ /\ Phase(j) = "waiting" /\ Phase(j)' = "executing"
       /\ starts[j] < MaxAutoAttempts + 1 /\ starts'[j] = starts[j] + 1 /\ landed'[j] = FALSE
    \/ /\ Phase(j) = "executing" /\ Phase(j)' = "executing"
       /\ starts'[j] = starts[j] /\ landed'[j]
    \/ /\ Phase(j) = "executing" /\ landed[j] /\ Phase(j)' = "done"
       /\ starts'[j] = starts[j] /\ landed'[j]
    \/ /\ Phase(j) = "executing" /\ (~landed[j] \/ starts[j] = 0) /\ Phase(j)' = "waiting"
       /\ starts'[j] = starts[j] /\ landed'[j] = landed[j]
    \/ /\ Phase(j) \in {"waiting", "executing"} /\ Phase(j)' = "dropped"
       /\ starts'[j] = starts[j] /\ landed'[j] = landed[j]

\* Changing one row in one of these ways is a step of JobLifecycle or none.
LEMMA LifeMoveIsStep ==
    ASSUME TypeOK, TypeOK', NEW j \in JobId, LifeMove(j) \/ SameLife(j),
           \A k \in JobId \ {j} : SameLife(k)
    PROVE  [Lifecycle!Next]_(Lifecycle!vars)
  <1> DEFINE phase == [k \in JobId |-> Phase(k)]
             phaseN == [k \in JobId |-> Phase(k)']
  <1>1. /\ landed \in [JobId -> BOOLEAN] /\ landed' \in [JobId -> BOOLEAN]
        /\ starts \in [JobId -> Nat] /\ starts' \in [JobId -> Nat]
    BY DEF TypeOK
  <1>2. \A k \in JobId \ {j} :
           phaseN[k] = phase[k] /\ landed'[k] = landed[k] /\ starts'[k] = starts[k]
    BY DEF SameLife
  <1>3. /\ phaseN = [phase EXCEPT ![j] = Phase(j)']
        /\ landed' = [landed EXCEPT ![j] = landed'[j]]
        /\ starts' = [starts EXCEPT ![j] = starts'[j]]
    BY <1>1, <1>2
  <1>4. /\ phaseN[j] = phase[j] => phaseN = phase
        /\ landed'[j] = landed[j] => landed' = landed
        /\ starts'[j] = starts[j] => starts' = starts
    BY <1>1, <1>2
  <1>5. phase[j] = Phase(j) /\ phaseN[j] = Phase(j)'
    OBVIOUS
  <1>6. CASE SameLife(j)
    BY <1>4, <1>5, <1>6 DEF SameLife, Lifecycle!vars
  <1>7. CASE LifeMove(j)
    BY <1>1, <1>3, <1>4, <1>5, <1>7 DEF LifeMove, Lifecycle!vars, Lifecycle!Next,
       Lifecycle!Ask, Lifecycle!AskAgain, Lifecycle!Begin, Lifecycle!Land,
       Lifecycle!Finish, Lifecycle!Retry, Lifecycle!Drop, Lifecycle!Move
  <1> QED
    BY <1>6, <1>7

\* A step that changes nothing of what the abstract jobs see.
LEMMA SameLifeIsStutter ==
    ASSUME TypeOK, TypeOK', \A k \in JobId : SameLife(k)
    PROVE  UNCHANGED Lifecycle!vars
  <1>1. landed' = landed /\ starts' = starts
    BY DEF TypeOK, SameLife
  <1> QED
    BY <1>1 DEF SameLife, Lifecycle!vars

LifeStep ==
    \/ \A k \in JobId : SameLife(k)
    \/ \E j \in JobId : LifeMove(j) /\ \A k \in JobId \ {j} : SameLife(k)

\* A row in a known state, held by the worker or not, is in one phase.
LEMMA PhaseOf ==
    ASSUME TypeOK, NEW j \in JobId
    PROVE  /\ worker.job = j => Phase(j) = "executing"
           /\ State(j) \in InFlightJobStates => Phase(j) = "executing"
           /\ worker.job # j =>
                 /\ State(j) = "queued" => Phase(j) = "waiting"
                 /\ State(j) \in {"failed", "cancelled"} => Phase(j) = "dropped"
                 /\ State(j) = "done" => Phase(j) = "done"
                 /\ State(j) = "absent" => Phase(j) = "absent"
           /\ \/ State(j) \in InFlightJobStates
              \/ State(j) \in {"queued", "failed", "cancelled", "done", "absent"}
  <1>1. State(j) \in JobStates \union {"absent"}
    BY DEF TypeOK, StoreTypeOK, JobRow, State
  <1> QED
    BY <1>1 DEF Phase, State, InFlightJobStates, JobStates, ActiveJobStates, TerminalStates

\* The worker lets go of its job only when the row tells how it ended.
LEMMA LetGo ==
    ASSUME Base, Base', DoneLanded, RowsExist, NEW j \in JobId, worker.job = j,
           worker'.job # j, jobs' = jobs, landed' = landed, starts' = starts
    PROVE  LifeMove(j) \/ SameLife(j)
  <1>1. Phase(j) = "executing" /\ State(j)' = State(j)
    BY PhaseOf DEF Base, State
  <1>2. State(j) # "absent" /\ (State(j) = "queued" => starts[j] = 0)
    BY NoJobIsNone DEF RowsExist
  <1>3. State(j) = "done" => landed[j]
    BY DEF DoneLanded, DoneMeansLanded
  <1>4. /\ State(j) \in InFlightJobStates => Phase(j)' = "executing"
        /\ State(j) = "queued" => Phase(j)' = "waiting"
        /\ State(j) \in {"failed", "cancelled"} => Phase(j)' = "dropped"
        /\ State(j) = "done" => Phase(j)' = "done"
        /\ \/ State(j) \in InFlightJobStates
           \/ State(j) \in {"queued", "failed", "cancelled", "done", "absent"}
    <2>1. /\ State(j)' \in InFlightJobStates => Phase(j)' = "executing"
          /\ State(j)' = "queued" => Phase(j)' = "waiting"
          /\ State(j)' \in {"failed", "cancelled"} => Phase(j)' = "dropped"
          /\ State(j)' = "done" => Phase(j)' = "done"
          /\ \/ State(j)' \in InFlightJobStates
             \/ State(j)' \in {"queued", "failed", "cancelled", "done", "absent"}
      BY DEF Base, TypeOK, StoreTypeOK, JobRow, Phase, State, InFlightJobStates, JobStates,
         ActiveJobStates, TerminalStates
    <2> QED
      BY <1>1, <2>1
  <1> QED
    BY <1>1, <1>2, <1>3, <1>4 DEF LifeMove, SameLife

\* The worker takes a job through the abstract life, one phase at a time.
LEMMA LifeWorker ==
    ASSUME Base, Base', Attempts, DoneLanded, RowsExist, Worker
    PROVE  LifeStep
  <1>1. /\ worker.pc \notin {"idle", "polled"} => worker.job \in JobId
        /\ worker.pc \in {"idle", "polled"} => worker.job \notin JobId
        /\ worker \in WorkerRecord /\ StoreTypeOK /\ pending \in Seq(JobId)
        /\ landed \in [JobId -> BOOLEAN] /\ starts \in [JobId -> Nat]
    BY NoJobIsNone DEF Base, TypeOK, Holders, WorkerRecord
  <1>2. CASE Claim
    <2>1. ASSUME NEW j \in Queued, ClaimNextJob(j),
                 worker' = [Idle EXCEPT !.pc = "claimed", !.job = j],
                 landed' = [landed EXCEPT ![j] = FALSE],
                 starts' = [starts EXCEPT ![j] = @ + 1]
          PROVE  LifeStep
      <3>1. /\ j \in JobId /\ State(j) = "queued" /\ worker.job \notin JobId
            /\ worker'.job = j
        BY <1>1, <1>2, <2>1 DEF Queued, Claim, At, Idle
      <3>2. \A k \in JobId \ {j} : SameLife(k)
        BY <1>1, <2>1, <3>1 DEF ClaimNextJob, StoreTypeOK, SameLife, Phase, State
      <3>3. Phase(j) = "waiting" /\ Phase(j)' = "executing"
        BY <3>1, PhaseOf DEF Base, Phase
      <3>4. starts[j] < MaxAutoAttempts + 1
        <4>1. starts[j] <= jobs[j].attempt /\ jobs[j].attempt <= MaxAutoAttempts
          BY <3>1 DEF Attempts
        <4>2. starts[j] \in Nat /\ jobs[j].attempt \in Nat /\ MaxAutoAttempts \in Nat
          BY <1>1, <3>1, RowType, StoreAssumption
        <4> QED
          BY <4>1, <4>2
      <3>5. starts'[j] = starts[j] + 1 /\ landed'[j] = FALSE
        BY <1>1, <2>1, <3>1
      <3> QED
        BY <3>1, <3>2, <3>3, <3>4, <3>5 DEF LifeStep, LifeMove
    <2>2. CASE worker' = Idle /\ UNCHANGED <<storeVars, landed, starts>>
      BY <1>1, <1>2, <2>2, NoJobIsNone DEF Claim, At, LifeStep, SameLife, Phase, State,
         storeVars, Idle
    <2> QED
      BY <1>2, <2>1, <2>2 DEF Claim
  <1>3. CASE PopPending
    <2>1. UNCHANGED <<jobs, landed, starts>> /\ worker.job \notin JobId
      BY <1>1, <1>3 DEF PopPending, At, storeVars, diskVars
    <2>2. worker'.job \in JobId => State(worker'.job) = "awaiting_stream_end"
      BY <1>3, NoJobIsNone DEF PopPending, Idle
    <2> QED
      BY <2>1, <2>2 DEF LifeStep, SameLife, Phase, State, InFlightJobStates
  <1>4. CASE ClearRunning
    <2>1. /\ UNCHANGED <<jobs, landed, starts>> /\ worker'.job = NoJob
          /\ worker.job \in JobId
      BY <1>1, <1>4 DEF ClearRunning, At, storeVars, diskVars, Idle
    <2>2. \A k \in JobId \ {worker.job} : SameLife(k)
      BY <2>1, NoJobIsNone DEF SameLife, Phase, State
    <2>3. LifeMove(worker.job) \/ SameLife(worker.job)
      BY <2>1, NoJobIsNone, LetGo
    <2> QED
      BY <2>1, <2>2, <2>3 DEF LifeStep
  <1>5. CASE ~Claim /\ ~PopPending /\ ~ClearRunning
    <2>1. worker'.job = worker.job /\ starts' = starts
      BY <1>5, WorkerKeepsJob, WorkerFrame
    <2>2. \A k \in JobId \ {worker.job} : jobs'[k] = jobs[k] /\ landed'[k] = landed[k]
      BY <1>5, WorkerFrame
    <2>3. \A k \in JobId \ {worker.job} : SameLife(k)
      BY <2>1, <2>2 DEF SameLife, Phase, State
    <2>4. CASE worker.job \notin JobId
      BY <2>3, <2>4 DEF LifeStep
    <2>5. CASE worker.job \in JobId
      <3>1. Phase(worker.job) = "executing" /\ Phase(worker.job)' = "executing"
        BY <2>1 DEF Phase
      <3>2. landed'[worker.job] = landed[worker.job] \/ landed'[worker.job]
        BY <1>1, <1>5 DEF Worker, PollQueue, MarkRunning, Prepare, PrepareFails, Launch,
           Encode, Rebuild, EnterVerifying, EnterPromoting, Verify, VerifyFails,
           Blocked, RetryGuard, StreamClear, Rename, Restore, Settle, StopsEarly,
           FinishCancelled, FinishCancelledRow, ReleaseMedia, FinishFailed,
           FinishFailedRow, diskVars
      <3>3. LifeMove(worker.job) \/ SameLife(worker.job)
        BY <2>1, <3>1, <3>2 DEF LifeMove, SameLife
      <3> QED
        BY <2>3, <2>5, <3>3 DEF LifeStep
    <2> QED
      BY <2>4, <2>5
  <1> QED
    BY <1>2, <1>3, <1>4, <1>5

\* What a user does to a job is an abstract request or drop of it.
LEMMA LifeApi ==
    ASSUME Base, Attempts, RowsExist,
           \/ \E c \in Clients : CancelStep(c) \/ CancelHangsUp(c)
           \/ \E c \in Clients, j \in JobId : CancelCall(c, j)
           \/ \E f \in Files, p \in EnqueuePriorities : Enqueue(f, p)
           \/ \E j \in JobId : Restart(j)
           \/ \E b \in BOOLEAN : SetPaused(b)
    PROVE  LifeStep
  <1>1. /\ StoreTypeOK /\ starts \in [JobId -> Nat] /\ UNCHANGED <<worker, landed>>
        /\ TypeOK
    BY ApiFrame DEF Base, TypeOK
  <1>2. ASSUME UNCHANGED <<jobs, starts>>
        PROVE  LifeStep
    BY <1>1, <1>2 DEF LifeStep, SameLife, Phase, State
  <1>3. ASSUME NEW c \in Clients, CancelWrites(c)
        PROVE  LifeStep
    <2>1. client[c].job \in JobId /\ State(client[c].job) # "absent" /\ starts' = starts
      BY <1>3, NoJobIsNone DEF CancelWrites, Base, TypeOK, Holders, ClientRecord, RowsExist,
         KeepAllButClient
    <2>2. CASE CancelJob(client[c].job)
      <3> DEFINE j == client[c].job
      <3>1. /\ jobs'[j].state = "cancelled" /\ \A k \in JobId \ {j} : jobs'[k] = jobs[k]
            /\ State(j) \notin TerminalStates
        BY <1>1, <2>1, <2>2 DEF CancelJob, CancelJobFinds, StoreTypeOK, JobRow
      <3>2. \A k \in JobId \ {j} : SameLife(k)
        BY <1>1, <2>1, <3>1 DEF SameLife, Phase, State
      <3>3. PICK i \in JobId : i = j
        BY <2>1
      <3>4. LifeMove(i) \/ SameLife(i)
        <4>1. CASE worker.job = i
          BY <1>1, <2>1, <4>1 DEF SameLife, Phase
        <4>2. CASE worker.job # i
          <5>1. Phase(i) \in {"waiting", "executing"}
            BY <1>1, <2>1, <3>1, <3>3, PhaseOf DEF TerminalStates
          <5>2. Phase(i)' = "dropped"
            BY <1>1, <3>1, <3>3, <4>2 DEF Phase, State, InFlightJobStates
          <5> QED
            BY <1>1, <2>1, <5>1, <5>2 DEF LifeMove
        <4> QED
          BY <4>1, <4>2
      <3> QED
        BY <3>2, <3>3, <3>4 DEF LifeStep
    <2>3. CASE UNCHANGED storeVars
      BY <1>2, <2>1, <2>3 DEF storeVars
    <2> QED
      BY <1>3, <2>2, <2>3 DEF CancelWrites
  <1>4. CASE \/ \E c \in Clients : CancelReads(c) \/ CancelReleases(c) \/ CancelUnstages(c)
                                   \/ CancelHangsUp(c)
             \/ \E c \in Clients, j \in JobId : CancelCall(c, j)
             \/ \E b \in BOOLEAN : SetPaused(b)
    BY <1>2, <1>4 DEF CancelReads, CancelReleases, CancelUnstages, CancelHangsUp,
       CancelCall, SetPaused, SetMediaStatus, KeepAllButClient, storeVars
  <1>5. ASSUME NEW f \in Files, NEW p \in EnqueuePriorities, Enqueue(f, p)
        PROVE  LifeStep
    <2>1. PICK j \in JobId :
             /\ State(j) = "absent" /\ jobs'[j].state = "queued" /\ starts' = starts
             /\ \A k \in JobId \ {j} : jobs'[k] = jobs[k]
      BY <1>1, <1>5 DEF Enqueue, EnqueueJob, StoreTypeOK
    <2>2. worker.job # j /\ starts[j] = 0
      BY <2>1, NoJobIsNone DEF RowsExist, Attempts
    <2>3. Phase(j) = "absent" /\ Phase(j)' = "waiting"
      BY <1>1, <2>1, <2>2 DEF Phase, State, InFlightJobStates
    <2>4. \A k \in JobId \ {j} : SameLife(k)
      BY <1>1, <2>1 DEF SameLife, Phase, State
    <2> QED
      BY <1>1, <2>1, <2>2, <2>3, <2>4 DEF LifeStep, LifeMove
  <1>6. ASSUME NEW j \in JobId, Restart(j)
        PROVE  LifeStep
    <2>1. /\ State(j) \in {"cancelled", "failed"} /\ jobs'[j].state = "queued"
          /\ \A k \in JobId \ {j} : jobs'[k] = jobs[k]
          /\ starts' = [starts EXCEPT ![j] = 0]
      BY <1>1, <1>6, RestartRow DEF Restart, RestartJob
    <2>2. \A k \in JobId \ {j} : SameLife(k)
      BY <1>1, <2>1 DEF SameLife, Phase, State
    <2>3. starts'[j] = 0
      BY <1>1, <2>1
    <2>4. LifeMove(j)
      <3>1. CASE worker.job = j
        BY <1>1, <2>3, <3>1 DEF LifeMove, Phase
      <3>2. CASE worker.job # j
        BY <1>1, <2>1, <2>3, <3>2 DEF LifeMove, Phase, State, InFlightJobStates
      <3> QED
        BY <3>1, <3>2
    <2> QED
      BY <2>2, <2>4 DEF LifeStep
  <1> QED
    BY <1>3, <1>4, <1>5, <1>6 DEF CancelStep

\* A crash drops what the worker held, and recovery ends, retries or leaves each row.
LEMMA LifeRecover ==
    ASSUME Base, Base', DoneLanded, RowsExist, LandedRows, Recover \/ Crash
    PROVE  LifeStep
  <1>1. /\ StoreTypeOK /\ TypeOK /\ worker' = Idle /\ NoJob \notin JobId
    BY RecoverHoldsNothing, NoJobIsNone DEF Base, TypeOK
  <1>2. CASE Crash
    <2>1. UNCHANGED <<jobs, landed, starts>>
      BY <1>2 DEF Crash, storeVars, diskVars
    <2>2. \A k \in JobId \ {worker.job} : SameLife(k)
      BY <1>1, <2>1 DEF SameLife, Phase, State, Idle
    <2>3. CASE worker.job \in JobId
      <3>1. PICK j \in JobId : j = worker.job
        BY <2>3
      <3>2. LifeMove(j) \/ SameLife(j)
        BY <1>1, <2>1, <3>1, LetGo DEF Idle
      <3> QED
        BY <2>2, <3>1, <3>2 DEF LifeStep
    <2>4. CASE worker.job \notin JobId
      BY <2>2, <2>4 DEF LifeStep
    <2> QED
      BY <2>3, <2>4
  <1>3. CASE Recover
    <2>1. worker = Idle /\ landed' = landed /\ starts' = starts
      <3>1. CASE Boot \/ SweepCommits \/ SweepOrphans
        BY <3>1 DEF Boot, SweepCommits, SweepOrphans, KeepInRecovery, diskVars, Base,
           RecoveryOwn
      <3>2. ASSUME NEW j \in JobId,
                   SweepOne(j) \/ RecoverUnstages(j) \/ RecoverResumes(j) \/ RecoverIntact(j)
                   \/ RecoverRequeues(j) \/ RecoverPromoted(j) \/ RecoverErrs(j)
                   \/ RecoverUndecidable(j)
            PROVE  worker = Idle /\ landed' = landed /\ starts' = starts
        BY <3>2 DEF SweepOne, RecoverUnstages, RecoverResumes, RecoverIntact,
           RecoverRequeues, RecoverPromoted, RecoverErrs, RecoverUndecidable, RecoverNext,
           KeepInRecovery, diskVars, Base, RecoveryOwn
      <3> QED
        BY <1>3, <3>1, <3>2 DEF Recover
    <2>2. ASSUME jobs' = jobs
          PROVE  LifeStep
      BY <1>1, <2>1, <2>2 DEF LifeStep, SameLife, Phase, State
    <2>3. ASSUME NEW j \in JobId, State(j) \in InFlightJobStates,
                 \A k \in JobId \ {j} : jobs'[k] = jobs[k],
                 \/ jobs'[j].state = "failed"
                 \/ jobs'[j].state = "queued" /\ ~landed[j]
                 \/ jobs'[j].state = "done" /\ landed[j]
          PROVE  LifeStep
      <3>1. \A k \in JobId \ {j} : SameLife(k)
        BY <1>1, <2>1, <2>3 DEF SameLife, Phase, State
      <3>2. Phase(j) = "executing"
        BY <1>1, <2>3, PhaseOf
      <3>3. LifeMove(j)
        BY <1>1, <2>1, <2>3, <3>2 DEF LifeMove, Phase, State, InFlightJobStates, Idle
      <3> QED
        BY <3>1, <3>3 DEF LifeStep
    <2>4. CASE Boot \/ SweepCommits \/ SweepOrphans
      BY <2>2, <2>4 DEF Boot, SweepCommits, SweepOrphans, storeVars
    <2>5. ASSUME NEW j \in JobId,
                 RecoverUnstages(j) \/ RecoverResumes(j) \/ RecoverIntact(j) \/ RecoverErrs(j)
          PROVE  LifeStep
      BY <2>2, <2>5 DEF RecoverUnstages, RecoverResumes, RecoverIntact, RecoverErrs,
         storeVars
    <2>6. ASSUME NEW j \in JobId, SweepOne(j) \/ RecoverRequeues(j)
          PROVE  LifeStep
      <3>1. State(j) \in InFlightJobStates /\ ~landed[j]
        BY <2>6 DEF SweepOne, Swept, RecoverRequeues, RecoverNext, Base, RecoveryOwn,
           LandedRows, InFlightJobStates
      <3> QED
        BY <1>1, <2>3, <2>6, <3>1, RequeueRow DEF SweepOne, RecoverRequeues
    <2>7. ASSUME NEW j \in JobId, RecoverPromoted(j) \/ RecoverUndecidable(j)
          PROVE  LifeStep
      <3>1. State(j) \in InFlightJobStates
        BY <2>7 DEF RecoverPromoted, RecoverUndecidable, RecoverNext, Base, RecoveryOwn,
           InFlightJobStates
      <3>2. CASE RecoverPromoted(j)
        BY <1>1, <2>3, <3>1, <3>2 DEF RecoverPromoted, RecordPromotion, StoreTypeOK, JobRow
      <3>3. CASE RecoverUndecidable(j)
        BY <1>1, <2>3, <3>1, <3>3 DEF RecoverUndecidable, FailJob, StoreTypeOK, JobRow
      <3> QED
        BY <2>7, <3>2, <3>3
    <2> QED
      BY <1>3, <2>4, <2>5, <2>6, <2>7 DEF Recover
  <1> QED
    BY <1>2, <1>3

\* The queue, its handlers, its crashes and its recovery implement the life of a job as
\* its user sees it: a job is executed again without being asked only if its output
\* never reached the library, and only so many times; it is done only if it did.
THEOREM ImplementsLifecycle == Spec => LifecycleSpec
  <1>1. Init => Lifecycle!Init
    BY NoJobIsNone DEF Init, StoreInit, AbsentRow, Idle, Lifecycle!Init, Phase, State,
       InFlightJobStates
  <1>2. ASSUME Base, Base', Attempts, DoneLanded, RowsExist, LandedRows, [Next]_vars
        PROVE  [Lifecycle!Next]_(Lifecycle!vars)
    <2>1. LifeStep
      <3>1. CASE UNCHANGED vars
        BY <3>1 DEF vars, storeVars, diskVars, memVars, LifeStep, SameLife, Phase, State
      <3> QED
        BY <1>2, <3>1, LifeWorker, LifeApi, LifeRecover DEF Next
    <2>2. TypeOK /\ TypeOK'
      BY <1>2 DEF Base
    <2> QED
      BY <2>1, <2>2, LifeMoveIsStep, SameLifeIsStutter DEF LifeStep
  <1> QED
    BY <1>1, <1>2, BaseHolds, AttemptsHold, DoneLandedHolds, HeldRowsExist, DiskHolds, PTL
       DEF Spec, LifecycleSpec, Lifecycle!Spec
=============================================================================
