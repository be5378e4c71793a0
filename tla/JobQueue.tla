------------------------------ MODULE JobQueue ------------------------------
(***************************************************************************)
(* The job queue of internal/job: one worker goroutine, API handlers that  *)
(* cancel, restart, enqueue and pause beside it, a process that can die    *)
(* between any two of its steps, and the startup sweep that picks up what  *)
(* was in flight.                                                          *)
(*                                                                         *)
(* Every store call is one step (JobStore); what a handler keeps in local  *)
(* variables between two calls is kept in its record here.  The encode is  *)
(* one step that ends well or badly, verification likewise; whether the    *)
(* library file was replaced is the disk fact landed[j].                   *)
(***************************************************************************)
EXTENDS JobStore, Sequences

CONSTANTS
    Clients,     \* concurrent API requests to cancel a job
    MaxCrashes,  \* bound: how often the process dies
    MaxStamps    \* bound: enqueues and restarts together

ASSUME QueueAssumption == MaxCrashes \in Nat /\ MaxStamps \in Nat

VARIABLES
    \* --- on disk, beside the database
    stagingFile, \* .codarr-staging-<id>: "none", "partial" or "whole"
    landed,      \* the rename of the job's latest execution replaced the source
    left,        \* history: staging files an exit path of withRunning left behind
    \* --- in memory, lost when the process dies
    mode,        \* "down", "sweep", "recover" or "up"
    paused,      \* settings.queue_paused (persistent, kept here for brevity)
    worker,      \* the goroutine of Service.Run: where it is, job and failure
    current,     \* Service.current: the one in-flight slot
    pending,     \* Service.pending: promotions to resume
    rec,         \* local state of Service.Recover
    client,      \* local state of each Cancel call
    \* --- bookkeeping of the model
    crashes,
    starts       \* claims of a row since it was last queued by hand

memVars == <<worker, current, pending, rec, client>>
diskVars == <<stagingFile, landed, left>>
vars == <<storeVars, diskVars, mode, paused, memVars, crashes, starts>>

NoJob == 0
Idle == [pc |-> "idle", job |-> NoJob, failure |-> NoFailure]
NoCurrent == [job |-> NoJob, requested |-> FALSE, staging |-> FALSE]
NoCancel == [pc |-> "idle", job |-> NoJob, staged |-> FALSE]
NoRecovery == [unstage |-> {}, check |-> {}, intact |-> {}, keep |-> {}, abandoned |-> {}]

\* Program points inside withRunning, where the slot is held.
BodyPoints == {"prepare", "launch", "encoding", "rebuild", "finalise", "probing",
               "verify", "guard", "deferred", "rename", "renamed", "settle"}
UnwindPoints == {"unwind", "cancelRow", "release", "failRow", "clear"}
SlotPoints == BodyPoints \union UnwindPoints
WorkerPoints == SlotPoints \union {"idle", "polled", "claimed", "resuming"}
ClientPoints == {"idle", "waiting", "reading", "cancelling", "releasing", "unstaging"}

WorkerRecord == [pc : WorkerPoints, job : JobId \union {NoJob},
                 failure : FailureCodes \union {NoFailure}]
ClientRecord == [pc : ClientPoints, job : JobId \union {NoJob}, staged : BOOLEAN]
RecoveryRecord == [unstage : SUBSET JobId, check : SUBSET JobId, intact : SUBSET JobId,
                   keep : SUBSET JobId, abandoned : SUBSET JobId]

TypeOK ==
    /\ StoreTypeOK
    /\ stagingFile \in [JobId -> {"none", "partial", "whole"}]
    /\ landed \in [JobId -> BOOLEAN]
    /\ left \in SUBSET JobId
    /\ mode \in {"down", "sweep", "recover", "up"}
    /\ paused \in BOOLEAN
    /\ worker \in WorkerRecord
    /\ current \in [job : JobId \union {NoJob}, requested : BOOLEAN, staging : BOOLEAN]
    /\ pending \in Seq(JobId)
    /\ rec \in RecoveryRecord
    /\ client \in [Clients -> ClientRecord]
    /\ crashes \in Nat
    /\ starts \in [JobId -> Nat]

Init ==
    /\ StoreInit
    /\ stagingFile = [j \in JobId |-> "none"]
    /\ landed = [j \in JobId |-> FALSE]
    /\ left = {}
    /\ mode = "down"
    /\ paused = FALSE
    /\ worker = Idle
    /\ current = NoCurrent
    /\ pending = <<>>
    /\ rec = NoRecovery
    /\ client = [c \in Clients |-> NoCancel]
    /\ crashes = 0
    /\ starts = [j \in JobId |-> 0]

-----------------------------------------------------------------------------
(* The worker: Run and RunOnce. *)

At(pc) == mode = "up" /\ worker.pc = pc
Goto(pc) == worker' = [worker EXCEPT !.pc = pc]
Unwind(code) == worker' = [worker EXCEPT !.pc = "unwind", !.failure = code]
KeepAllButWorker == UNCHANGED <<current, pending, rec, client, mode, paused, crashes>>

\* Deviation: nextPending looks at the head without removing it.
PeekPending ==
    /\ At("idle") /\ pending # <<>>
    /\ worker' = IF State(Head(pending)) = "awaiting_stream_end"
                 THEN [Idle EXCEPT !.pc = "resuming", !.job = Head(pending)]
                 ELSE Idle
    /\ UNCHANGED <<storeVars, diskVars, mode, paused, current, pending, rec, client,
                   crashes, starts>>

\* nextPending, then resume's GetJob: a row that moved on is dropped.
PopPending ==
    /\ At("idle") /\ pending # <<>>
    /\ pending' = Tail(pending)
    /\ worker' = IF State(Head(pending)) = "awaiting_stream_end"
                 THEN [Idle EXCEPT !.pc = "resuming", !.job = Head(pending)]
                 ELSE Idle
    /\ UNCHANGED <<storeVars, diskVars, mode, paused, current, rec, client, crashes, starts>>

\* Paused is read in one call, the claim is the next.
PollQueue ==
    /\ At("idle") /\ pending = <<>>
    /\ ~paused
    /\ Goto("polled")
    /\ UNCHANGED <<storeVars, diskVars, starts>> /\ KeepAllButWorker

Claim ==
    /\ At("polled")
    /\ \/ \E j \in Queued :
             /\ ClaimNextJob(j)
             /\ worker' = [Idle EXCEPT !.pc = "claimed", !.job = j]
             /\ landed' = [landed EXCEPT ![j] = FALSE]
             /\ starts' = [starts EXCEPT ![j] = @ + 1]
       \/ /\ Queued = {}
          /\ worker' = Idle
          /\ UNCHANGED <<storeVars, landed, starts>>
    /\ UNCHANGED <<stagingFile, left>> /\ KeepAllButWorker

\* withRunning takes the slot: from here on a Cancel finds the job running.
MarkRunning ==
    /\ \/ At("claimed") /\ Goto("prepare")
       \/ At("resuming") /\ Goto("rebuild")
    /\ current' = [NoCurrent EXCEPT !.job = worker.job]
    /\ UNCHANGED <<storeVars, diskVars, mode, paused, pending, rec, client, crashes, starts>>

-----------------------------------------------------------------------------
(* The pipeline.  A store, ffmpeg or ffprobe call made on the job's context *)
(* errors once a cancel was requested, so those steps need ~requested and   *)
(* StopsEarly is the error path of each of them.                            *)

NotCancelled == ~current.requested

\* load and prepare: settings, plan, preflight, sample probe, encoder choice.
Prepare ==
    /\ At("prepare") /\ NotCancelled
    /\ Goto("launch")
    /\ current' = [current EXCEPT !.staging = TRUE]
    /\ UNCHANGED <<storeVars, diskVars, mode, paused, pending, rec, client, crashes, starts>>

\* The same steps failing, before or after setStaging.
PrepareFails ==
    /\ At("prepare")
    /\ Unwind("other")
    /\ \E s \in BOOLEAN : current' = [current EXCEPT !.staging = s]
    /\ UNCHANGED <<storeVars, diskVars, mode, paused, pending, rec, client, crashes, starts>>

\* attempt: the row learns the staging path before ffmpeg opens it.
Launch ==
    /\ At("launch") /\ NotCancelled
    /\ UpdateJobExecution(worker.job)
    /\ stagingFile' = [stagingFile EXCEPT ![worker.job] = "partial"]
    /\ left' = left \ {worker.job}
    /\ Goto("encoding")
    /\ UNCHANGED <<landed, starts>> /\ KeepAllButWorker

\* ffmpeg exits 0; a file unlinked under it stays gone.
Encode ==
    /\ At("encoding") /\ NotCancelled
    /\ stagingFile' = [stagingFile EXCEPT ![worker.job] =
                          IF @ = "none" THEN "none" ELSE "whole"]
    /\ Goto("finalise")
    /\ UNCHANGED <<storeVars, landed, left, starts>> /\ KeepAllButWorker

\* taskFromRow, for a resumed promotion.
Rebuild ==
    /\ At("rebuild") /\ NotCancelled
    /\ jobs[worker.job].staged
    /\ Goto("finalise")
    /\ current' = [current EXCEPT !.staging = TRUE]
    /\ UNCHANGED <<storeVars, diskVars, mode, paused, pending, rec, client, crashes, starts>>

EnterVerifying ==
    /\ At("finalise") /\ NotCancelled
    /\ SetJobState(worker.job, "verifying")
    /\ Goto("probing")
    /\ UNCHANGED <<diskVars, starts>> /\ KeepAllButWorker

EnterPromoting ==
    /\ At("probing") /\ NotCancelled
    /\ stagingFile[worker.job] = "whole"
    /\ SetJobState(worker.job, "promoting")
    /\ Goto("verify")
    /\ UNCHANGED <<diskVars, starts>> /\ KeepAllButWorker

\* Promote up to stageOnDestination.
Verify ==
    /\ At("verify") /\ NotCancelled
    /\ stagingFile[worker.job] = "whole"
    /\ Goto("guard")
    /\ UNCHANGED <<storeVars, diskVars, starts>> /\ KeepAllButWorker

VerifyFails ==
    /\ At("verify")
    /\ Unwind("verification_failed")
    /\ UNCHANGED <<storeVars, diskVars, starts>> /\ KeepAllButWorker

\* Plex streams the target or cannot be asked (a cancelled context included):
\* OnBlocked moves the row on a detached context and shrugs off a refusal.
Blocked ==
    /\ At("guard")
    /\ \/ SetJobState(worker.job, "awaiting_stream_end")
       \/ ~SetJobStateAllowed(worker.job) /\ UNCHANGED storeVars
    /\ Goto("deferred")
    /\ UNCHANGED <<diskVars, starts>> /\ KeepAllButWorker

\* Deviation: a deferred replace never asks Plex again.
NeverRetryGuard == FALSE /\ UNCHANGED vars

\* deferReplace wakes after streamRetry and asks again.
RetryGuard ==
    /\ At("deferred") /\ NotCancelled
    /\ Goto("guard")
    /\ UNCHANGED <<storeVars, diskVars, starts>> /\ KeepAllButWorker

StreamClear ==
    /\ At("guard") /\ NotCancelled
    /\ Goto("rename")
    /\ UNCHANGED <<storeVars, diskVars, starts>> /\ KeepAllButWorker

\* The single rename(2): a cancel that arrives this late is not seen.
Rename ==
    /\ At("rename")
    /\ stagingFile[worker.job] # "none"
    /\ stagingFile' = [stagingFile EXCEPT ![worker.job] = "none"]
    /\ landed' = [landed EXCEPT ![worker.job] = TRUE]
    /\ Goto("renamed")
    /\ UNCHANGED <<storeVars, left, starts>> /\ KeepAllButWorker

\* restore and recordIdentity; their error is carried past RecordPromotion.
Restore ==
    /\ At("renamed")
    /\ \E code \in {NoFailure, "other"} :
          worker' = [worker EXCEPT !.pc = "settle", !.failure = code]
    /\ UNCHANGED <<storeVars, diskVars, starts>> /\ KeepAllButWorker

Settle ==
    /\ At("settle")
    /\ RecordPromotion(worker.job)
    /\ Goto(IF worker.failure = NoFailure THEN "clear" ELSE "unwind")
    /\ UNCHANGED <<diskVars, starts>> /\ KeepAllButWorker

\* Deviation: the wait for the stream to end ignores the job's context.
StopsEarlyUnlessDeferred ==
    /\ mode = "up"
    /\ worker.pc \in BodyPoints \ {"prepare", "deferred", "renamed", "settle"}
    /\ Unwind("other")
    /\ UNCHANGED <<storeVars, diskVars, starts>> /\ KeepAllButWorker

\* Any step before the rename returning its error: the encoder chain exhausted,
\* the probe, the index refusing SetJobState, fsync, rename, a cancelled context.
StopsEarly ==
    /\ mode = "up"
    /\ worker.pc \in BodyPoints \ {"prepare", "renamed", "settle"}
    /\ worker.pc = "deferred" => current.requested
    /\ Unwind("other")
    /\ UNCHANGED <<storeVars, diskVars, starts>> /\ KeepAllButWorker

-----------------------------------------------------------------------------
(* withRunning's three ways out: finishCancelled, finishFailed, clearRunning. *)

RemoveStaging(j) == stagingFile' = [stagingFile EXCEPT ![j] = "none"]
RemoveOwnStaging ==
    IF current.staging THEN RemoveStaging(worker.job) ELSE UNCHANGED stagingFile

LeaveBehind == left' = IF stagingFile'[worker.job] = "none" THEN left ELSE left \union {worker.job}

FinishCancelled ==
    /\ At("unwind") /\ current.requested
    /\ RemoveOwnStaging /\ LeaveBehind
    /\ Goto("cancelRow")
    /\ UNCHANGED <<storeVars, landed, starts>> /\ KeepAllButWorker

\* Deviation: the row of a cancelled run is left for somebody else to write.
SkipCancelledRow ==
    /\ At("cancelRow")
    /\ Goto("release")
    /\ UNCHANGED <<storeVars, diskVars, starts>> /\ KeepAllButWorker

FinishCancelledRow ==
    /\ At("cancelRow")
    /\ IF CancelJobFinds(worker.job) THEN CancelJob(worker.job) ELSE UNCHANGED storeVars
    /\ Goto("release")
    /\ UNCHANGED <<diskVars, starts>> /\ KeepAllButWorker

ReleaseMedia ==
    /\ At("release")
    /\ SetMediaStatus(jobs[worker.job].file, "analyzed")
    /\ Goto("clear")
    /\ UNCHANGED <<diskVars, starts>> /\ KeepAllButWorker

FinishFailed ==
    /\ At("unwind") /\ ~current.requested
    /\ IF worker.failure = "verification_failed"
       THEN UNCHANGED stagingFile
       ELSE RemoveOwnStaging
    /\ LeaveBehind
    /\ Goto("failRow")
    /\ UNCHANGED <<storeVars, landed, starts>> /\ KeepAllButWorker

FinishFailedRow ==
    /\ At("failRow")
    /\ FailJob(worker.job, worker.failure)
    /\ Goto("clear")
    /\ UNCHANGED <<diskVars, starts>> /\ KeepAllButWorker

\* clearRunning: the slot empties and done is closed, releasing its waiters.
ClearRunning ==
    /\ At("clear")
    /\ current' = NoCurrent
    /\ worker' = Idle
    /\ client' = [c \in Clients |->
          IF client[c].pc = "waiting" /\ client[c].job = worker.job
          THEN NoCancel ELSE client[c]]
    /\ UNCHANGED <<storeVars, diskVars, mode, paused, pending, rec, crashes, starts>>

-----------------------------------------------------------------------------
(* API handlers. *)

KeepAllButClient ==
    UNCHANGED <<landed, left, mode, paused, worker, pending, rec, crashes, starts>>

\* Cancel: signal the running job and wait, or go on to the row.
CancelCall(c, j) ==
    /\ mode = "up" /\ client[c].pc = "idle"
    /\ State(j) # "absent"
    /\ IF current.job = j
       THEN /\ current' = [current EXCEPT !.requested = TRUE]
            /\ client' = [client EXCEPT ![c] = [NoCancel EXCEPT !.pc = "waiting", !.job = j]]
       ELSE /\ client' = [client EXCEPT ![c] = [NoCancel EXCEPT !.pc = "reading", !.job = j]]
            /\ UNCHANGED current
    /\ UNCHANGED <<storeVars, stagingFile>> /\ KeepAllButClient

CancelReads(c) ==
    /\ client[c].pc = "reading"
    /\ client' = [client EXCEPT ![c] =
          [@ EXCEPT !.pc = "cancelling", !.staged = jobs[client[c].job].staged]]
    /\ UNCHANGED <<storeVars, stagingFile, current>> /\ KeepAllButClient

CancelWrites(c) ==
    /\ client[c].pc = "cancelling"
    /\ \/ /\ CancelJob(client[c].job)
          /\ client' = [client EXCEPT ![c].pc = "releasing"]
       \/ /\ ~CancelJobFinds(client[c].job)
          /\ client' = [client EXCEPT ![c] = NoCancel]
          /\ UNCHANGED storeVars
    /\ UNCHANGED <<stagingFile, current>> /\ KeepAllButClient

CancelReleases(c) ==
    /\ client[c].pc = "releasing"
    /\ SetMediaStatus(jobs[client[c].job].file, "analyzed")
    /\ client' = [client EXCEPT ![c].pc = "unstaging"]
    /\ UNCHANGED <<stagingFile, current>> /\ KeepAllButClient

\* Deviation: Cancel of a row that is not running leaves its staging file.
CancelKeepsStaging(c) ==
    /\ client[c].pc = "unstaging"
    /\ client' = [client EXCEPT ![c] = NoCancel]
    /\ UNCHANGED <<storeVars, stagingFile, current>> /\ KeepAllButClient

CancelUnstages(c) ==
    /\ client[c].pc = "unstaging"
    /\ IF client[c].staged THEN RemoveStaging(client[c].job) ELSE UNCHANGED stagingFile
    /\ client' = [client EXCEPT ![c] = NoCancel]
    /\ UNCHANGED <<storeVars, current>> /\ KeepAllButClient

\* The caller hangs up: its context ends the wait and the store calls, but
\* releaseMedia's error is only logged and removeStaging needs no context.
CancelHangsUp(c) ==
    /\ client[c].pc \in {"waiting", "reading", "cancelling", "releasing"}
    /\ client' = [client EXCEPT ![c] =
          IF @.pc = "releasing" THEN [@ EXCEPT !.pc = "unstaging"] ELSE NoCancel]
    /\ UNCHANGED <<storeVars, stagingFile, current>> /\ KeepAllButClient

KeepAllButStore ==
    UNCHANGED <<diskVars, mode, paused, memVars, crashes>>

Enqueue(f, p) ==
    /\ mode = "up" /\ clock < MaxStamps
    /\ EnqueueJob(f, p)
    /\ KeepAllButStore /\ UNCHANGED starts

Restart(j) ==
    /\ mode = "up" /\ clock < MaxStamps
    /\ RestartJob(j)
    /\ starts' = [starts EXCEPT ![j] = 0]
    /\ KeepAllButStore

SetPaused(b) ==
    /\ mode = "up" /\ paused # b
    /\ paused' = b
    /\ UNCHANGED <<storeVars, diskVars, mode, memVars, crashes, starts>>

-----------------------------------------------------------------------------
(* Death and the startup sweep. *)

\* Also a shutdown: withRunning leaves an interrupted row as it is.
Crash ==
    /\ mode \in {"recover", "up"}
    /\ crashes < MaxCrashes
    /\ crashes' = crashes + 1
    /\ mode' = "down"
    /\ worker' = Idle /\ current' = NoCurrent /\ pending' = <<>>
    /\ rec' = NoRecovery /\ client' = [c \in Clients |-> NoCancel]
    /\ UNCHANGED <<storeVars, diskVars, paused, starts>>

KeepInRecovery == UNCHANGED <<worker, current, client, paused, crashes, starts>>

Boot ==
    /\ mode = "down"
    /\ mode' = "sweep"
    /\ UNCHANGED <<storeVars, diskVars, pending, rec>> /\ KeepInRecovery

\* Deviation: the sweep forgets the rows that died while verifying.
SweptWhileRunning == {j \in JobId : State(j) = "running"}

\* SweepInterruptedJobs is one transaction; nothing else runs in mode "sweep",
\* a crash included, so its rows may be taken one step at a time.
Swept == {j \in JobId : State(j) \in {"running", "verifying"}}

SweepOne(j) ==
    /\ mode = "sweep"
    /\ j \in Swept /\ \A k \in Swept : j <= k
    /\ RequeueOrFail(j)
    /\ rec' = [rec EXCEPT !.unstage = IF jobs[j].staged THEN @ \union {j} ELSE @]
    /\ UNCHANGED <<diskVars, mode, pending>> /\ KeepInRecovery

SweepCommits ==
    /\ mode = "sweep" /\ Swept = {}
    /\ mode' = "recover"
    /\ rec' = [rec EXCEPT !.check = {j \in JobId :
                  State(j) \in {"promoting", "awaiting_stream_end"}}]
    /\ UNCHANGED <<storeVars, diskVars, pending>> /\ KeepInRecovery

\* recoverOne takes the results in id order.
RecoverNext(j) ==
    /\ mode = "recover"
    /\ \A k \in rec.unstage \union rec.check : j <= k

\* running and verifying: the store requeued it, a staging file is debris.
RecoverUnstages(j) ==
    /\ RecoverNext(j) /\ j \in rec.unstage
    /\ RemoveStaging(j)
    /\ rec' = [rec EXCEPT !.unstage = @ \ {j}]
    /\ UNCHANGED <<storeVars, landed, left, mode, pending>> /\ KeepInRecovery

\* recoverAwaiting: the staged output still verifies.
RecoverResumes(j) ==
    /\ RecoverNext(j) /\ j \in rec.check \ rec.intact
    /\ State(j) = "awaiting_stream_end"
    /\ jobs[j].staged /\ stagingFile[j] = "whole"
    /\ pending' = Append(pending, j)
    /\ rec' = [rec EXCEPT !.check = @ \ {j}, !.keep = @ \union {j}]
    /\ UNCHANGED <<storeVars, diskVars, mode>> /\ KeepInRecovery

\* Deviation: the source is taken for intact without looking at it.
RecoverAssumesIntact(j) ==
    /\ RecoverNext(j) /\ j \in rec.check \ rec.intact
    /\ IF jobs[j].staged THEN RemoveStaging(j) ELSE UNCHANGED stagingFile
    /\ rec' = [rec EXCEPT !.intact = @ \union {j}]
    /\ UNCHANGED <<storeVars, landed, left, mode, pending>> /\ KeepInRecovery

\* verdictSourceIntact, in two steps: the staging file, then the row.  Here the
\* verdict knows landed[j]; Promotion has the evidence it really looks at.
RecoverIntact(j) ==
    /\ RecoverNext(j) /\ j \in rec.check \ rec.intact
    /\ ~landed[j]
    /\ IF jobs[j].staged THEN RemoveStaging(j) ELSE UNCHANGED stagingFile
    /\ rec' = [rec EXCEPT !.intact = @ \union {j}]
    /\ UNCHANGED <<storeVars, landed, left, mode, pending>> /\ KeepInRecovery

RecoverRequeues(j) ==
    /\ RecoverNext(j) /\ j \in rec.intact
    /\ RequeueOrFail(j)
    /\ rec' = [rec EXCEPT !.check = @ \ {j}, !.intact = @ \ {j}]
    /\ UNCHANGED <<diskVars, mode, pending>> /\ KeepInRecovery

\* Deviation: a promoting row is taken for promoted without a verdict.
RecoverAssumesPromoted(j) ==
    /\ RecoverNext(j) /\ j \in rec.check \ rec.intact
    /\ RecordPromotion(j)
    /\ rec' = [rec EXCEPT !.check = @ \ {j}]
    /\ UNCHANGED <<diskVars, mode, pending>> /\ KeepInRecovery

\* verdictPromoted: finish what the rename began.
RecoverPromoted(j) ==
    /\ RecoverNext(j) /\ j \in rec.check \ rec.intact
    /\ landed[j]
    /\ RecordPromotion(j)
    /\ rec' = [rec EXCEPT !.check = @ \ {j}]
    /\ UNCHANGED <<diskVars, mode, pending>> /\ KeepInRecovery

\* markPromoted erring on a stat or a fingerprint: logged, the row stays.
RecoverErrs(j) ==
    /\ RecoverNext(j) /\ j \in rec.check \ rec.intact
    /\ landed[j]
    /\ rec' = [rec EXCEPT !.check = @ \ {j}, !.abandoned = @ \union {j}]
    /\ UNCHANGED <<storeVars, diskVars, mode, pending>> /\ KeepInRecovery

\* verdictUnknown: the file was replaced by someone else, is unreadable, or
\* carries the tag of an older policy.
RecoverUndecidable(j) ==
    /\ RecoverNext(j) /\ j \in rec.check \ rec.intact
    /\ FailJob(j, "undecided")
    /\ rec' = [rec EXCEPT !.check = @ \ {j}]
    /\ UNCHANGED <<diskVars, mode, pending>> /\ KeepInRecovery

\* Deviation: the orphan sweep also takes what a resumed promotion needs.
SweepAllStaging ==
    /\ mode = "recover"
    /\ rec.unstage = {} /\ rec.check = {}
    /\ stagingFile' = [j \in JobId |-> "none"]
    /\ mode' = "up"
    /\ rec' = [NoRecovery EXCEPT !.abandoned = rec.abandoned]
    /\ UNCHANGED <<storeVars, landed, left, pending>> /\ KeepInRecovery

\* sweepOrphans, and serve goes on to start the worker and the API.
SweepOrphans ==
    /\ mode = "recover"
    /\ rec.unstage = {} /\ rec.check = {}
    /\ stagingFile' = [j \in JobId |-> IF j \in rec.keep THEN stagingFile[j] ELSE "none"]
    /\ mode' = "up"
    /\ rec' = [NoRecovery EXCEPT !.abandoned = rec.abandoned]
    /\ UNCHANGED <<storeVars, landed, left, pending>> /\ KeepInRecovery

-----------------------------------------------------------------------------
Worker ==
    \/ PopPending \/ PollQueue \/ Claim \/ MarkRunning
    \/ Prepare \/ PrepareFails \/ Launch \/ Encode \/ Rebuild
    \/ EnterVerifying \/ EnterPromoting \/ Verify \/ VerifyFails
    \/ Blocked \/ RetryGuard \/ StreamClear \/ Rename \/ Restore \/ Settle
    \/ StopsEarly
    \/ FinishCancelled \/ FinishCancelledRow \/ ReleaseMedia
    \/ FinishFailed \/ FinishFailedRow \/ ClearRunning

CancelStep(c) ==
    \/ CancelReads(c) \/ CancelWrites(c) \/ CancelReleases(c) \/ CancelUnstages(c)

Recover ==
    \/ Boot \/ SweepCommits \/ SweepOrphans
    \/ \E j \in JobId :
          \/ SweepOne(j) \/ RecoverUnstages(j) \/ RecoverResumes(j)
          \/ RecoverIntact(j) \/ RecoverRequeues(j) \/ RecoverPromoted(j)
          \/ RecoverErrs(j) \/ RecoverUndecidable(j)

Next ==
    \/ Worker
    \/ Recover
    \/ Crash
    \/ \E c \in Clients : CancelStep(c) \/ CancelHangsUp(c)
    \/ \E c \in Clients, j \in JobId : CancelCall(c, j)
    \/ \E f \in Files, p \in EnqueuePriorities : Enqueue(f, p)
    \/ \E j \in JobId : Restart(j)
    \/ \E b \in BOOLEAN : SetPaused(b)

Spec == Init /\ [][Next]_vars

\* The goroutines the Go scheduler keeps running, and a Plex that sooner or
\* later answers "not streaming": without it a job may be deferred for ever.
\* No promise is made about users, crashes or a step's failing.
Fairness ==
    /\ WF_vars(Worker) /\ WF_vars(Recover)
    /\ SF_vars(StreamClear)
    /\ \A c \in Clients : WF_vars(CancelStep(c))

FairSpec == Spec /\ Fairness

\* The same without the promise about Plex: a stream may go on for ever.
StreamForeverSpec ==
    Spec /\ WF_vars(Worker) /\ WF_vars(Recover) /\ \A c \in Clients : WF_vars(CancelStep(c))

-----------------------------------------------------------------------------
(* What the queue promises. *)

Resuming == {pending[i] : i \in 1 .. Len(pending)}

\* A file never has two active jobs, whatever enqueues, restarts and requeues
\* race (the partial unique index, against every writer of jobs.state).
OneActivePerFile ==
    \A j, k \in JobId :
        Active(j) /\ Active(k) /\ jobs[j].file = jobs[k].file => j = k

\* While the process serves, a row in an in-flight state is the worker's own, or
\* is waiting to be resumed, or is one recovery logged an error about: no race
\* and no crash leaves a row that nobody will ever finish.
NoStrandedJob ==
    mode = "up" => \A j \in JobId : State(j) \in InFlightJobStates =>
        \/ worker.job = j
        \/ j \in Resuming /\ State(j) = "awaiting_stream_end"
        \/ j \in rec.abandoned

\* The loop guard of requeueOrFail: a job that keeps dying with the process is
\* claimed at most MaxAutoAttempts + 1 times before a human has to ask again.
AttemptCap == \A j \in JobId : starts[j] <= MaxAutoAttempts + 1

\* RecordPromotion is only ever reached by an execution whose rename landed, in
\* the worker and in recovery alike.
DoneMeansLanded == \A j \in JobId : State(j) = "done" => landed[j]

\* Recovery never re-queues a job whose output already replaced the source.
LandedNeverRequeued ==
    [][\A j \in JobId :
          (mode # "up" /\ landed[j] /\ State(j) # "queued") => State(j)' # "queued"]_vars

\* No staging file is lost or left over: a promotion waiting to be resumed has its
\* whole output on disk, so neither the orphan sweep nor a cancel takes it while the
\* row still awaits; and a staging file on disk while serving is in use, about to be
\* removed by the cancel that owns it, or one that withRunning left behind on its
\* way out.
StagingFollowsRows ==
    /\ \A j \in Resuming : State(j) = "awaiting_stream_end" => stagingFile[j] = "whole"
    /\ mode = "up" => \A j \in JobId : stagingFile[j] # "none" =>
          \/ worker.job = j
          \/ j \in Resuming
          \/ j \in left
          \/ \E c \in Clients : client[c].job = j /\ client[c].staged
                                /\ client[c].pc \in {"releasing", "unstaging"}

\* When Cancel of a running job comes back, the row shows where the job ended (or
\* that someone restarted it since), never a state still in flight.
CancelReturnsSettled ==
    [][mode' = "up" => \A c \in Clients :
          client[c].pc = "waiting" /\ client'[c].pc # "waiting" /\ worker' # worker
          => jobs'[client[c].job].state \in TerminalStates \union {"queued"}]_vars

\* Cancel of a running job comes back, even one deferred behind a Plex stream
\* that never ends.
CancelReturns ==
    \A c \in Clients : client[c].pc = "waiting" ~> client[c].pc # "waiting"

\* A queued job is served unless the queue is paused: no other job, restarted
\* or recovered to the front, keeps it waiting for ever.
QueuedIsServed ==
    \A j \in JobId : State(j) = "queued" ~> (State(j) # "queued" \/ paused)

\* The worker always gets rid of its job: the slot empties again and again.
SlotEmpties == []<>(worker.job = NoJob)

\* Worker.go promises that Cancel returns once the row shows its final state,
\* so only Restart may move a cancelled row.
CancelIsFinal ==
    [][\A j \in JobId : State(j) = "cancelled" => State(j)' \in {"cancelled", "queued"}]_vars

\* The life of a job as its user sees it (JobLifecycle): a job is executing while
\* the worker holds it or its row says so, otherwise the row is the truth.
Phase(j) ==
    IF worker.job = j \/ State(j) \in InFlightJobStates THEN "executing"
    ELSE IF State(j) = "queued" THEN "waiting"
    ELSE IF State(j) \in {"failed", "cancelled"} THEN "dropped"
    ELSE State(j)

Lifecycle == INSTANCE JobLifecycle WITH
    Job <- JobId, Cap <- MaxAutoAttempts + 1,
    phase <- [j \in JobId |-> Phase(j)], tries <- starts

LifecycleSpec == Lifecycle!Spec
=============================================================================
