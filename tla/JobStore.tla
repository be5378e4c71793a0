------------------------------ MODULE JobStore ------------------------------
(***************************************************************************)
(* The two tables the queue lives in, jobs and media_files, and the        *)
(* transactions of internal/pkg/store that move them.  SQLite has a single *)
(* write connection, so each operator below is one atomic step.            *)
(*                                                                         *)
(* A job row is identified by its integer id.  Of its columns the    *)
(* model keeps those the queue's control flow reads: the file, the state,  *)
(* the two sort keys, the interruption counter, whether staging_path is    *)
(* set, and a coarse failure_code.                                         *)
(***************************************************************************)
EXTENDS Integers

CONSTANTS
    Files,              \* media_files rows
    MaxJobs,            \* bound: how many job rows are ever inserted
    EnqueuePriorities,  \* what PriorityFor may answer: 90, 100, 110 in the code
    MaxAutoAttempts     \* domain.MaxAutoAttempts, 3 in the code

ASSUME StoreAssumption ==
    /\ MaxJobs \in Nat
    /\ EnqueuePriorities \subseteq Int
    /\ MaxAutoAttempts \in Nat
    /\ Files # {}

VARIABLES
    jobs,   \* the jobs table: row by id, state "absent" until inserted
    media,  \* media_files.status by file
    clock   \* the last queued_at stamp handed out

storeVars == <<jobs, media, clock>>

JobId == 1 .. MaxJobs
InFlightJobStates == {"running", "verifying", "awaiting_stream_end", "promoting"}
ActiveJobStates == InFlightJobStates \union {"queued"}
TerminalStates == {"done", "cancelled", "failed"}
JobStates == ActiveJobStates \union TerminalStates
MediaStatuses == {"analyzed", "queued", "processing", "done", "failed"}

\* Two codes matter to what happens to the staging file; the rest are "other".
FailureCodes == {"verification_failed", "undecided", "interrupted", "other"}
NoFailure == "none"

JobRow == [file : Files, state : JobStates \union {"absent"}, priority : Int,
           queuedAt : Nat, attempt : Nat, staged : BOOLEAN,
           failure : FailureCodes \union {NoFailure}]

AbsentRow == [file |-> CHOOSE f \in Files : TRUE, state |-> "absent", priority |-> 0,
              queuedAt |-> 0, attempt |-> 0, staged |-> FALSE, failure |-> NoFailure]

StoreTypeOK ==
    /\ jobs \in [JobId -> JobRow]
    /\ media \in [Files -> MediaStatuses]
    /\ clock \in Nat

StoreInit ==
    /\ jobs = [j \in JobId |-> AbsentRow]
    /\ media = [f \in Files |-> "analyzed"]
    /\ clock = 0

State(j) == jobs[j].state
Active(j) == State(j) \in ActiveJobStates
Queued == {j \in JobId : State(j) = "queued"}

\* Deviation: the partial unique index is missing from the schema.
IndexMissing(j, f) == j \in JobId /\ f \in Files

\* idx_jobs_one_active_per_file: row j may hold an active state only when no
\* other row of its file does.  A statement that breaks it is an error.
IndexAllows(j, f) == \A k \in JobId \ {j} : jobs[k].file = f => ~Active(k)

-----------------------------------------------------------------------------
\* EnqueueJob: INSERT ... ON CONFLICT DO NOTHING, and the media row with it.
EnqueueJob(f, p) ==
    \E j \in JobId :
        /\ State(j) = "absent"
        /\ \A k \in JobId : State(k) = "absent" => j <= k
        /\ IndexAllows(j, f)
        /\ clock' = clock + 1
        /\ jobs' = [jobs EXCEPT ![j] =
              [file |-> f, state |-> "queued", priority |-> p, queuedAt |-> clock',
               attempt |-> 0, staged |-> FALSE, failure |-> NoFailure]]
        /\ media' = [media EXCEPT ![f] = "queued"]

\* ORDER BY priority ASC, queued_at ASC, id ASC.
RunsBefore(j, k) ==
    \/ jobs[j].priority < jobs[k].priority
    \/ /\ jobs[j].priority = jobs[k].priority
       /\ \/ jobs[j].queuedAt < jobs[k].queuedAt
          \/ jobs[j].queuedAt = jobs[k].queuedAt /\ j <= k

\* ClaimNextJob, for the row j its SELECT picks.
ClaimNextJob(j) ==
    /\ j \in Queued
    /\ \A k \in Queued : RunsBefore(j, k)
    /\ jobs' = [jobs EXCEPT ![j].state = "running"]
    /\ media' = [media EXCEPT ![jobs[j].file] = "processing"]
    /\ UNCHANGED clock

\* SetJobState: unconditional in the code, so only the index can refuse it.
SetJobStateAllowed(j) == IndexAllows(j, jobs[j].file)

SetJobState(j, s) ==
    /\ SetJobStateAllowed(j)
    /\ jobs' = [jobs EXCEPT ![j].state = s]
    /\ UNCHANGED <<media, clock>>

\* UpdateJobExecution, of which only the staging path steers anything.
UpdateJobExecution(j) ==
    /\ jobs' = [jobs EXCEPT ![j].staged = TRUE]
    /\ UNCHANGED <<media, clock>>

\* FailJob / failJobTx.
FailJob(j, code) ==
    /\ jobs' = [jobs EXCEPT ![j].state = "failed", ![j].failure = code]
    /\ media' = [media EXCEPT ![jobs[j].file] = "failed"]
    /\ UNCHANGED clock

\* CancelJob; its WHERE clause makes it ErrNotFound on a finished row.
CancelJobFinds(j) == State(j) \notin TerminalStates

CancelJob(j) ==
    /\ CancelJobFinds(j)
    /\ jobs' = [jobs EXCEPT ![j].state = "cancelled"]
    /\ UNCHANGED <<media, clock>>

\* Deviation: a job state written into media_files.status.
SetMediaStatusAsJob(f, s) ==
    /\ media' = [media EXCEPT ![f] = "cancelled"]
    /\ UNCHANGED <<jobs, clock>>

\* SetMediaStatus.
SetMediaStatus(f, s) ==
    /\ media' = [media EXCEPT ![f] = s]
    /\ UNCHANGED <<jobs, clock>>

\* frontPriority: one below the least of the queued priorities and the row's own.
IsFrontPriority(j, p) ==
    /\ \A k \in Queued \union {j} : p < jobs[k].priority
    /\ \E k \in Queued \union {j} : p = jobs[k].priority - 1

FrontCandidates(j) == {jobs[k].priority - 1 : k \in Queued \union {j}}

\* Deviation: RestartJob also takes a finished row.
RestartAnyFinished(j) ==
    /\ State(j) \in TerminalStates
    /\ IndexAllows(j, jobs[j].file)
    /\ clock' = clock + 1
    /\ jobs' = [jobs EXCEPT ![j].state = "queued", ![j].queuedAt = clock', ![j].attempt = 0]
    /\ media' = [media EXCEPT ![jobs[j].file] = "queued"]

\* RestartJob.
RestartJob(j) ==
    /\ State(j) \in {"cancelled", "failed"}
    /\ IndexAllows(j, jobs[j].file)
    /\ clock' = clock + 1
    /\ \E p \in FrontCandidates(j) :
          /\ IsFrontPriority(j, p)
          /\ jobs' = [jobs EXCEPT ![j] =
                [@ EXCEPT !.state = "queued", !.priority = p, !.queuedAt = clock',
                          !.attempt = 0, !.staged = FALSE, !.failure = NoFailure]]
    /\ media' = [media EXCEPT ![jobs[j].file] = "queued"]

\* Deviation: the loop guard compares with > instead of >=.
RequeueOrFailLate(j) ==
    IF jobs[j].attempt > MaxAutoAttempts
    THEN FailJob(j, "interrupted")
    ELSE /\ jobs' = [jobs EXCEPT ![j].state = "queued", ![j].attempt = @ + 1]
         /\ media' = [media EXCEPT ![jobs[j].file] = "queued"]
         /\ UNCHANGED clock

\* requeueOrFail: the loop guard of the startup sweep.
RequeueOrFail(j) ==
    \/ /\ jobs[j].attempt >= MaxAutoAttempts
       /\ FailJob(j, "interrupted")
    \/ /\ jobs[j].attempt < MaxAutoAttempts
       /\ \E p \in FrontCandidates(j) :
             /\ IsFrontPriority(j, p)
             /\ jobs' = [jobs EXCEPT ![j] =
                   [@ EXCEPT !.state = "queued", !.priority = p,
                             !.attempt = jobs[j].attempt + 1, !.staged = FALSE]]
       /\ media' = [media EXCEPT ![jobs[j].file] = "queued"]
       /\ UNCHANGED clock

\* RecordPromotion: job and file move to done together, whatever the row held.
RecordPromotion(j) ==
    /\ jobs' = [jobs EXCEPT ![j].state = "done", ![j].failure = NoFailure]
    /\ media' = [media EXCEPT ![jobs[j].file] = "done"]
    /\ UNCHANGED clock
=============================================================================
