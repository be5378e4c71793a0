# Codarr, in TLA+

Codarr replaces the files of a media library, one by one, with smaller or more
compatible encodes of themselves. It is one Go process with a SQLite database;
a mistake in the order of its steps costs somebody a file that exists once.
This directory holds models of the parts where that order matters, the TLC
configurations that check them and proofs of the properties that matter most.

Contents: [the system](#the-system), [plan](#plan), [modules and the code](#modules-and-the-code),
[what the runs show](#what-the-runs-show), [what is proved](#what-is-proved),
[what is only model-checked](#what-is-only-model-checked), [what is not modelled](#what-is-not-modelled).

## The system

| Component | Code | State it keeps | Operations | What makes it correct |
|---|---|---|---|---|
| Job store | `pkg/store/jobs.go`, `media.go` | tables `jobs`, `media_files` | enqueue, claim, set state, execution, fail, cancel, restart, sweep, requeue, record promotion, upsert, analysis | one active row per file; the attempt cap; every call one transaction |
| Queue and worker | `internal/job` | one slot `current`, the list `pending`, a wake channel | `Run`, `RunOnce`, `withRunning`, `Cancel`, `Restart`, `Enqueue`, `SetPaused` | no row is stranded, `Cancel` returns and what it returns is final, a queued job is served |
| Crash recovery | `job/recover.go` | none: rows, disk and a verdict | sweep, three verdicts, resume, orphan sweep | never encode again what landed, never lose a finished output |
| Promotion | `internal/promote`, `pkg/fsx`, `pkg/fingerprint` | directory entries | preflight, verify, stage, sync, rename, restore, sweep | the library path always names a complete file; only what was analysed is replaced |
| Ingest | `internal/ingest` | media rows | scan, webhook, analyse, prune | rows describe the files; nothing of ours is queued again |
| Scheduler and cron | `ingest/scheduler.go`, `cron.go` | none | parse, `Next`, `Run` | every scheduled minute the loop is awake for fires, and no other |
| Decision engine | `internal/decide` | none (pure) | `Plan`, `ForceVideoEncode`, `CheckSkip`, `Transform` | an output of the policy plans as skip; no stream is lost |
| Encoder selection, ffmpeg | `internal/hardware`, `internal/ffmpeg` | capability cache, sample files, a ring of stderr lines | probe, select, step back, bitrate, sample, argv, run | the fallback chain ends in software; ffmpeg is given a graph and a rate it can use |
| ffprobe reader | `internal/ffprobe` | none | parse | - |
| Bulk operations | `job/bulk.go`, `estimate.go` | none | recheck, space sweep | a dry run changes nothing; every selected file is looked at |
| Settings, roots, events, throughput | `pkg/store`, `pkg/events` | single-row tables | get, put, prune | a pause is not lost |
| Path mapping | `pkg/pathmap` | none (pure) | attribute, rewrite | longest prefix, at a path boundary |
| Plex, Sonarr, Radarr | `internal/plex`, `internal/arr` | the Plex row, the part cache, instances | sign in, who is streaming, refresh, rescan, webhook | a sign-in is kept; nobody is cut off; the owner is told; an event reaches its files |
| HTTP API | `internal/api` | none | handlers | read-modify-write of rows others write |
| Wiring | `cmd/codarr` | the goroutines | startup order, adapters, shutdown | recovery ends before anything else starts |
| Metrics, clock, web UI | `pkg/metrics`, `pkg/clock`, `web` | - | - | observation only |

**How they interact.** `cmd/codarr` opens the database, runs `Recover` to its
end and only then starts the worker goroutine, the scan scheduler, the events
pruner and the HTTP server. From there on API handlers, scans and webhooks run
beside the one worker. They share three things: the database (one writing
connection, so each store call is atomic, but a handler's two calls are not),
the in-memory slot and pending list under a mutex (not held across store
calls), and the file system, which Sonarr, Radarr and Plex share too.

**What is hard.** The windows between a store call and the memory it is about
(claim and slot, cancel and release); a process that dies between the rename
and the row that records it; a power cut that tears what was not flushed; a
Plex stream that keeps the only worker waiting for hours; a library file that
somebody else replaces during an encode; an analysis that runs beside the
promotion of the same file. `PROJECT.json` lists each with its line.

## Plan

Most important behaviour first. Everything listed as done is in this directory.

1. *Done.* `JobStore`, `JobQueue`: the transactions of the store over `jobs`
   and the media status; worker, handlers, crashes and recovery over them.
   `JobLifecycle`, what the queue promises about one job, refined by `JobQueue`;
   plan.md section 19 says it in prose only. `JobQueueProofs`,
   `JobLifecycleProofs`.
2. *Done.* `Promotion`: contents, directory entries and evidence. It looks
   inside what `JobQueue` takes as one step (rename, record, verdict).
   `PromotionProofs`.
3. *Done.* `Ingest`: several analyses of one file at once (scan, webhook, user),
   the scan's stale row list, prune and return, the integrity check, beside the
   worker. `IngestProofs`.
4. *Done.* `Decide`, `Command`, `Verify`, `Hardware` as operators, and
   `Transcode`, one job through all of them: what is written is what was
   planned, and what was planned is not planned again. `TranscodeProofs`.
5. *Done.* The service around the pipeline: `Cron` and `Scheduler`, `Settings`,
   `PathMap`, `PlexSignIn`, `PlexGuard`, `Notify`, `Bulk`, `Sampling`,
   `Progress`, `Webhooks`, and `Service`, which composes them. `ServiceProofs`
   (the process's own parts), `RemoteProofs` (Plex and the *arrs),
   `CompositionProofs` (the parts together).
6. Worth composing, if the state space allows: `Webhooks` into `Ingest` (an
   event's resolved paths as the analyses it starts), and `Settings` into
   `JobQueue` (the switch as the row other requests write).

## Modules and the code

### JobStore

The two tables as records: `jobs[j]` with state, priority, queue stamp, attempt,
whether a staging path is recorded, and failure code; `mediaStatus[f]`. One
operator per store method, each one transaction. `IndexAllows` is the partial
unique index `idx_jobs_one_active_per_file`: a write that breaks it fails. The
claim takes any minimal row of the `ORDER BY`; a row that does not exist yet has
the state `absent`. Columns nobody decides on (progress, argv, transform,
timestamps other than the stamp) are left out.

### JobQueue

- `worker.pc` is the position of the one goroutine inside `RunOnce`,
  `withRunning` and `Promote`; `current` is the slot `Cancel` looks into;
  `pending` the list recovery leaves.
- The encode is one step that ends well or badly, and so is verification.
  `landed[j]` says whether the latest execution's rename happened.
- `StopsEarly` is every way out of `withRunning` before the end: a cancelled
  context, a shutdown, an error. What each way out does to row, file, staging
  and slot is in `FinishCancelled`, `FinishCancelledRow`, `ReleaseMedia`,
  `FinishFailed`, `FinishFailedRow`, `ClearRunning`, one per call.
- `Cancel` is four steps, with the local variables it carries between them in
  `client[c]`. A caller may hang up at any of them.
- `Crash` loses memory and keeps tables and disk. `Boot`, `SweepOne`,
  `SweepCommits`, the verdicts and `SweepOrphans` are `Recover`. The sweep is
  one transaction, taken one row at a time in a mode in which nothing else runs.
- The verdict of recovery knows `landed[j]`. `Promotion` has the evidence it
  really uses, and shows where that misleads.

### JobLifecycle

One job as its user sees it: asked for, executing, landed, finished, retried or
dropped, with a cap on executions. `JobQueue!LifecycleSpec` is this module with
`phase` read off the row and the slot.

### Promotion

One library path. File contents are *versions*; `made`, `from` and `sound` say
who wrote a version, for which source, and whether it would verify. A directory
entry names a version and says whether it is complete and flushed.

| Variable | Code |
|---|---|
| `library`, `staged[j]`, `copied[j]` | the library path, `.codarr-staging-<id>`, and its copy beside the destination when staging is on another device |
| `row.fp`, `row.out`, `row.probed`, `row.status` | `fingerprint`, `codarr_output_fingerprint`, the stored probe and plan, `status` of `media_files` |
| `job` | the latest job row of the file |
| `worker` | the goroutine: the row it loaded, the staging choice, the identity it took |
| `analysis` | one `AnalyzeIn` between its calls |
| `pending`, `up` | a promotion to resume; recovery is over |
| `touched`, `excused` | history: see the properties |

`Load` to `Regrets` are `execute.go` and `promote.go` step by step; `Analyze*`
are `analyze.go`; `Recover*`, `SweepOrphans` and `Resume` are `recover.go` and
`sweep.go`. `OutsiderWrites` and `OutsiderDeletes` are the *arr applications and
muxers, external. A power cut tears what was not flushed; the rename itself is
taken as durable, as it is on NFS, where the server answers from stable storage.

Abstractions: an equal fingerprint stands for equal content, size and mtime; the
link count, free space and ownership checks of preflight are the choice
`PreflightFails`; the policy is fixed, so a tag is of the current policy;
staging on the destination and on the same device are one case; the attempt cap
is a choice (it is exact in `JobQueue`); the space sweep, which re-encodes
compliant files on purpose, is not there. The queue is one row at a time.

### Ingest

One root and its paths. A content is a version again, and stands for what `Stat`,
the sparse fingerprint and ffprobe say of it.

| Variable | Code |
|---|---|
| `disk`, `kind`, `fresh`, `mount` | what the paths name, what the probe will say of it, which files are inside the stability window, whether the root is mounted (a lost mount may leave an empty directory, which the scan's check accepts) |
| `extras` | paths below an extras directory: the walk skips them, a webhook does not |
| `sent` | webhook events on their way; they may be late, out of order, or never come |
| `row` | `size_bytes` and `mtime` (`stat`), `fingerprint`, the stored probe, `codarr_output_fingerprint`, `provenance`, `status`, `ignored` |
| `job` | whether the file has an active job |
| `call[c]` | one `AnalyzeIn` of a scan, a webhook or the user, with its local variables |
| `scan` | the scanner: what `ListMediaStatsByRoot` returned, what is left to visit, what the prune gives up |
| `hook`, `check` | one webhook request; one integrity check between its hash and its write |
| `worker` | the running job, as far as files and rows show it |
| `vanished`, `belated` | history: see the properties |

`Analyze*` are the calls of `AnalyzeIn` one by one, so two analyses cross in every
order; `Scan*` are `scan.go`, `Hook*` `webhook.go`, `User*` and `Verify*` the
handlers. `Job*` is the pipeline with only the steps that others see: the check
of preflight, the rename, the identity's stat and fingerprint, and the record;
`Recovers` is what recovery makes of them after `Crash`. `Outsider*` and
`Mount*` are external.

Abstractions: a path is one that `ExcludeFile` lets through; a probe may fail at
any time; a webhook's instance, mappings and folder walk are not there; a
request that asks for several files is several requests; there is one root.

### Decide, Command, Verify, Hardware, Transcode

`Decide` is the policy: what `VideoStream`, `AudioStream` and `SubtitleStream`
do with one stream, `Plan` and `ForceVideoEncode` with the file. The streams of
one type are a function from their *positions*, so an output index and a source
index stay different things. `Command` is the rate control of `bitrate.go`, the
idet counts, and the command of `argv.go` as data: what is mapped to where, which
options go to which output stream, the filter chain and where its frames are.
`FFmpeg(f, command)` is external: the file ffmpeg makes when it does as it is
told. `Verify` is the checks of `verify.go` and the transform record of
`decide/transform.go`. `Hardware` is the probe run, its cache, and the choice
among the encoders.

`Transcode` is the pipeline of `job/execute.go` for one job, step by step:
re-planning of the stored probe, target bitrate (samples or formula), the scan
type, capabilities, encoder, the recorded execution, the attempt, `stepBack`,
verification, and the record. ffmpeg may fail, may end well with damaged output
(a stream lost, a short file), and may write as told.

A file is what the policy tells apart: codecs, profiles, levels, containers,
languages, dispositions, Dolby Vision profile, what the headers claim of the
duration and the rate. Bitrates are kbit/s and integer division is the code's.

### The service around the pipeline

| Module | Code | State, and what takes its steps |
|---|---|---|
| `Cron`, `Scheduler` | `ingest/cron.go`, `scheduler.go` | the parser and the search for the next minute over a calendar; the loop's position, its wake and the settings it read; the clock runs beside it |
| `Settings` | `api/settings.go`, `job/worker.go` (pause, resume, `Paused`) | the row; each request with the row it read; the worker between look and claim; process stops |
| `PathMap` | `pkg/pathmap` | rewriting and attribution, as operators on paths that are sequences of names |
| `PlexSignIn` | `api/plex.go`, `store/plex.go` | the Plex row, each request with the row it read, the PINs of plex.tv |
| `PlexGuard` | `adapters.go`, `plex/sessions.go` | the guard's position, the part cache; sessions, items and mappings that change under it |
| `Notify` | `arr/notify.go`, `rescan.go`, `adapters.go`, `api/arr.go`, `api/roots.go` | the notifier's position; instances and roots that are edited meanwhile |
| `Bulk` | `job/bulk.go`, `api/bulk.go` | the pages read so far, what was examined and queued; a list that changes |
| `Sampling` | `ffmpeg/sample.go`, `execute.go` | directories and sample files, each window of each probe; crashes |
| `Progress` | `ffmpeg/runner.go`, `progress.go` | the two readers, the throttle, the ring of lines, the stored row |
| `Webhooks` | `arr/webhook.go`, `api/webhook.go`, `ingest/webhook.go` | payloads on their way, the request between its reads |

Plex, plex.tv, the *arrs, ffmpeg and the clock are external actions. Variables
that only a property reads (who was watching since the check began, which rows
were on the list all along) are named as such where they are declared.

`Service` puts the parts next to one another, and `MCService` gives them a small
instance. They share no variable, and none of them calls another, so one of them
takes the steps of a behaviour and the others rest. The composition states nothing about two parts together;
what one part asks of another's *operators* (the guard, the notifier and the
webhook receiver of `PathMap`, the scheduler of `Cron`) goes through EXTENDS.

## What the runs show

| Run | Instance | Shows |
|---|---|---|
| `queue_safety` | 1 file, 2 rows, 1 client, 2 crashes, 2 stamps, 1 retry | ten properties of the queue, `CancelReturns` and `LifecycleSpec` among them |
| `queue_liveness` | 2 files, 2 rows, 2 crashes, 3 stamps | queued jobs are served, the slot empties |
| `cancel_race` | 2 rows, 1 client, no crash | *violated*: a cancelled row moves on by itself |
| `promotion_safety` | 3 versions, 2 rows, 2 crashes, 1 outsider, 1 analysis | the library is playable, replacement and records are right |
| `output_mistaken` | the same, 1 crash, no outsider | *violated*: recovery takes an output for the source |
| `output_reencoded` | the same, no crash, a user | *violated*: an output is encoded again |
| `ingest_safety` | 1 path, 3 versions, all callers, 2 events of which 1 fault | provenance, prune, fingerprints and verdicts stay right |
| `ingest_follow` | 2 paths, 2 versions, scan only, 3 events of which 1 fault | every row follows its file in the end |
| `ingest_stale_plan` | 1 path, 2 versions, scan only, 2 events, no fault | *violated*: a job starts with the plan of another content |
| `transcode` | 171 files, 4 caches, 3 devices, every way ffmpeg can end | outputs comply, keep their streams, are recorded as they are; the fallbacks end |
| `service` | nine parts, each on its own instance | nine properties of the service, one per part |
| `dry_run` | 4 files, pages of 2 | *violated*: a dry run queues jobs |

**Bounds, and why they are enough.** `MaxStamps` bounds enqueues and restarts
together, `MaxCrashes` deaths, `MaxJobs` rows. Two rows of one file are what an
enqueue behind a cancelled run needs; two crashes are what the cap needs at one
automatic attempt, and what a crash *during recovery* needs. In `Promotion` a version is
used up by every encode and import: three are the first import, one output and
one more of either kind. The same configuration with four versions (two encodes
and two imports) has 12.3 million states and holds too; it takes two and a half
minutes and is not among the runs. Liveness is checked without symmetry.

In `Ingest`, `MaxEvents` bounds together what others do to the library, what the
user asks for, and faults; `MaxFaults` the faults among them (a crash, an
analysis that breaks off, a lost mount). Scans are not bounded, nor are analyses
that fail. Two events put a rewrite, a deletion, a request or a crash into the
middle of the analysis of an import, which is where each property breaks when
the code is changed; `Callers` leaves out callers a run does not need. Two paths
let a file move into or out of the part of the tree that was walked already.
`ingest_safety` has 2.3 million states; with two paths and a webhook there are
more than can be visited in minutes, so moves are checked under the scan alone.

`Transcode` takes one job through every file of `AllFiles`, which vary one part
at a time: the copy test and both sides of its boundaries, pairs of audio
streams, three subtitle streams with a hole between them, covers, containers that
disagree with the name, headers without a duration, and each place a source
bitrate may come from. The devices are one that fails Main 10 on its first backend,
one that encodes by VA-API alone and decodes nothing, and none; the cache may be
empty, complete, partial or of another ffmpeg, and may claim what the device no
longer does. The chain of attempts is finite, so the model has no bound of its own.

In `service` each part has the smallest instance in which its races exist: three
callers for the settings (one pause, one stale save, one resume), two browsers,
two PINs and two identifiers for the sign-in, two items with two files and a
second name each for the guard, two instances and nested roots for notifications,
two pages of two files for bulk, two windows, a worker and a sweep for the
samples. The calendar has months of three and two days and a week of two, hours
of three minutes and days of two hours; `Horizon` ends time after 48 ticks of half
a minute, four such days, which reaches every rule of `matchesDay` and a date that
never comes. `MaxKills`, `MaxEdits`, `MaxChanges`, `MaxBlocks`, `MaxLines` and
`MaxTicks` bound crashes, edits, list changes, progress reports, stderr lines and
time, `MaxEvents` what the *arrs do; `RingSize` is smaller than `MaxLines`, so the ring wraps.

**Deadlock** is checked in the queue, promotion and ingest runs: the worker polls
for ever, so no state stops. A job of `Transcode` ends, and so do time, PINs and
bounded edits in `service`; those runs say `CHECK_DEADLOCK FALSE`.

**Fairness.** `WF(Worker)` and `WF(Recover)`: the Go scheduler runs a runnable
goroutine, and each call the worker makes ends (ffmpeg under a context, SQLite
under a busy timeout). `WF(CancelStep(c))`: a handler too. `SF(StreamClear)`:
when the worker asks Plex again and again, it is at some time told that nobody
streams; it is only assumed for `queue_liveness`, where without it a job is
deferred for ever, as intended. `CancelReturns` is checked in `queue_safety`
without it. Nothing is assumed of users, crashes, or of any step's success. In `Ingest`, `SafetyNet`
assumes that the scheduler starts scans again and again, that a scan, an analysis
and the worker go on once started, that the stability window passes, and that a
lost mount comes back; webhooks need not arrive. In `Transcode`, `WF(Next)` says
that the worker goes on and that ffmpeg ends, one way or another (it runs under
the job's context); it says nothing of how. `service` has safety only.

**The violated runs** state what the repository's own comments say:

- `cancel_race`: `worker.go:118` says the caller's next read sees the final
  state. Between `ClaimNextJob` and `markRunning` the job is in no slot, so
  `Cancel` writes the row and returns while the run goes on and overwrites it.
- `output_mistaken`: `recover.go:127` has the fingerprint prove the source. An
  analysis between the rename and `RecordPromotion` puts the output's own
  fingerprint on the row; a crash then makes it "the source, intact".
- `output_reencoded`: `api/media.go:102` leaves it to the queue to see that there
  is nothing to do. The queue looks at the stored plan, which `RecordPromotion`
  leaves as it was for the source.
- `ingest_stale_plan`: plan.md:1152 has preflight check that the source is
  unchanged since analysis. It compares the file with the row's identity, which
  `UpsertMediaFile` refreshes before the new content is probed: a job queued for
  the old content, claimed in that moment or after the probe failed, passes.
- `dry_run`: `api/bulk.go:13` says nothing is queued without confirm. A recheck
  calls the analyzer, which queues what it plans (`ingest/analyze.go:247`).

**Exceptions the properties state.**

`StatImpliesFingerprint` excuses a fingerprint that an integrity check wrote
after the file had changed under it (`belated`), and holds only while no content
that was moved away returns between two reads of one analysis; the run's single
path excludes that. `PassedOverComplies` takes the row's word for what is our
own output: a tagged file that recovery adopted counts as ours.

`ReplacesOnlyWhatWasAnalysed` excuses a file that somebody else wrote after the
preflight: the code looks at the link count again, not at the content, and such
an import is overwritten. `WrittenIsRecorded` excuses outputs whose identity
could not be taken, that recovery failed as undecidable, that it resumed
although they had landed (staging on another device), or that an analysis
fingerprinted first (the case of `output_mistaken`).

`SoundOutputPasses` exempts plans with two audio streams and a subtitle (below).
`PauseStopsTheQueue` exempts a pause answered while another request holds an
older row, and one job whose turn had begun; `TokenKept` a token stored while
another request holds an older row. `ScansOnSchedule` is about a loop that keeps
up. `GuardSeesReaders` exempts a wrong mapping and a file renamed while the part
cache still has its old name; `OwnerIsTold` an item no webhook named and edits at
that very time; `EveryFileExamined` lists that change under the pages.

### Where code and text disagree

Besides the violated runs, reading the code for the models showed these. None has
a run of its own.

- *Verification order.* The engine numbers kept streams within their type
  (`decide/engine.go:197-212`), `promote/verify.go:261` sorts the numbers of all
  types together: a sound output with two audio streams and a subtitle is refused
  after its encode.
- *Plan.* `HDRTransfer` is never set on a plan, so HLG is encoded as smpte2084.
  Dolby Vision 7 and 8 that is encoded again into MP4 is still tagged dvh1.
  `ffmpeg/bitrate.go:95` says HDR covers any 10-bit source; the input is `IsHDR`
  alone. A sample rate of 0 fails the job, where `execute.go:224` has the formula
  take over.
- *Hardware.* The cache does not know which device it is about. A codec whose
  sample cannot be made is stored as one that does not decode, which the text
  calls inconclusive.
- *Recovery.* `recover.go:235` tells the operator that an undecided staging file
  was left in place; the orphan sweep of the same recovery removes it.
- *Samples.* `execute.go:262` leaves the probe directory to the orphan sweep,
  which cannot remove one that is not empty: one later run of the job finds the
  leftover, falls back to the formula and clears it. Two sweeps share a directory.
- *Space sweep.* A file whose stored plan is skip is listed by the preview and
  never queued (`job/enqueue.go:110`, before `ForceVideoEncode` is asked).
- *Webhooks.* The old path of a rename is to be retired (`api/webhook.go:71`);
  analysing it fails at the stat and the row stays until the next scan. A rename
  without file paths is said to walk its folder (`ingest/webhook.go:192`);
  validation refuses it before.
- *Owner.* `unmonitor_after` cannot work for Sonarr, whose episode ids are
  dropped; the entity id is whichever instance's webhook came last;
  `adapters.go:299` says a rescan that names nothing is a full one, which is
  refused as `ErrNoItem`. An import of roots creates those before the one that
  fails, and nested ones `CreateRoot` refuses.
- *Schedule.* A wake that comes in a later minute loses that day's scan; "5-5/2"
  is read as open-ended.
- *Rows.* Two overlapping `StartPlexAuth` store two identifiers, and the first PIN
  is never found. A mapping to "/" yields a path with an empty name.
- *Throughput.* The time of a job counts what it waited behind Plex
  (`execute.go:682`), which the averages take for the speed of the encode.

## What is proved

`tlapm` checks every leaf; the only assumptions are the ones on the constants,
which TLC evaluates on the instances above. So the theorems hold for every number
of files, rows, paths, clients, versions, windows, crashes and attempts.

| Assumption | What it says |
|---|---|
| `StoreAssumption`, `QueueAssumption`, `PromotionAssumption`, `IngestAssumption`, `SettingsAssumption`, `SignInAssumption`, `SamplingAssumption`, `NotifyAssumption`, `GuardAssumption`, `BulkAssumption`, `ProgressAssumption`, `WebhooksAssumption` | bounds are naturals (one version at least, and one row in `Promotion`), priorities are integers, there is a file, a page and a ring have room; a listing is finite; the selections a bulk request may name are of files or of no file; there is a list of mappings; the values that stand for "none" are none of the others |
| `NotifyPaths`, `WebhooksPaths` | a root's path, a folder and a name are sequences of names |
| `SourcesAssumption` | a source is a file as ffprobe describes one: finitely many streams at natural positions, integers for rates and sizes, strings for codecs |
| `ContentAssumption` | the `content` of a stream, which stands for the stream itself, tells it from the others of its type; only `RecordHolds` and the lemmas under it need this |
| `PlayableAssumption` | a source lasts longer than nothing, and Dolby Vision profile 5 is HEVC, as it is by definition; only `SoundOutputHolds` needs this |
| `SchedulerAssumption`, `CalendarAssumption`, `SearchAssumption`, `CronsAssumption` | the calendar has a date for every day up to the horizon, within its own ranges; the search goes further than the next minute; the parts of an expression have integers in them, readable or not |
| `CachesAssumption`, `WorksAssumption`, `SampleRatesAssumption` | a cache and a device are about entries of the capability table; a sampled rate is a natural |

**JobQueueProofs.** `Typed` first, with the fact that a worker or client at work
names a row. `BaseHolds` adds who may be where in which mode (nothing runs
during recovery, rows under recovery are in the states recovery looks for).
`OneActive` needs only the index and the types: each writer that makes a row
active either keeps it active or asks the index. `Capped` needs that a row's
executions are paid for by its `attempt` column: at most `attempt` of them while
the row is queued, one more afterwards. `NoneStranded` needs the list of who owns a row in
flight: the worker, the pending list or recovery's own work lists; every step
that drops one owner hands the row to another or to a terminal state.
`OnlyLandedIsDone` needs that a row is not done, and the rename not undone,
while the worker still holds it.

**JobLifecycleProofs.** Four more invariants, each on top of the ones before.
`HeldRowsExist`: a job somebody holds has a row. `ListsHold`: a promotion is on the
list once and never the worker's own, nothing is claimed before the list is empty,
and what recovery will unstage is settled. `DiskHolds` relates rows and disk: an
output lands once in an execution, a row that is still encoding has not landed, a
waiting promotion has its whole output, and no `Cancel` call is about to remove it.
`StagingFollows`, `LandedStays` and `CancelSettles` follow. `ImplementsLifecycle`
is the refinement: each step either changes nothing of what `JobLifecycle` sees of
any row or is one of its actions on one row (`LifeMove` names which), and the
landed output is what decides between done and waiting again. `SlotMoves` is the
half of `CancelReturns` that is not fairness. A `Cancel` call waits only for the job
in the slot, with the request noted there (`SlotHeld`). The worker in the slot goes
forward through the points of `withRunning` (`Point` counts them) or lets the slot
go and leaves nobody waiting; the one way back, from waiting for a stream's end to
asking Plex again, is closed once somebody has asked it to stop (`Onwards`). So a
wait can only last if the worker stops moving, which the fairness of its steps
excludes.
`RecoveryEnds` is the same for a restart: `StepsToServe` counts the rows
the sweep has yet to write, the staging files it has yet to remove and the promotions
it has yet to decide (two steps each, the file before the row), every step of
`Recover` leaves fewer, no handler and no worker takes a step meanwhile, and none are
left exactly when the process serves. So a start that does not die again serves after
at most `4 * MaxJobs + 3` steps.

**PromotionProofs.** `Typed` likewise. `Playable` is not inductive by itself:
the rename makes the staged file the library file, so `PlayableInv` follows the
output. What is past verification is sound and complete on the staging path
(`StagedIsFit`), past the copy beside the destination too (`CopiedIsFit`), past
the flush it is on disk (`TargetIsSynced`), and so is the library file
(`LibraryIsFit`), which a power cut therefore leaves alone. All of this is about
the *current* row's staging file, so the invariant also says that the row cannot
be replaced by a new one under a running pipeline (`OwnsRow`) or under a
promotion that waits to be resumed (`PendingWaits`). `ReplacesAnalysed` follows
the source instead (`SourceInv`): the library holds what preflight compared until
the encode begins, and then what the staged output was made from, or that output
itself when its copy was renamed before a crash. `Written` needs to know what an
unrecorded output looks like (`WrittenInv`): its run is about to record it or died
there with a row recovery looks at; and the fingerprint a row holds is never its,
which is why the verdict "the source is intact" may queue the job again.

**IngestProofs.** `Typed` and `ProvenanceIsDerived` together, with the fact that
an analysis, a check and a job at work name a path. Each write to a row falls
into one of four shapes, with a lemma each: a status, a fingerprint with the
provenance derived from it (upsert, analysis, integrity check), the output's
fingerprint as both, and missing. `GivesUpOnlyTheGone` is about the scan alone:
while it runs, every path that cannot be seen is in `vanished`, so the prune's
own stat settles it; the worker's rename puts one file in the place of another
and takes nothing away. `FingerprintIsOfStat` and `FinishedComplies` rest on
`SInv`: an analysis whose stat the disk still has holds the fingerprint and the
probe of that very content, since a stat comes first and new content has a new
stat. Content that was moved away and comes back while an analysis is between its
stat and its fingerprint breaks this, in the code as in the model; `NothingReturns`
excludes that step and no other. It is an action property, not an assumption
about the system, and `OnePath` shows that every behaviour on one path has it,
which is the instance the run checks without it.

**TranscodeProofs.** `TInv` is about the job's own course. Pairs of encoder and
decode path are ranked; each attempt is above all that failed (`ChainDescends`), so
none runs twice, and what is left when `stepBack` gives up is the software encoder:
`FallbackHolds`. The target is in the band of the source's picture whichever of
sample, formula and clamp made it (`InBand`): `FedHolds`. `PInv` adds that the plan
is the policy's for this source, that the output is what ffmpeg writes for the
command or a damaged form of it, and which record there is. `LibraryComplies` is
then about operators: for every file the policy plans to write, the file
`FFmpeg(f, Build(..))` is one it plans nothing for, video, audio, subtitles and
container in turn, and each kind of damage either is refused or leaves this true.
`StreamsKept` and `RecordHolds` rest on output indices: the place of a kept stream
among the kept ones and the stream at that place are inverse, and ascend.
`SoundOutputHolds` compares the positions a plan expects with those there are.
`JobRunsDown` is the half of `JobEnds` that is not fairness: `StepsLeft`, at most 24
and read off the phase and the rank of the attempt, falls with every step, and is 0
exactly when the job has ended.

**RemoteProofs.** `SignInKept` rests on what requests in flight *would*
write: while nobody asks for another token, each of them would write the token the
row has (`Agreed`), whoever is first. `GuardHolds`: from the listing of sessions on,
each of those who have been reading the file all along is accounted for, by the file
its session names, or by an item that is yet to be looked up or was by now. `OwnerHears`: what a notification has read (roots, instance, item) is
still so unless somebody edited it, and the deepest root over a file is one;
`EventReaches`: each shape of a payload says where its files are.

**ServiceProofs.** `PauseHolds`: a pause that nothing in flight can undo holds.
The invariant says that the row is paused, that no request holds a row to write
that is not, and that the starts so far and the one the worker may be about to
make are one at most (`Due`). `MeasuresItself`: nobody but the worker writes in the
job's directory (`DirIsThere`, `Windows`), what lies there is its own or a leftover,
and every leftover was paid for by a crash and is met by one run (`Charged`).
`AllExamined`: what has been read is the files of the lowest ranks of the listing
(`ReadIsLowest`), whoever enters it. `NothingLost`: reading what waits on the pipe,
from where the parser is, leads to what ffmpeg said last (`AllIsHeard`), and copying
what waits leads to a ring of the last lines (`AllIsCopied`); both are stated by a
function over the queue, since a sum over it would need a recursion.
`FiresOnSchedule`: `NextMatch` searches by a recursive function, which exists
because each step goes to a later minute (`SearchIsDefined`); it finds the very next
minute if and only if that one matches (`NextMinute`). The fields as parsed hold
the numbers the expression says (`ParsedMeans`). `NextSaysFirst` says the same of
every search, however far it goes: the first minute the expression says, and none
only if there is none within reach; the days and hours that are skipped have the
date or the hour that made them skip (`PassesOver`). The invariant is that a loop
asleep looked at the settings less than a minute ago, and waits for what that look
found; so the next minute is the one it looked at, and it scans then if and only
if the expression names it.

**CompositionProofs.** `PartsGoOn`: a behaviour of `Service` is one of each part,
whose variables the other eight leave alone. `PartsKeepTheirWord` then gives the
properties of the parts for the specification the run checks them of, and
`ServiceTyped` its type: the parts' proofs carry the types they need, and the lemmas
here add the rest (the settings a loop has read, the guard's cache and session, the
request a webhook is at, the pages of a bulk operation).

## What is only model-checked

Liveness (`QueuedIsServed`, `SlotEmpties`, `CancelReturns`, `SafetyNet`,
`JobEnds`) stays with TLC: the prover has no rules for fairness, and none for
ENABLED. Of `CancelReturns`, `JobEnds` and the recovery before `QueuedIsServed` the
part that needs neither is proved (`SlotMoves`, `JobRunsDown`, `RecoveryEnds`). Every invariant and every action property of the
passing runs is a theorem. The properties of the violated runs are false of the
code and are not proved of course.

## What is not modelled

- Store errors other than the ones the modules name: a failing SQLite write in a
  clean-up path of `withRunning` strands the row until the next start, and no
  property is stated about it.
- `media_files.status` beside a cancel: `releaseMedia` is a transaction of its
  own, so the status can say `analyzed` while a job is queued. No decision of
  the queue reads it.
- The parts of the service as one system: each is explored by itself, beside the
  pipeline and not with it. Where the pipeline calls one (the guard before a
  rename, the switch before a claim), its model has that call as a choice.
- `CancelReturns` is checked with one client; `Sampling` with one sweep of a file
  at a time, next to the worker; `Webhooks` with one request being handled.
- How a cancelled ffmpeg is ended (the signal, the wait delay, the kill), and the
  argv of the hardware probes.
- The estimates, throughput averages and the events log: nothing decides on them.
- The write probe of preflight, metrics, wording, parsing of ffprobe output,
  transport and connection tests of the clients, the web UI: formatting, I/O and
  observation.
- Connection set-up and migrations of the store; what the models take from them
  is that one write transaction runs at a time.
- Generated code (`api/*.gen.go`, mocks) and vendored assets.
