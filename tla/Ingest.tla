------------------------------- MODULE Ingest -------------------------------
(***************************************************************************)
(* How media_files keeps up with a library that others write               *)
(* (internal/ingest): the scheduled scan with its prune, the *arr          *)
(* webhooks, the analyses a user asks for, the integrity check, and the    *)
(* worker, which replaces files while all of them look.                    *)
(*                                                                         *)
(* There is one enabled root.  A file's content is a version; it stands    *)
(* for size and mtime, which Stat reads, for the sparse fingerprint, and   *)
(* for what ffprobe reports.  The paths are ones ExcludeFile lets through. *)
(***************************************************************************)
EXTENDS Naturals

CONSTANTS
    Paths,        \* library paths
    NoPath,       \* not one of them
    Callers,      \* who runs AnalyzeIn: among "scan", "hook" and "user"
    MaxVersions,  \* bound: contents ever written
    MaxEvents,    \* bound: what others do to the library, users ask for, and faults
    MaxFaults     \* bound: crashes, calls that break off and lost mounts among them

ASSUME IngestAssumption ==
    /\ Callers \subseteq {"scan", "hook", "user"} /\ NoPath \notin Paths
    /\ MaxVersions \in Nat \ {0}
    /\ MaxEvents \in Nat /\ MaxFaults \in Nat

VARIABLES
    \* --- the world
    disk,      \* the version each path names
    kind,      \* what each version is
    fresh,     \* paths modified inside the stability window
    extras,    \* paths below a Plex extras directory
    mount,     \* the root: there, an empty mount point, or not even that
    sent,      \* webhook events on their way
    \* --- the database
    row,       \* media_files
    job,       \* the active job of a file
    \* --- memory
    call,      \* one AnalyzeIn per caller
    scan,      \* the scanner
    hook,      \* one webhook request
    check,     \* one integrity check
    worker,    \* the job that executes
    \* --- history and bounds
    vanished,  \* paths that could not be seen at some time since the scan began
    belated,   \* paths whose row an integrity check gave an old fingerprint
    events, faults

world == <<disk, kind, fresh, extras, mount, sent>>
db == <<row, job>>
history == <<vanished, belated>>
bounds == <<events, faults>>
vars == <<world, db, call, scan, hook, check, worker, history, bounds>>

Version == 1 .. MaxVersions
None == 0

\* Untagged and in need of work or not; tagged by us, or by us and then rewritten.
Kinds == {"unwritten", "work", "compliant", "ours", "rewrite"}
Statuses == {"new", "analyzed", "queued", "processing", "done", "failed", "skipped", "missing"}
Provenances == {"untouched", "codarr_output", "modified_since_transcode"}
CallPoints == {"idle", "stat", "sparse", "upsert", "probe", "decide", "enqueue"}

Row == [known : BOOLEAN, stat : Version \union {None}, fp : Version \union {None},
        probed : Version \union {None}, out : Version \union {None},
        prov : Provenances, status : Statuses, ignored : BOOLEAN]
NoRow == [known |-> FALSE, stat |-> None, fp |-> None, probed |-> None, out |-> None,
          prov |-> "untouched", status |-> "new", ignored |-> FALSE]

Call == [pc : CallPoints, path : Paths \union {NoPath}, stat : Version \union {None},
         fp : Version \union {None}, out : Version \union {None},
         probed : Version \union {None}]
Silent == [pc |-> "idle", path |-> NoPath, stat |-> None, fp |-> None,
           out |-> None, probed |-> None]

\* known and passes are what unchanged and prune read of the store.MediaStats.
Scan == [pc : {"idle", "walk", "prune"}, known : SUBSET Paths,
         passes : [Paths -> Version \union {None}],
         todo : SUBSET Paths, seen : SUBSET Paths, gone : SUBSET Paths]
Resting == [pc |-> "idle", known |-> {}, passes |-> [p \in Paths |-> None], todo |-> {},
            seen |-> {}, gone |-> {}]

Events == {"Download", "Rename", "Delete"}
Event == [type : Events, paths : SUBSET Paths]
Hook == [pc : {"idle", "ingest", "retire"}, todo : SUBSET Paths]
NoHook == [pc |-> "idle", todo |-> {}]

Check == [pc : {"idle", "write"}, path : Paths \union {NoPath}, fp : Version \union {None}]
NoCheck == [pc |-> "idle", path |-> NoPath, fp |-> None]
Worker == [pc : {"idle", "encode", "renamed", "statted"}, path : Paths \union {NoPath},
           stat : Version \union {None}]
NoWork == [pc |-> "idle", path |-> NoPath, stat |-> None]

TypeOK ==
    /\ disk \in [Paths -> Version \union {None}] /\ kind \in [Version -> Kinds]
    /\ fresh \subseteq Paths /\ extras \subseteq Paths
    /\ mount \in {"up", "empty", "gone"} /\ sent \subseteq Event
    /\ row \in [Paths -> Row] /\ job \in [Paths -> BOOLEAN]
    /\ call \in [Callers -> Call] /\ scan \in Scan /\ hook \in Hook
    /\ check \in Check /\ worker \in Worker
    /\ vanished \subseteq Paths /\ belated \subseteq Paths
    /\ events \in Nat /\ faults \in Nat

\* An empty library under a new root; what is an extras directory never changes.
Init ==
    /\ disk = [p \in Paths |-> None] /\ kind = [v \in Version |-> "unwritten"]
    /\ fresh = {} /\ extras \in SUBSET Paths /\ mount = "up" /\ sent = {}
    /\ row = [p \in Paths |-> NoRow] /\ job = [p \in Paths |-> FALSE]
    /\ call = [c \in Callers |-> Silent] /\ scan = Resting /\ hook = NoHook
    /\ check = NoCheck /\ worker = NoWork
    /\ vanished = {} /\ belated = {}
    /\ events = 0 /\ faults = 0

-----------------------------------------------------------------------------
(* What the probe of a version leads to. *)

Visible(p) == mount = "up" /\ disk[p] # None
Tagged(v) == kind[v] \in {"ours", "rewrite"}
NeedsWork(v) == kind[v] \in {"work", "rewrite"}

\* Deviation: the tag alone is enough.
CheckTagOnly(probed, fp, out) == Tagged(probed)

\* decide.CheckSkip: the tag of the probed content, and the recorded fingerprint.
CheckSkip(probed, fp, out) == Tagged(probed) /\ out # None /\ fp = out

\* domain.DeriveProvenance.
DeriveProvenance(out, fp) ==
    CASE out = None -> "untouched"
      [] out # None /\ out = fp -> "codarr_output"
      [] OTHER -> "modified_since_transcode"

\* Deviation: the plan's own word where the row wants another.
StatusOfPlan(skip, v) ==
    CASE skip -> "done"
      [] ~skip /\ ~NeedsWork(v) -> "skip"
      [] OTHER -> "analyzed"

\* statusFor.
StatusFor(skip, v) ==
    CASE skip -> "done"
      [] ~skip /\ ~NeedsWork(v) -> "skipped"
      [] OTHER -> "analyzed"

-----------------------------------------------------------------------------
(* AnalyzeIn, one step per call it makes. *)

Happens == events < MaxEvents /\ events' = events + 1
Fails == Happens /\ faults < MaxFaults /\ faults' = faults + 1

KeepAround == UNCHANGED <<world, scan, hook, check, worker, vanished, bounds>>

Begins(c, p) == call' = [call EXCEPT ![c] = [Silent EXCEPT !.pc = "stat", !.path = p]]
Continues(c, rest) == call' = [call EXCEPT ![c] = rest]
Returns(c) == Continues(c, Silent)

\* inspect, and record's look at the ignore list before anything is read.
AnalyzeStats(c) ==
    LET p == call[c].path IN
    /\ call[c].pc = "stat"
    /\ IF Visible(p) /\ ~row[p].ignored
       THEN Continues(c, [call[c] EXCEPT !.pc = "sparse", !.stat = disk[p]])
       ELSE Returns(c)
    /\ KeepAround /\ UNCHANGED <<db, belated>>

\* Deviation: the stat is taken again after the fingerprint.
FingerprintBeforeStat(c) ==
    LET p == call[c].path IN
    /\ call[c].pc = "sparse"
    /\ IF Visible(p)
       THEN Continues(c, [call[c] EXCEPT !.pc = "upsert", !.fp = call[c].stat, !.stat = disk[p]])
       ELSE Returns(c)
    /\ KeepAround /\ UNCHANGED <<db, belated>>

AnalyzeFingerprints(c) ==
    LET p == call[c].path IN
    /\ call[c].pc = "sparse"
    /\ IF Visible(p)
       THEN Continues(c, [call[c] EXCEPT !.pc = "upsert", !.fp = disk[p]])
       ELSE Returns(c)
    /\ KeepAround /\ UNCHANGED <<db, belated>>

\* Deviation: the identity is refreshed and the verdict on the old content stays.
UpsertKeepsStatus(p, stat, fp) ==
    row' = [row EXCEPT ![p] =
        [@ EXCEPT !.known = TRUE, !.stat = stat, !.fp = fp,
                  !.prov = DeriveProvenance(row[p].out, fp)]]

\* UpsertMediaFile: the identity, and a status that asks for an analysis.
UpsertMediaFile(p, stat, fp) ==
    row' = [row EXCEPT ![p] =
        [@ EXCEPT !.known = TRUE, !.stat = stat, !.fp = fp, !.status = "new",
                  !.prov = DeriveProvenance(row[p].out, fp)]]

AnalyzeUpserts(c) ==
    LET p == call[c].path IN
    /\ call[c].pc = "upsert"
    /\ UpsertMediaFile(p, call[c].stat, call[c].fp)
    /\ Continues(c, [call[c] EXCEPT !.pc = "probe", !.out = row[p].out])
    /\ belated' = belated \ {p}
    /\ KeepAround /\ UNCHANGED job

\* ffprobe, of what the path names by now; an error is the row's new status.
AnalyzeProbes(c) ==
    LET p == call[c].path IN
    /\ call[c].pc = "probe"
    /\ \/ /\ Visible(p)
          /\ Continues(c, [call[c] EXCEPT !.pc = "decide", !.probed = disk[p]])
          /\ UNCHANGED row
       \/ /\ row' = [row EXCEPT ![p].status = "failed"]
          /\ Returns(c)
    /\ KeepAround /\ UNCHANGED <<job, belated>>

\* Everything the call read, in one statement; the provenance is derived from the
\* fingerprint of the output that the row has by now.
UpdateMediaAnalysis(read, status) ==
    row' = [row EXCEPT ![read.path] =
        [@ EXCEPT !.stat = read.stat, !.fp = read.fp, !.probed = read.probed,
                  !.status = status, !.prov = DeriveProvenance(row[read.path].out, read.fp)]]

\* decide, with the fingerprint of the output that the upsert returned.
AnalyzeDecides(c) ==
    LET p == call[c].path
        skip == CheckSkip(call[c].probed, call[c].fp, call[c].out)
        status == StatusFor(skip, call[c].probed)
    IN
    /\ call[c].pc = "decide"
    /\ UpdateMediaAnalysis(call[c], status)
    /\ IF status = "analyzed"
       THEN Continues(c, [Silent EXCEPT !.pc = "enqueue", !.path = p])
       ELSE Returns(c)
    /\ belated' = belated \ {p}
    /\ KeepAround /\ UNCHANGED job

\* EnqueueJob, which leaves a file with an active job alone.
EnqueueJob(p) ==
    /\ job' = [job EXCEPT ![p] = TRUE]
    /\ row' = [row EXCEPT ![p].status = IF job[p] THEN @ ELSE "queued"]

AnalyzeEnqueues(c) ==
    /\ call[c].pc = "enqueue"
    /\ EnqueueJob(call[c].path)
    /\ Returns(c)
    /\ KeepAround /\ UNCHANGED belated

\* A store call fails, or the request that asked has hung up.
AnalyzeBreaks(c) ==
    /\ call[c].pc # "idle"
    /\ Fails
    /\ Returns(c)
    /\ UNCHANGED <<world, db, scan, hook, check, worker, history>>

AnalyzeIn(c) ==
    \/ AnalyzeStats(c) \/ AnalyzeFingerprints(c) \/ AnalyzeUpserts(c)
    \/ AnalyzeProbes(c) \/ AnalyzeDecides(c) \/ AnalyzeEnqueues(c)

-----------------------------------------------------------------------------
(* The scan: the root's check and the row list, the walk, the prune. *)

KeepForScan == UNCHANGED <<world, job, hook, check, worker, belated, bounds>>

\* Deviation: a row marked new or missing passes for unchanged too.
UnchangedByStat(r) == IF r.known THEN r.stat ELSE None

\* unchanged, as the stat a file must have to be passed over: the recorded one,
\* if the last analysis came to an end.
Unchanged(r) == IF r.known /\ r.status \notin {"new", "missing"} THEN r.stat ELSE None

\* ListMediaStatsByRoot, as the rows that count and what unchanged makes of each.
ListMediaStatsByRoot ==
    [known |-> {p \in Paths : row[p].known /\ row[p].status # "missing"},
     passes |-> [p \in Paths |-> Unchanged(row[p])]]

\* A root that cannot be stat'ed is skipped; an empty mount point can be.
ScanBegins ==
    /\ scan.pc = "idle" /\ mount # "gone" /\ "scan" \in Callers
    /\ scan' = [Resting EXCEPT !.pc = "walk", !.todo = Paths,
                               !.known = ListMediaStatsByRoot.known,
                               !.passes = ListMediaStatsByRoot.passes]
    /\ vanished' = {p \in Paths : ~Visible(p)}
    /\ KeepForScan /\ UNCHANGED <<row, call>>

\* walk and visit: what is below an extras directory is never seen.
ScanVisits(p) ==
    /\ scan.pc = "walk" /\ p \in scan.todo /\ call["scan"].pc = "idle"
    /\ LET seen == Visible(p) /\ p \notin extras IN
          /\ scan' = [scan EXCEPT !.todo = @ \ {p}, !.passes[p] = None,
                                  !.seen = IF seen THEN @ \union {p} ELSE @]
          /\ IF seen /\ p \notin fresh /\ scan.passes[p] # disk[p]
             THEN Begins("scan", p)
             ELSE UNCHANGED call
    /\ KeepForScan /\ UNCHANGED <<row, vanished>>

\* WalkDir cannot read the root itself: no prune.
ScanAborts ==
    /\ scan.pc = "walk" /\ scan.todo = Paths /\ mount = "gone"
    /\ scan' = Resting /\ vanished' = {}
    /\ KeepForScan /\ UNCHANGED <<row, call>>

ScanWalked ==
    /\ scan.pc = "walk" /\ scan.todo = {} /\ call["scan"].pc = "idle"
    /\ scan' = [Resting EXCEPT !.pc = "prune", !.todo = scan.known \ scan.seen]
    /\ KeepForScan /\ UNCHANGED <<row, call, vanished>>

\* Deviation: absence from the walk is proof enough.
PruneTrustsWalk(p) ==
    /\ scan.pc = "prune" /\ p \in scan.todo
    /\ scan' = [scan EXCEPT !.todo = @ \ {p}, !.gone = @ \union {p}]
    /\ KeepForScan /\ UNCHANGED <<row, call, vanished>>

\* One more stat for each row the walk did not come across.
ScanPrunes(p) ==
    /\ scan.pc = "prune" /\ p \in scan.todo
    /\ scan' = [scan EXCEPT !.todo = @ \ {p}, !.gone = IF Visible(p) THEN @ ELSE @ \union {p}]
    /\ KeepForScan /\ UNCHANGED <<row, call, vanished>>

MarkMediaMissing(ids) ==
    row' = [p \in Paths |-> IF p \in ids THEN [row[p] EXCEPT !.status = "missing"] ELSE row[p]]

ScanMarks ==
    /\ scan.pc = "prune" /\ scan.todo = {}
    /\ MarkMediaMissing(scan.gone)
    /\ scan' = Resting /\ vanished' = {}
    /\ KeepForScan /\ UNCHANGED call

-----------------------------------------------------------------------------
(* Webhooks. *)

KeepForHook == UNCHANGED <<disk, kind, fresh, extras, mount, job, scan, check, worker,
                           history, bounds>>

\* Handle: Download and Rename are ingested, a deletion retires the rows it finds.
HookReceives ==
    /\ hook.pc = "idle" /\ "hook" \in Callers
    /\ \E e \in sent :
          /\ sent' = sent \ {e}
          /\ hook' = IF e.type = "Delete"
                     THEN [pc |-> "retire", todo |-> {p \in e.paths : row[p].known}]
                     ELSE [pc |-> "ingest", todo |-> e.paths]
    /\ KeepForHook /\ UNCHANGED <<row, call>>

\* ingest: one path after the other, whatever became of the last.
HookAnalyzes(p) ==
    /\ hook.pc = "ingest" /\ p \in hook.todo /\ call["hook"].pc = "idle"
    /\ hook' = [hook EXCEPT !.todo = @ \ {p}]
    /\ Begins("hook", p)
    /\ KeepForHook /\ UNCHANGED <<sent, row>>

HookReturns ==
    /\ hook.pc = "ingest" /\ hook.todo = {} /\ call["hook"].pc = "idle"
    /\ hook' = NoHook
    /\ KeepForHook /\ UNCHANGED <<sent, row, call>>

HookRetires ==
    /\ hook.pc = "retire"
    /\ MarkMediaMissing(hook.todo)
    /\ hook' = NoHook
    /\ KeepForHook /\ UNCHANGED <<sent, call>>

-----------------------------------------------------------------------------
(* What the user asks for. *)

Asks == "user" \in Callers /\ Happens
KeepForUser == UNCHANGED <<world, scan, hook, worker, vanished, faults>>

\* AnalyzeMediaFile, and each file of a recheck.
UserAnalyzes(p) ==
    /\ Asks /\ row[p].known /\ call["user"].pc = "idle"
    /\ Begins("user", p)
    /\ KeepForUser /\ UNCHANGED <<db, check, belated>>

\* Enqueue: blockedFromQueue looks at the stored plan and the status.
UserQueues(p) ==
    /\ Asks /\ row[p].known
    /\ ~row[p].ignored /\ row[p].probed # None /\ row[p].status # "missing"
    /\ NeedsWork(row[p].probed) /\ ~job[p]
    /\ EnqueueJob(p)
    /\ KeepForUser /\ UNCHANGED <<call, check, belated>>

UserIgnores(p) ==
    /\ Asks /\ row[p].known
    /\ row' = [row EXCEPT ![p].ignored = ~@]
    /\ KeepForUser /\ UNCHANGED <<job, call, check, belated>>

\* verifyOne reads the file ...
UserVerifies(p) ==
    /\ Asks /\ row[p].known /\ Visible(p) /\ check.pc = "idle"
    /\ check' = [pc |-> "write", path |-> p, fp |-> disk[p]]
    /\ KeepForUser /\ UNCHANGED <<db, call, belated>>

\* Deviation: the integrity check leaves the provenance alone.
SetFingerprintOnly(p, fp) == row' = [row EXCEPT ![p].fp = fp]

\* ... and SetMediaIntegrity writes its fingerprint, by then an old one perhaps.
SetMediaIntegrity(p, fp) ==
    row' = [row EXCEPT ![p] =
        [@ EXCEPT !.fp = fp, !.prov = DeriveProvenance(row[p].out, fp)]]

VerifyRecords ==
    /\ check.pc = "write"
    /\ SetMediaIntegrity(check.path, check.fp)
    /\ check' = NoCheck
    /\ belated' = IF check.fp = disk[check.path] THEN belated \ {check.path}
                  ELSE belated \union {check.path}
    /\ UNCHANGED <<world, job, call, scan, hook, worker, vanished, bounds>>

-----------------------------------------------------------------------------
(* The worker, as far as files and rows show it; Promotion has its steps. *)

KeepForWorker == UNCHANGED <<extras, mount, sent, call, scan, hook, check, bounds>>
KeepFiles == UNCHANGED <<disk, kind, fresh, vanished>>

\* load and Preflight: the stored plan writes, and the file is the row's.
PreflightPasses(p) ==
    /\ NeedsWork(row[p].probed)
    /\ Visible(p) /\ row[p].stat = disk[p] /\ row[p].fp \in {None, disk[p]}

JobStarts(p) ==
    /\ worker.pc = "idle" /\ job[p]
    /\ IF row[p].probed # None /\ PreflightPasses(p)
       THEN /\ worker' = [pc |-> "encode", path |-> p, stat |-> None]
            /\ row' = [row EXCEPT ![p].status = "processing"]
            /\ UNCHANGED job
       ELSE /\ job' = [job EXCEPT ![p] = FALSE]
            /\ row' = [row EXCEPT ![p].status = "failed"]
            /\ UNCHANGED worker
    /\ KeepForWorker /\ KeepFiles /\ UNCHANGED belated

\* It failed, or the user stopped it.
JobStops ==
    /\ worker.pc = "encode"
    /\ \E status \in {"failed", "analyzed"} : row' = [row EXCEPT ![worker.path].status = status]
    /\ job' = [job EXCEPT ![worker.path] = FALSE]
    /\ worker' = NoWork
    /\ KeepForWorker /\ KeepFiles /\ UNCHANGED belated

Unused(v) == kind[v] = "unwritten" /\ \A u \in Version : kind[u] = "unwritten" => v <= u

JobRenames ==
    /\ worker.pc = "encode" /\ Visible(worker.path)
    /\ \E v \in Version :
          /\ Unused(v)
          /\ kind' = [kind EXCEPT ![v] = "ours"]
          /\ disk' = [disk EXCEPT ![worker.path] = v]
    /\ worker' = [worker EXCEPT !.pc = "renamed"]
    /\ KeepForWorker /\ UNCHANGED <<fresh, db, history>>

\* recordIdentity: the stat first, then the fingerprint.
JobStats ==
    /\ worker.pc = "renamed" /\ Visible(worker.path)
    /\ worker' = [worker EXCEPT !.pc = "statted", !.stat = disk[worker.path]]
    /\ KeepForWorker /\ KeepFiles /\ UNCHANGED <<db, belated>>

\* RecordPromotion on the media row.  The plan and the probe stay the source's.
RecordPromotion(p, stat, fp, status) ==
    /\ row' = [row EXCEPT ![p] =
          [@ EXCEPT !.stat = stat, !.fp = fp, !.out = fp, !.prov = "codarr_output",
                    !.status = status]]
    /\ job' = [job EXCEPT ![p] = FALSE]
    /\ belated' = belated \ {p}

\* settle.  Without an identity there is nothing to record, and the job fails.
JobRecords ==
    LET p == worker.path IN
    /\ \/ worker.pc = "statted" /\ Visible(p) /\ RecordPromotion(p, worker.stat, disk[p], "done")
       \/ worker.pc \in {"renamed", "statted"} /\ RecordPromotion(p, None, None, "failed")
    /\ worker' = NoWork
    /\ KeepForWorker /\ KeepFiles

-----------------------------------------------------------------------------
(* The world, and death. *)

KeepProcess == UNCHANGED <<extras, db, call, scan, hook, check, worker, belated>>
Notices ==
    vanished' = IF scan.pc = "idle" THEN {}
                ELSE vanished \union {p \in Paths : ~(mount' = "up" /\ disk'[p] # None)}
Send(e) == sent' = sent \union {e}

\* An import, or a muxer that carries our tags over; an import may keep its mtime.
OutsiderWrites(p) ==
    /\ Happens
    /\ \E v \in Version, k \in {"work", "compliant", "rewrite"} :
          /\ Unused(v)
          /\ k = "rewrite" => disk[p] # None /\ Tagged(disk[p])
          /\ kind' = [kind EXCEPT ![v] = k]
          /\ disk' = [disk EXCEPT ![p] = v]
          /\ IF k = "rewrite" THEN UNCHANGED sent
             ELSE Send([type |-> "Download", paths |-> {p}])
    /\ fresh' \in {fresh \ {p}, fresh \union {p}}
    /\ UNCHANGED <<mount, faults>> /\ Notices /\ KeepProcess

OutsiderDeletes(p) ==
    /\ Happens /\ disk[p] # None
    /\ disk' = [disk EXCEPT ![p] = None]
    /\ Send([type |-> "Delete", paths |-> {p}])
    /\ UNCHANGED <<kind, fresh, mount, faults>> /\ Notices /\ KeepProcess

OutsiderMoves(p, q) ==
    /\ Happens /\ disk[p] # None /\ disk[q] = None
    /\ disk' = [disk EXCEPT ![q] = disk[p], ![p] = None]
    /\ Send([type |-> "Rename", paths |-> {p, q}])
    /\ UNCHANGED <<kind, fresh, mount, faults>> /\ Notices /\ KeepProcess

\* The stability window passes.
Settles(p) ==
    /\ p \in fresh /\ fresh' = fresh \ {p}
    /\ UNCHANGED <<disk, kind, mount, sent, vanished, bounds>> /\ KeepProcess

MountDrops ==
    /\ Fails
    /\ mount = "up" /\ mount' \in {"empty", "gone"}
    /\ UNCHANGED <<disk, kind, fresh, sent>> /\ Notices /\ KeepProcess

MountReturns ==
    /\ mount # "up" /\ mount' = "up"
    /\ UNCHANGED <<disk, kind, fresh, sent, vanished, bounds>> /\ KeepProcess

\* What recovery, which ends before anything else starts, makes of the job that
\* ran: interrupted before the rename it is queued again; while promoting the
\* fingerprint and then the tag of the file decide; or it fails.
Recovers(p) ==
    \/ worker.pc = "idle" /\ UNCHANGED <<db, belated>>
    \/ /\ worker.pc = "encode" \/ (worker.pc # "idle" /\ Visible(p) /\ row[p].fp = disk[p])
       /\ row' = [row EXCEPT ![p].status = "queued"]
       /\ UNCHANGED <<job, belated>>
    \/ /\ worker.pc # "idle" /\ Visible(p) /\ row[p].fp # disk[p] /\ Tagged(disk[p])
       /\ RecordPromotion(p, disk[p], disk[p], "done")
    \/ /\ worker.pc # "idle"
       /\ row' = [row EXCEPT ![p].status = "failed"]
       /\ job' = [job EXCEPT ![p] = FALSE]
       /\ UNCHANGED belated

Crash ==
    /\ Fails
    /\ Recovers(worker.path)
    /\ call' = [c \in Callers |-> Silent] /\ scan' = Resting /\ hook' = NoHook
    /\ check' = NoCheck /\ worker' = NoWork
    /\ vanished' = {}
    /\ UNCHANGED world

-----------------------------------------------------------------------------
Scanner ==
    \/ ScanBegins \/ ScanAborts \/ ScanWalked \/ ScanMarks
    \/ \E p \in Paths : ScanVisits(p) \/ ScanPrunes(p)

Webhook == HookReceives \/ HookReturns \/ HookRetires \/ \E p \in Paths : HookAnalyzes(p)

User ==
    \/ VerifyRecords
    \/ \E p \in Paths : UserAnalyzes(p) \/ UserQueues(p) \/ UserIgnores(p) \/ UserVerifies(p)

Working == JobStops \/ JobRenames \/ JobStats \/ JobRecords \/ \E p \in Paths : JobStarts(p)

Outside ==
    \/ MountDrops \/ MountReturns
    \/ \E p \in Paths : OutsiderWrites(p) \/ OutsiderDeletes(p) \/ Settles(p)
    \/ \E p, q \in Paths : OutsiderMoves(p, q)

Next ==
    \/ Scanner \/ Webhook \/ User \/ Working \/ Outside \/ Crash
    \/ \E c \in Callers : AnalyzeIn(c) \/ AnalyzeBreaks(c)

Spec == Init /\ [][Next]_vars

\* The scheduler starts scans for ever and what is started goes on; time passes,
\* and a lost mount comes back.  Nobody has to deliver a webhook.
Fairness ==
    /\ WF_vars(Scanner) /\ WF_vars(Working) /\ WF_vars(MountReturns)
    /\ \A c \in Callers : WF_vars(AnalyzeIn(c))
    /\ \A p \in Paths : WF_vars(Settles(p))

FairSpec == Spec /\ Fairness

-----------------------------------------------------------------------------
(* What ingest promises. *)

\* The provenance of a row is what DeriveProvenance says of its two fingerprints,
\* whichever of analysis, integrity check, promotion and recovery wrote last; only
\* an output whose identity could not be taken keeps the provenance without them.
ProvenanceDerived ==
    \A p \in Paths :
        \/ row[p].prov = DeriveProvenance(row[p].out, row[p].fp)
        \/ row[p].out = None /\ row[p].prov = "codarr_output"

\* A scan gives up only rows whose file it could not have found: one that could
\* be seen all the time since the scan began is not marked missing, extras
\* directories and a root that comes and goes included.
MissingWasGone == scan.gone \subseteq vanished

\* A row that scans will pass over as unchanged has the fingerprint of the content
\* it passes over: otherwise every job of the file fails its preflight and no scan
\* ever repairs the row.  Excused is the fingerprint a slow integrity check wrote;
\* checked on one path, to which no content that was moved away can return.
StatImpliesFingerprint ==
    \A p \in Paths \ belated :
        disk[p] # None /\ row[p].stat = disk[p] => row[p].fp = disk[p]

\* What scans pass over as finished complies with the policy, or is what the row
\* takes for our own output: no interleaving of analyses, imports, promotion and
\* crashes hides a file that needs work behind "done" or "skipped".
PassedOverComplies ==
    \A p \in Paths :
        disk[p] # None /\ row[p].stat = disk[p] /\ row[p].status \in {"done", "skipped"}
        => ~NeedsWork(disk[p]) \/ row[p].out = disk[p]

\* Once others leave the library alone, the scans alone make every row follow: a
\* file that is there is analysed and not missing, a row without a file is missing.
SafetyNet ==
    <>[](\A p \in Paths \ extras :
            /\ disk[p] # None /\ ~row[p].ignored =>
                  row[p].known /\ row[p].stat = disk[p] /\ row[p].status \notin {"new", "missing"}
            /\ disk[p] = None /\ row[p].known => row[p].status = "missing")

\* What a job is planned for is what it replaces: preflight takes the file for the
\* one analysis saw.
PlanIsOfContent ==
    [][\A p \in Paths : worker.pc = "idle" /\ worker' = [pc |-> "encode", path |-> p, stat |-> None]
          => row[p].probed = disk[p]]_vars
=============================================================================
