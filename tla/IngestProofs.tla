----------------------------- MODULE IngestProofs -----------------------------
(***************************************************************************)
(* What holds of the ingest of any library, for every bound of Ingest.     *)
(*                                                                         *)
(* The types and the provenance of every row are inductive once an         *)
(* analysis, a check and a job are known to name a path. That a scan gives *)
(* up only rows whose file it could not have found rests on a scan's       *)
(* memory of what could not be seen since it began.                        *)
(*                                                                         *)
(* That a row vouches only for the content it was made from rests on what  *)
(* every analysis at work read after its stat. It needs that no content    *)
(* returns to a path that has seen it, a condition stated as an action     *)
(* property of its own, which every behaviour on one path meets.           *)
(***************************************************************************)
EXTENDS Ingest, TLAPS

-----------------------------------------------------------------------------
(* The inductive invariant. *)

\* What is at work has a path to work on.
Named ==
    /\ \A c \in Callers : call[c].pc # "idle" => call[c].path \in Paths
    /\ check.pc # "idle" => check.path \in Paths
    /\ worker.pc # "idle" => worker.path \in Paths

Derived(r) ==
    \/ r.prov = DeriveProvenance(r.out, r.fp)
    \/ r.out = None /\ r.prov = "codarr_output"

Rows == row \in [Paths -> Row] /\ ProvenanceDerived

IInv == TypeOK /\ Named /\ ProvenanceDerived

\* Provenance is one of three, whatever is compared.
LEMMA ProvenanceType ==
    \A out, fp : DeriveProvenance(out, fp) \in Provenances
  <1> TAKE out, fp
  <1>1. CASE out = None
    BY <1>1 DEF DeriveProvenance, Provenances
  <1>2. CASE out # None /\ out = fp
    BY <1>2 DEF DeriveProvenance, Provenances
  <1>3. CASE out # None /\ out # fp
    BY <1>3 DEF DeriveProvenance, Provenances
  <1> QED
    BY <1>1, <1>2, <1>3

-----------------------------------------------------------------------------
(* What may happen to a row. *)

\* One row becomes another whose provenance is derived.
LEMMA RowBecomes ==
    ASSUME IInv, NEW p \in Paths, NEW r \in Row, Derived(r), row' = [row EXCEPT ![p] = r]
    PROVE  Rows'
  <1>1. row' \in [Paths -> Row]
    BY DEF IInv, TypeOK
  <1>2. ASSUME NEW q \in Paths PROVE Derived(row'[q])
    BY <1>2 DEF IInv, TypeOK, ProvenanceDerived, Derived
  <1> QED
    BY <1>1, <1>2 DEF Rows, ProvenanceDerived, Derived

\* A status is nothing to the provenance.
LEMMA StatusBecomes ==
    ASSUME IInv, NEW p \in Paths, NEW s \in Statuses, row' = [row EXCEPT ![p].status = s]
    PROVE  Rows'
  <1> DEFINE r == [row[p] EXCEPT !.status = s]
  <1>1. row[p] \in Row /\ Derived(row[p])
    BY DEF IInv, TypeOK, ProvenanceDerived, Derived
  <1>2. r \in Row /\ r.prov = row[p].prov /\ r.out = row[p].out /\ r.fp = row[p].fp
    BY <1>1 DEF Row
  <1>3. Derived(r)
    BY <1>1, <1>2 DEF Derived
  <1>4. row' = [row EXCEPT ![p] = r]
    OBVIOUS
  <1> HIDE DEF r
  <1> QED
    BY <1>2, <1>3, <1>4, RowBecomes

\* The prune and a deletion event touch nothing but the status.
LEMMA MissingKeeps ==
    ASSUME IInv, NEW ids, MarkMediaMissing(ids)
    PROVE  Rows'
  <1>1. ASSUME NEW q \in Paths PROVE row'[q] \in Row /\ Derived(row'[q])
    <2>1. row[q] \in Row /\ Derived(row[q])
      BY DEF IInv, TypeOK, ProvenanceDerived, Derived
    <2>2. CASE q \in ids
      <3>1. row'[q] = [row[q] EXCEPT !.status = "missing"]
        BY <2>2 DEF MarkMediaMissing
      <3>2. /\ row'[q] \in Row /\ row'[q].prov = row[q].prov
            /\ row'[q].out = row[q].out /\ row'[q].fp = row[q].fp
        BY <2>1, <3>1 DEF Row, Statuses
      <3> QED
        BY <2>1, <3>2 DEF Derived
    <2>3. CASE q \notin ids
      BY <2>1, <2>3 DEF MarkMediaMissing
    <2> QED
      BY <2>2, <2>3
  <1>2. row' = [q \in Paths |-> row'[q]]
    BY DEF MarkMediaMissing
  <1>3. row' \in [Paths -> Row]
    BY <1>1, <1>2
  <1> QED
    BY <1>1, <1>3 DEF Rows, ProvenanceDerived, Derived

\* A new job changes the status of its file, an old one nothing.
LEMMA EnqueueKeeps ==
    ASSUME IInv, NEW p \in Paths, EnqueueJob(p)
    PROVE  Rows' /\ job' \in [Paths -> BOOLEAN]
  <1>1. job' \in [Paths -> BOOLEAN]
    BY DEF IInv, TypeOK, EnqueueJob
  <1>2. row[p].status \in Statuses
    BY DEF IInv, TypeOK, Row
  <1> DEFINE s == IF job[p] THEN row[p].status ELSE "queued"
  <1>3. s \in Statuses
    BY <1>2 DEF Statuses
  <1>4. row' = [row EXCEPT ![p].status = s]
    BY DEF EnqueueJob
  <1> HIDE DEF s
  <1> QED
    BY <1>1, <1>3, <1>4, StatusBecomes

\* The fingerprint that is recorded as the output's is the row's own.
LEMMA PromotionKeeps ==
    ASSUME IInv, NEW p \in Paths, NEW stat \in Version \union {None},
           NEW fp \in Version \union {None}, NEW s \in Statuses,
           RecordPromotion(p, stat, fp, s)
    PROVE  Rows' /\ job' \in [Paths -> BOOLEAN] /\ belated' \in SUBSET Paths
  <1>1. job' \in [Paths -> BOOLEAN] /\ belated' \in SUBSET Paths
    BY DEF IInv, TypeOK, RecordPromotion
  <1> DEFINE r == [row[p] EXCEPT !.stat = stat, !.fp = fp, !.out = fp,
                                 !.prov = "codarr_output", !.status = s]
  <1>2. row[p] \in Row
    BY DEF IInv, TypeOK
  <1>3. r \in Row /\ r.prov = "codarr_output" /\ r.out = fp /\ r.fp = fp
    BY <1>2 DEF Row, Provenances
  <1>4. Derived(r)
    BY <1>3 DEF Derived, DeriveProvenance
  <1>5. row' = [row EXCEPT ![p] = r]
    BY DEF RecordPromotion
  <1> HIDE DEF r
  <1> QED
    BY <1>1, <1>3, <1>4, <1>5, RowBecomes

\* A fingerprint that is written takes the provenance along.
LEMMA FingerprintKeeps ==
    ASSUME IInv, NEW p \in Paths, NEW fp \in Version \union {None}, NEW r \in Row,
           r.out = row[p].out, r.fp = fp, r.prov = DeriveProvenance(row[p].out, fp),
           row' = [row EXCEPT ![p] = r]
    PROVE  Rows'
  <1>1. Derived(r)
    BY DEF Derived
  <1> QED
    BY <1>1, RowBecomes

-----------------------------------------------------------------------------
(* What may happen to an analysis. *)

\* The one that works has the types, and none has more than a path and versions.
LEMMA CallHeld ==
    ASSUME IInv, NEW c \in Callers
    PROVE  /\ call[c] \in Call /\ Silent \in Call /\ Silent.pc = "idle"
           /\ call[c].pc # "idle" => call[c].path \in Paths
    BY DEF IInv, TypeOK, Named, Call, Silent, CallPoints, None

\* One analysis goes on or ends.
LEMMA CallBecomes ==
    ASSUME IInv, NEW c \in Callers, NEW k \in Call, k.pc # "idle" => k.path \in Paths,
           Continues(c, k), UNCHANGED <<check, worker>>
    PROVE  call' \in [Callers -> Call] /\ Named'
  <1>1. call' = [call EXCEPT ![c] = k]
    BY DEF Continues
  <1>2. call' \in [Callers -> Call]
    BY <1>1 DEF IInv, TypeOK
  <1>3. ASSUME NEW d \in Callers, call'[d].pc # "idle" PROVE call'[d].path \in Paths
    BY <1>1, <1>3 DEF IInv, TypeOK, Named
  <1> QED
    BY <1>2, <1>3 DEF IInv, Named

\* One analysis begins.
LEMMA CallBegins ==
    ASSUME IInv, NEW c \in Callers, NEW p \in Paths, Begins(c, p), UNCHANGED <<check, worker>>
    PROVE  call' \in [Callers -> Call] /\ Named'
  <1> DEFINE k == [Silent EXCEPT !.pc = "stat", !.path = p]
  <1>1. k \in Call /\ k.path = p
    BY DEF Silent, Call, CallPoints, None
  <1>2. Continues(c, k)
    BY DEF Begins, Continues
  <1> HIDE DEF k
  <1> QED
    BY <1>1, <1>2, CallBecomes

\* One analysis returns.
LEMMA CallReturns ==
    ASSUME IInv, NEW c \in Callers, Returns(c), UNCHANGED <<check, worker>>
    PROVE  call' \in [Callers -> Call] /\ Named'
    BY CallHeld, CallBecomes DEF Returns

-----------------------------------------------------------------------------
(* Every step keeps it. *)

\* A scan keeps the invariant.
LEMMA ScannerKeeps ==
    ASSUME IInv, Scanner
    PROVE  IInv'
  <1>1. ASSUME ScanBegins PROVE IInv'
    <2>1. [p \in Paths |-> Unchanged(row[p])] \in [Paths -> Version \union {None}]
      BY DEF IInv, TypeOK, Row, Unchanged
    <2>2. scan' \in Scan
      BY <1>1, <2>1 DEF ScanBegins, ListMediaStatsByRoot, Resting, Scan
    <2> QED
      BY <1>1, <2>1, <2>2 DEF IInv, TypeOK, ProvenanceDerived, Named, ScanBegins, Resting,
         ListMediaStatsByRoot, Unchanged, Visible, KeepForScan, world, bounds
  <1>2. ASSUME ScanAborts PROVE IInv'
    <2>1. scan' \in Scan
      BY <1>2 DEF IInv, TypeOK, ScanAborts, Resting, KeepForScan, world, bounds, Scan, Version,
         None
    <2> QED
      BY <1>2, <2>1 DEF IInv, TypeOK, ProvenanceDerived, Named, ScanAborts, Resting,
         KeepForScan, world, bounds
  <1>3. ASSUME ScanWalked PROVE IInv'
    <2>1. scan' \in Scan
      BY <1>3 DEF IInv, TypeOK, ScanWalked, Resting, KeepForScan, world, bounds, Scan, Version,
         None
    <2> QED
      BY <1>3, <2>1 DEF IInv, TypeOK, ProvenanceDerived, Named, ScanWalked, Resting,
         KeepForScan, world, bounds
  <1>4. ASSUME ScanMarks PROVE IInv'
    <2>1. Rows'
      BY <1>4, MissingKeeps DEF ScanMarks
    <2>2. scan' \in Scan
      BY <1>4 DEF IInv, TypeOK, ScanMarks, MarkMediaMissing, Resting, KeepForScan, world,
         bounds, Scan, Version, None
    <2> QED
      BY <1>4, <2>1, <2>2 DEF IInv, TypeOK, Rows, Named, ScanMarks, MarkMediaMissing, Resting,
         KeepForScan, world, bounds
  <1>5. ASSUME NEW p \in Paths, ScanVisits(p) PROVE IInv'
    <2>1. call' \in [Callers -> Call] /\ Named'
      <3>1. CASE call' = call
        BY <1>5, <3>1 DEF IInv, TypeOK, Named, ScanVisits, KeepForScan
      <3>2. CASE Begins("scan", p)
        <4>1. CASE "scan" \in Callers
          BY <1>5, <3>2, <4>1, CallBegins DEF ScanVisits, KeepForScan
        <4>2. CASE "scan" \notin Callers
          BY <1>5, <3>2, <4>2 DEF IInv, TypeOK, Named, Begins, ScanVisits, KeepForScan
        <4> QED
          BY <4>1, <4>2
      <3> QED
        BY <1>5, <3>1, <3>2 DEF ScanVisits
    <2>2. scan' \in Scan
      BY <1>5 DEF IInv, TypeOK, ScanVisits, Visible, Begins, KeepForScan, Silent, world, bounds,
         Scan, Version, None
    <2> QED
      BY <1>5, <2>1, <2>2 DEF IInv, TypeOK, ProvenanceDerived, ScanVisits, Visible, Begins,
         KeepForScan, Silent, world, bounds
  <1>6. ASSUME NEW p \in Paths, ScanPrunes(p) PROVE IInv'
    <2>1. scan' \in Scan
      BY <1>6 DEF IInv, TypeOK, ScanPrunes, Visible, KeepForScan, world, bounds, Scan, Version,
         None
    <2> QED
      BY <1>6, <2>1 DEF IInv, TypeOK, ProvenanceDerived, Named, ScanPrunes, Visible,
         KeepForScan, world, bounds
  <1> QED
    BY <1>1, <1>2, <1>3, <1>4, <1>5, <1>6 DEF Scanner

\* So does a webhook.
LEMMA WebhookKeeps ==
    ASSUME IInv, Webhook
    PROVE  IInv'
  <1>1. ASSUME HookReceives PROVE IInv'
    <2>1. sent' \in SUBSET Event
      BY <1>1 DEF IInv, TypeOK, HookReceives
    <2>2. hook' \in Hook
      BY <1>1 DEF IInv, TypeOK, HookReceives, Event, Hook
    <2> QED
      BY <1>1, <2>1, <2>2 DEF IInv, TypeOK, ProvenanceDerived, Named, HookReceives, KeepForHook,
         history, bounds
  <1>2. ASSUME HookReturns PROVE IInv'
    <2>1. hook' \in Hook
      BY <1>2 DEF IInv, TypeOK, HookReturns, NoHook, KeepForHook, history, bounds, Hook
    <2> QED
      BY <1>2, <2>1 DEF IInv, TypeOK, ProvenanceDerived, Named, HookReturns, NoHook,
         KeepForHook, history, bounds
  <1>3. ASSUME HookRetires PROVE IInv'
    <2>1. Rows'
      BY <1>3, MissingKeeps DEF HookRetires
    <2>2. hook' \in Hook
      BY <1>3 DEF IInv, TypeOK, HookRetires, MarkMediaMissing, NoHook, KeepForHook, history,
         bounds, Hook
    <2> QED
      BY <1>3, <2>1, <2>2 DEF IInv, TypeOK, Rows, Named, HookRetires, MarkMediaMissing, NoHook,
         KeepForHook, history, bounds
  <1>4. ASSUME NEW p \in Paths, HookAnalyzes(p) PROVE IInv'
    <2>1. call' \in [Callers -> Call] /\ Named'
      <3>1. CASE "hook" \in Callers
        BY <1>4, <3>1, CallBegins DEF HookAnalyzes, KeepForHook
      <3>2. CASE "hook" \notin Callers
        BY <1>4, <3>2 DEF IInv, TypeOK, Named, Begins, HookAnalyzes, KeepForHook
      <3> QED
        BY <3>1, <3>2
    <2>2. hook' \in Hook
      BY <1>4 DEF IInv, TypeOK, HookAnalyzes, Begins, KeepForHook, Silent, history, bounds, Hook
    <2> QED
      BY <1>4, <2>1, <2>2 DEF IInv, TypeOK, ProvenanceDerived, HookAnalyzes, Begins,
         KeepForHook, Silent, history, bounds
  <1> QED
    BY <1>1, <1>2, <1>3, <1>4 DEF Webhook

\* So does whatever the user asks for.
LEMMA UserKeeps ==
    ASSUME IInv, User
    PROVE  IInv'
  <1>1. ASSUME VerifyRecords PROVE IInv'
    <2> DEFINE p == check.path
               r == [row[p] EXCEPT !.fp = check.fp,
                                   !.prov = DeriveProvenance(row[p].out, check.fp)]
    <2>1. p \in Paths /\ check.fp \in Version \union {None}
      BY <1>1 DEF IInv, TypeOK, Named, VerifyRecords, Check
    <2>2. row[p] \in Row
      BY <2>1 DEF IInv, TypeOK
    <2>3. /\ r \in Row /\ r.out = row[p].out /\ r.fp = check.fp
          /\ r.prov = DeriveProvenance(row[p].out, check.fp)
      BY <2>1, <2>2, ProvenanceType DEF Row
    <2>4. row' = [row EXCEPT ![p] = r]
      BY <1>1 DEF VerifyRecords, SetMediaIntegrity
    <2> HIDE DEF r, p
    <2>5. Rows'
      BY <2>1, <2>3, <2>4, FingerprintKeeps
    <2>6. belated' \in SUBSET Paths
      BY <1>1, <2>1 DEF IInv, TypeOK, VerifyRecords, p
    <2>7. check' \in Check
      BY <1>1 DEF IInv, TypeOK, Named, VerifyRecords, SetMediaIntegrity, NoCheck, world, bounds,
         DeriveProvenance, Check, Version, None
    <2> QED
      BY <1>1, <2>1, <2>2, <2>3, <2>4, <2>5, <2>6, <2>7 DEF IInv, TypeOK, Rows, Named,
         VerifyRecords, SetMediaIntegrity, NoCheck, world, bounds
  <1>2. ASSUME NEW p \in Paths, UserAnalyzes(p) PROVE IInv'
    <2>1. call' \in [Callers -> Call] /\ Named'
      BY <1>2, CallBegins DEF UserAnalyzes, Asks, KeepForUser
    <2> QED
      BY <1>2, <2>1 DEF IInv, TypeOK, ProvenanceDerived, UserAnalyzes, Asks, Begins,
         KeepForUser, db, Happens, Silent, world
  <1>3. ASSUME NEW p \in Paths, UserQueues(p) PROVE IInv'
    <2>1. Rows' /\ job' \in [Paths -> BOOLEAN]
      BY <1>3, EnqueueKeeps DEF UserQueues
    <2> QED
      BY <1>3, <2>1 DEF IInv, TypeOK, Rows, Named, UserQueues, Asks, NeedsWork, EnqueueJob,
         KeepForUser, Happens, world
  <1>4. ASSUME NEW p \in Paths, UserIgnores(p) PROVE IInv'
    <2> DEFINE r == [row[p] EXCEPT !.ignored = ~row[p].ignored]
    <2>1. row[p] \in Row /\ Derived(row[p])
      BY DEF IInv, TypeOK, ProvenanceDerived, Derived
    <2>2. /\ r \in Row /\ r.prov = row[p].prov
          /\ r.out = row[p].out /\ r.fp = row[p].fp
      BY <2>1 DEF Row
    <2>3. Derived(r)
      BY <2>1, <2>2 DEF Derived
    <2>4. row' = [row EXCEPT ![p] = r]
      BY <1>4 DEF UserIgnores
    <2> HIDE DEF r
    <2>5. Rows'
      BY <2>2, <2>3, <2>4, RowBecomes
    <2> QED
      BY <1>4, <2>1, <2>2, <2>3, <2>4, <2>5 DEF IInv, TypeOK, Rows, Named, UserIgnores, Asks,
         KeepForUser, Happens, world
  <1>5. ASSUME NEW p \in Paths, UserVerifies(p) PROVE IInv'
    <2>1. check' \in Check
      BY <1>5 DEF IInv, TypeOK, Named, UserVerifies, Asks, Visible, KeepForUser, db, Happens,
         world, Check, Version, None
    <2> QED
      BY <1>5, <2>1 DEF IInv, TypeOK, ProvenanceDerived, Named, UserVerifies, Asks, Visible,
         KeepForUser, db, Happens, world, Check
  <1> QED
    BY <1>1, <1>2, <1>3, <1>4, <1>5 DEF User

\* So does the worker.
LEMMA WorkerKeeps ==
    ASSUME IInv, Working
    PROVE  IInv'
  <1>1. ASSUME JobStops PROVE IInv'
    <2>1. worker.path \in Paths
      BY <1>1 DEF IInv, Named, JobStops
    <2>2. Rows'
      BY <1>1, <2>1, StatusBecomes DEF JobStops, Statuses
    <2>3. worker' \in Worker
      BY <1>1 DEF IInv, TypeOK, Named, JobStops, NoWork, KeepForWorker, KeepFiles, bounds,
         Worker, Version, None
    <2> QED
      BY <1>1, <2>1, <2>2, <2>3 DEF IInv, TypeOK, Rows, Named, JobStops, NoWork, KeepForWorker,
         KeepFiles, bounds
  <1>2. ASSUME JobRenames PROVE IInv'
    <2>1. kind' \in [Version -> Kinds]
      BY <1>2 DEF IInv, TypeOK, JobRenames, Visible, Unused, KeepForWorker, db, history, bounds,
         Kinds, Version
    <2>2. disk' \in [Paths -> Version \union {None}]
      BY <1>2 DEF IInv, TypeOK, JobRenames, Visible, Unused, KeepForWorker, db, history, bounds,
         Version, None, Call, Row, Worker
    <2>3. worker' \in Worker
      BY <1>2 DEF IInv, TypeOK, Named, JobRenames, Visible, Unused, KeepForWorker, db, history,
         bounds, Worker, Version, None
    <2> QED
      BY <1>2, <2>1, <2>2, <2>3 DEF IInv, TypeOK, ProvenanceDerived, Named, JobRenames, Visible,
         Unused, KeepForWorker, db, history, bounds
  <1>3. ASSUME JobStats PROVE IInv'
    <2>1. worker' \in Worker
      BY <1>3 DEF IInv, TypeOK, Named, JobStats, Visible, KeepForWorker, KeepFiles, db, bounds,
         Worker, Version, None
    <2> QED
      BY <1>3, <2>1 DEF IInv, TypeOK, ProvenanceDerived, Named, JobStats, Visible,
         KeepForWorker, KeepFiles, db, bounds
  <1>4. ASSUME JobRecords PROVE IInv'
    <2> DEFINE p == worker.path
    <2>1. /\ p \in Paths /\ worker.stat \in Version \union {None}
          /\ disk[p] \in Version \union {None} /\ None \in Version \union {None}
          /\ "done" \in Statuses /\ "failed" \in Statuses
      BY <1>4 DEF IInv, TypeOK, Named, JobRecords, Worker, Statuses
    <2>2. \/ RecordPromotion(p, worker.stat, disk[p], "done")
          \/ RecordPromotion(p, None, None, "failed")
      BY <1>4 DEF JobRecords
    <2> HIDE DEF p
    <2>3. Rows' /\ job' \in [Paths -> BOOLEAN] /\ belated' \in SUBSET Paths
      BY <2>1, <2>2, PromotionKeeps
    <2>4. worker' \in Worker
      BY <1>4 DEF IInv, TypeOK, Named, JobRecords, Visible, RecordPromotion, NoWork,
         KeepForWorker, KeepFiles, bounds, Worker, Version, None
    <2> QED
      BY <1>4, <2>1, <2>2, <2>3, <2>4 DEF IInv, TypeOK, Rows, Named, JobRecords, Visible,
         RecordPromotion, NoWork, KeepForWorker, KeepFiles, bounds
  <1>5. ASSUME NEW p \in Paths, JobStarts(p) PROVE IInv'
    <2>1. Rows'
      <3>1. \E s \in Statuses : row' = [row EXCEPT ![p].status = s]
        BY <1>5 DEF JobStarts, Statuses
      <3> QED
        BY <3>1, StatusBecomes
    <2>2. job' \in [Paths -> BOOLEAN]
      BY <1>5 DEF IInv, TypeOK, JobStarts
    <2>3. worker' \in Worker
      BY <1>5 DEF IInv, TypeOK, Named, JobStarts, PreflightPasses, KeepForWorker, KeepFiles,
         NeedsWork, Visible, bounds, Worker, Version, None
    <2> QED
      BY <1>5, <2>1, <2>2, <2>3 DEF IInv, TypeOK, Rows, Named, JobStarts, PreflightPasses,
         KeepForWorker, KeepFiles, NeedsWork, Visible, bounds
  <1> QED
    BY <1>1, <1>2, <1>3, <1>4, <1>5 DEF Working

\* So does the world.
LEMMA OutsideKeeps ==
    ASSUME IInv, Outside
    PROVE  IInv'
  <1>1. ASSUME MountDrops PROVE IInv'
    BY <1>1 DEF IInv, TypeOK, ProvenanceDerived, Named, MountDrops, Fails, Notices, KeepProcess,
       Happens, db
  <1>2. ASSUME MountReturns PROVE IInv'
    BY <1>2 DEF IInv, TypeOK, ProvenanceDerived, Named, MountReturns, bounds, KeepProcess, db
  <1>3. ASSUME NEW p \in Paths, OutsiderWrites(p) PROVE IInv'
    <2>1. disk' \in [Paths -> Version \union {None}]
      BY <1>3 DEF IInv, TypeOK, OutsiderWrites, Happens, Unused, Tagged, Send, Notices,
         KeepProcess, db, Version, None, Call, Row, Worker
    <2>2. kind' \in [Version -> Kinds]
      BY <1>3 DEF IInv, TypeOK, OutsiderWrites, Happens, Unused, Tagged, Send, Notices,
         KeepProcess, db, Kinds, Version
    <2>3. sent' \in SUBSET Event
      BY <1>3 DEF IInv, TypeOK, OutsiderWrites, Happens, Unused, Tagged, Send, Notices,
         KeepProcess, db, Event, Events
    <2> QED
      BY <1>3, <2>1, <2>2, <2>3 DEF IInv, TypeOK, ProvenanceDerived, Named, OutsiderWrites,
         Happens, Unused, Tagged, Send, Notices, KeepProcess, db
  <1>4. ASSUME NEW p \in Paths, OutsiderDeletes(p) PROVE IInv'
    <2>1. disk' \in [Paths -> Version \union {None}]
      BY <1>4 DEF IInv, TypeOK, OutsiderDeletes, Happens, Send, Notices, KeepProcess, db,
         Version, None, Call, Row, Worker
    <2>2. sent' \in SUBSET Event
      BY <1>4 DEF IInv, TypeOK, OutsiderDeletes, Happens, Send, Notices, KeepProcess, db, Event,
         Events
    <2> QED
      BY <1>4, <2>1, <2>2 DEF IInv, TypeOK, ProvenanceDerived, Named, OutsiderDeletes, Happens,
         Send, Notices, KeepProcess, db
  <1>5. ASSUME NEW p \in Paths, Settles(p) PROVE IInv'
    BY <1>5 DEF IInv, TypeOK, ProvenanceDerived, Named, Settles, bounds, KeepProcess, db
  <1>6. ASSUME NEW p \in Paths, NEW q \in Paths, OutsiderMoves(p, q) PROVE IInv'
    <2>1. disk' \in [Paths -> Version \union {None}]
      BY <1>6 DEF IInv, TypeOK, OutsiderMoves, Happens, Send, Notices, KeepProcess, db, Version,
         None, Call, Row, Worker
    <2>2. sent' \in SUBSET Event
      BY <1>6 DEF IInv, TypeOK, OutsiderMoves, Happens, Send, Notices, KeepProcess, db, Event,
         Events
    <2> QED
      BY <1>6, <2>1, <2>2 DEF IInv, TypeOK, ProvenanceDerived, Named, OutsiderMoves, Happens,
         Send, Notices, KeepProcess, db
  <1> QED
    BY <1>1, <1>2, <1>3, <1>4, <1>5, <1>6 DEF Outside

\* So does a crash with the recovery behind it.
LEMMA CrashKeeps ==
    ASSUME IInv, Crash
    PROVE  IInv'
  <1>1. ASSUME Crash PROVE IInv'
    <2> DEFINE p == worker.path
    <2>1. worker.pc # "idle" => p \in Paths
      BY DEF IInv, Named
    <2>2. Rows' /\ job' \in [Paths -> BOOLEAN] /\ belated' \in SUBSET Paths
      <3>1. CASE UNCHANGED <<db, belated>>
        BY <3>1 DEF IInv, TypeOK, Rows, ProvenanceDerived, db
      <3>2. CASE /\ worker.pc # "idle" /\ row' = [row EXCEPT ![p].status = "queued"]
                 /\ UNCHANGED <<job, belated>>
        BY <2>1, <3>2, StatusBecomes DEF IInv, TypeOK, Statuses
      <3>3. CASE worker.pc # "idle" /\ RecordPromotion(p, disk[p], disk[p], "done")
        <4>1. disk[p] \in Version \union {None} /\ "done" \in Statuses
          BY <2>1, <3>3 DEF IInv, TypeOK, Statuses
        <4> HIDE DEF p
        <4> QED
          BY <2>1, <3>3, <4>1, PromotionKeeps
      <3>4. CASE /\ worker.pc # "idle" /\ row' = [row EXCEPT ![p].status = "failed"]
                 /\ job' = [job EXCEPT ![p] = FALSE] /\ UNCHANGED belated
        BY <2>1, <3>4, StatusBecomes DEF IInv, TypeOK, Statuses
      <3> QED
        BY <1>1, <3>1, <3>2, <3>3, <3>4 DEF Crash, Recovers
    <2>3. /\ call' \in [Callers -> Call] /\ check' \in Check /\ worker' \in Worker
          /\ scan' \in Scan /\ hook' \in Hook /\ Named'
      BY <1>1 DEF Crash, Silent, Resting, NoHook, NoCheck, NoWork, Named, Call, CallPoints, Check,
         Worker, Scan, Hook, None
    <2> QED
      BY <1>1, <2>1, <2>2, <2>3 DEF IInv, TypeOK, Rows, Crash, Fails, Recovers, Silent, Resting,
         NoHook, NoCheck, NoWork, world, Happens, db, Visible, Tagged, RecordPromotion
  <1> QED
    BY <1>1

\* So does every step of an analysis.
LEMMA AnalysisKeeps ==
    ASSUME IInv, NEW c \in Callers, AnalyzeIn(c) \/ AnalyzeBreaks(c)
    PROVE  IInv'
  <1>1. ASSUME AnalyzeStats(c) PROVE IInv'
    <2>1. call' \in [Callers -> Call] /\ Named'
      <3> DEFINE k == [call[c] EXCEPT !.pc = "sparse", !.stat = disk[call[c].path]]
      <3>1. call[c].path \in Paths /\ call[c] \in Call
        BY <1>1, CallHeld DEF AnalyzeStats
      <3>2. k \in Call /\ k.path = call[c].path
        BY <3>1 DEF IInv, TypeOK, Call, CallPoints
      <3>3. Continues(c, k) \/ Returns(c)
        BY <1>1 DEF AnalyzeStats
      <3> HIDE DEF k
      <3> QED
        BY <1>1, <3>1, <3>2, <3>3, CallBecomes, CallReturns DEF AnalyzeStats, KeepAround
    <2> QED
      BY <1>1, <2>1 DEF IInv, TypeOK, ProvenanceDerived, AnalyzeStats, Visible, Continues,
         Returns, KeepAround, db, Silent, world, bounds
  <1>2. ASSUME AnalyzeFingerprints(c) PROVE IInv'
    <2>1. call' \in [Callers -> Call] /\ Named'
      <3> DEFINE k == [call[c] EXCEPT !.pc = "upsert", !.fp = disk[call[c].path]]
      <3>1. call[c].path \in Paths /\ call[c] \in Call
        BY <1>2, CallHeld DEF AnalyzeFingerprints
      <3>2. k \in Call /\ k.path = call[c].path
        BY <3>1 DEF IInv, TypeOK, Call, CallPoints
      <3>3. Continues(c, k) \/ Returns(c)
        BY <1>2 DEF AnalyzeFingerprints
      <3> HIDE DEF k
      <3> QED
        BY <1>2, <3>1, <3>2, <3>3, CallBecomes, CallReturns DEF AnalyzeFingerprints, KeepAround
    <2> QED
      BY <1>2, <2>1 DEF IInv, TypeOK, ProvenanceDerived, AnalyzeFingerprints, Visible,
         Continues, Returns, KeepAround, db, Silent, world, bounds
  <1>3. ASSUME AnalyzeUpserts(c) PROVE IInv'
    <2> DEFINE p == call[c].path
               s == call[c].stat
               f == call[c].fp
               r == [row[p] EXCEPT !.known = TRUE, !.stat = s, !.fp = f, !.status = "new",
                                   !.prov = DeriveProvenance(row[p].out, f)]
               k == [call[c] EXCEPT !.pc = "probe", !.out = row[p].out]
    <2>1. p \in Paths /\ call[c] \in Call
      BY <1>3, CallHeld DEF AnalyzeUpserts
    <2>2. row[p] \in Row
      BY <2>1 DEF IInv, TypeOK
    <2>3. s \in Version \union {None} /\ f \in Version \union {None}
      BY <2>1 DEF Call
    <2>4. /\ r \in Row /\ r.out = row[p].out /\ r.fp = f
          /\ r.prov = DeriveProvenance(row[p].out, f)
      <3> HIDE DEF s, f, p
      <3> QED
        BY <2>2, <2>3, ProvenanceType DEF Row, Statuses
    <2>5. row' = [row EXCEPT ![p] = r]
      BY <1>3 DEF AnalyzeUpserts, UpsertMediaFile
    <2>6. k \in Call /\ k.path = p
      BY <2>1, <2>2 DEF Call, CallPoints, Row
    <2>7. Continues(c, k)
      BY <1>3 DEF AnalyzeUpserts
    <2>8. belated' \in SUBSET Paths
      BY <1>3 DEF IInv, TypeOK, AnalyzeUpserts
    <2> HIDE DEF r, k, p, s, f
    <2>9. Rows'
      BY <2>1, <2>3, <2>4, <2>5, FingerprintKeeps
    <2>10. call' \in [Callers -> Call] /\ Named'
      BY <1>3, <2>1, <2>6, <2>7, CallBecomes DEF AnalyzeUpserts, KeepAround
    <2> QED
      BY <1>3, <2>1, <2>2, <2>3, <2>4, <2>5, <2>6, <2>7, <2>8, <2>9, <2>10 DEF IInv, TypeOK,
         Rows, AnalyzeUpserts, UpsertMediaFile, Continues, KeepAround, world, bounds
  <1>4. ASSUME AnalyzeProbes(c) PROVE IInv'
    <2> DEFINE p == call[c].path
               k == [call[c] EXCEPT !.pc = "decide", !.probed = disk[p]]
    <2>1. p \in Paths /\ call[c] \in Call
      BY <1>4, CallHeld DEF AnalyzeProbes
    <2>2. k \in Call /\ k.path = p
      BY <2>1 DEF IInv, TypeOK, Call, CallPoints
    <2>3. \/ Continues(c, k) /\ row' = row
          \/ Returns(c) /\ row' = [row EXCEPT ![p].status = "failed"]
      BY <1>4 DEF AnalyzeProbes
    <2>4. UNCHANGED <<check, worker>>
      BY <1>4 DEF AnalyzeProbes, KeepAround
    <2> HIDE DEF k, p
    <2>5. call' \in [Callers -> Call] /\ Named'
      BY <2>1, <2>2, <2>3, <2>4, CallBecomes, CallReturns
    <2>6. Rows'
      <3>1. CASE row' = row
        BY <3>1 DEF IInv, TypeOK, Rows, ProvenanceDerived
      <3>2. CASE row' = [row EXCEPT ![p].status = "failed"]
        BY <2>1, <3>2, StatusBecomes DEF Statuses
      <3> QED
        BY <2>3, <3>1, <3>2
    <2> QED
      BY <1>4, <2>1, <2>2, <2>3, <2>4, <2>5, <2>6 DEF IInv, TypeOK, Rows, AnalyzeProbes,
         Visible, Continues, Returns, KeepAround, Silent, world, bounds
  <1>5. ASSUME AnalyzeDecides(c) PROVE IInv'
    <2> DEFINE p == call[c].path
               s == call[c].stat
               f == call[c].fp
               v == call[c].probed
               t == StatusFor(CheckSkip(v, f, call[c].out), v)
               r == [row[p] EXCEPT !.stat = s, !.fp = f, !.probed = v, !.status = t,
                                   !.prov = DeriveProvenance(row[p].out, f)]
               k == [Silent EXCEPT !.pc = "enqueue", !.path = p]
    <2>1. p \in Paths /\ call[c] \in Call
      BY <1>5, CallHeld DEF AnalyzeDecides
    <2>2. row[p] \in Row
      BY <2>1 DEF IInv, TypeOK
    <2>3. /\ s \in Version \union {None} /\ f \in Version \union {None}
          /\ v \in Version \union {None}
      BY <2>1 DEF Call
    <2>4. t \in Statuses
      BY DEF StatusFor, Statuses
    <2>5. /\ r \in Row /\ r.out = row[p].out /\ r.fp = f
          /\ r.prov = DeriveProvenance(row[p].out, f)
      <3> HIDE DEF s, f, p, v, t
      <3> QED
        BY <2>2, <2>3, <2>4, ProvenanceType DEF Row
    <2>6. row' = [row EXCEPT ![p] = r]
      BY <1>5 DEF AnalyzeDecides, UpdateMediaAnalysis
    <2>7. k \in Call /\ k.path = p
      BY <2>1 DEF Call, CallPoints, Silent, None
    <2>8. Continues(c, k) \/ Returns(c)
      BY <1>5 DEF AnalyzeDecides
    <2>9. belated' \in SUBSET Paths
      BY <1>5 DEF IInv, TypeOK, AnalyzeDecides
    <2> HIDE DEF r, k, p, s, f, v, t
    <2>10. Rows'
      BY <2>1, <2>3, <2>5, <2>6, FingerprintKeeps
    <2>11. call' \in [Callers -> Call] /\ Named'
      BY <1>5, <2>1, <2>7, <2>8, CallBecomes, CallReturns DEF AnalyzeDecides, KeepAround
    <2> QED
      BY <1>5, <2>1, <2>2, <2>3, <2>4, <2>5, <2>6, <2>7, <2>8, <2>9, <2>10, <2>11 DEF IInv,
         TypeOK, Rows, AnalyzeDecides, Continues, Silent, Returns, KeepAround, Tagged,
         NeedsWork, world, bounds
  <1>6. ASSUME AnalyzeEnqueues(c) PROVE IInv'
    <2>1. call[c].path \in Paths
      BY <1>6, CallHeld DEF AnalyzeEnqueues
    <2>2. Rows' /\ job' \in [Paths -> BOOLEAN]
      BY <1>6, <2>1, EnqueueKeeps DEF AnalyzeEnqueues
    <2>3. call' \in [Callers -> Call] /\ Named'
      BY <1>6, CallReturns DEF AnalyzeEnqueues, KeepAround
    <2> QED
      BY <1>6, <2>1, <2>2, <2>3 DEF IInv, TypeOK, Rows, AnalyzeEnqueues, EnqueueJob, Returns,
         KeepAround, Continues, Silent, world, bounds
  <1>7. ASSUME AnalyzeBreaks(c) PROVE IInv'
    <2>1. call' \in [Callers -> Call] /\ Named'
      BY <1>7, CallReturns DEF AnalyzeBreaks
    <2> QED
      BY <1>7, <2>1 DEF IInv, TypeOK, ProvenanceDerived, AnalyzeBreaks, Fails, Returns, world,
         db, history, Happens, Continues, Silent
  <1> QED
    BY <1>1, <1>2, <1>3, <1>4, <1>5, <1>6, <1>7 DEF AnalyzeIn
\* The initial state and every step.
LEMMA Inductive == Spec => []IInv
  <1>1. Init => IInv
    <2> SUFFICES ASSUME Init PROVE IInv
      OBVIOUS
    <2>1. NoRow \in Row /\ NoRow.prov = DeriveProvenance(NoRow.out, NoRow.fp)
      BY DEF NoRow, Row, DeriveProvenance, Statuses, Provenances, None
    <2>2. Silent \in Call /\ Resting \in Scan /\ NoHook \in Hook /\ NoCheck \in Check
      BY DEF Silent, Call, CallPoints, Resting, Scan, NoHook, Hook, NoCheck, Check, None
    <2>3. NoWork \in Worker
      BY DEF NoWork, Worker, None
    <2>4. ProvenanceDerived /\ row \in [Paths -> Row]
      BY <2>1 DEF Init, ProvenanceDerived
    <2>5. Named
      BY DEF Init, Named, Silent, NoCheck, NoWork
    <2> QED
      BY <2>2, <2>3, <2>4, <2>5 DEF Init, IInv, TypeOK, Kinds
  <1>2. IInv /\ [Next]_vars => IInv'
    <2> SUFFICES ASSUME IInv, [Next]_vars PROVE IInv'
      OBVIOUS
    <2>1. CASE UNCHANGED vars
      BY <2>1 DEF IInv, TypeOK, Named, ProvenanceDerived, vars, world, db, history, bounds
    <2> QED
      BY <2>1, ScannerKeeps, WebhookKeeps, UserKeeps, WorkerKeeps, OutsideKeeps, CrashKeeps,
         AnalysisKeeps DEF Next
  <1> QED
    BY <1>1, <1>2, PTL DEF Spec

\* Every reachable state of the ingest of a library is well typed.
THEOREM Typed == Spec => []TypeOK
  <1>1. IInv => TypeOK
    BY DEF IInv
  <1> QED
    BY <1>1, Inductive, PTL

\* The provenance the UI shows is what DeriveProvenance says of the fingerprints
\* beside it, whoever of analysis, integrity check, promotion and recovery wrote
\* last: the writes of two callers never leave one's provenance with another's
\* fingerprint.
THEOREM ProvenanceIsDerived == Spec => []ProvenanceDerived
  <1>1. IInv => ProvenanceDerived
    BY DEF IInv
  <1> QED
    BY <1>1, Inductive, PTL

-----------------------------------------------------------------------------
(* What a scan gives up. *)

\* While a scan runs, what cannot be seen has been noticed, and what it gives up
\* is among it; between scans nothing is given up.
GInv ==
    /\ scan.pc # "idle" => \A p \in Paths : ~Visible(p) => p \in vanished
    /\ scan.pc = "idle" => scan.gone = {}
    /\ scan.gone \subseteq vanished

\* What leaves the scan, the files and the mount alone is no matter.
LEMMA StaysGone ==
    ASSUME GInv, UNCHANGED <<scan, disk, mount, vanished>>
    PROVE  GInv'
    BY DEF GInv, Visible

\* The scan itself gives up what it cannot see now.
LEMMA ScannerGives ==
    ASSUME IInv, GInv, Scanner
    PROVE  GInv'
  <1>1. ASSUME ScanBegins PROVE GInv'
    BY <1>1 DEF GInv, ScanBegins, Resting, KeepForScan, world, Visible
  <1>2. ASSUME ScanAborts PROVE GInv'
    BY <1>2 DEF GInv, ScanAborts, Resting
  <1>3. ASSUME ScanWalked PROVE GInv'
    BY <1>3 DEF GInv, ScanWalked, Resting, KeepForScan, world, Visible
  <1>4. ASSUME ScanMarks PROVE GInv'
    BY <1>4 DEF GInv, ScanMarks, Resting
  <1>5. ASSUME NEW p \in Paths, ScanVisits(p) PROVE GInv'
    <2>1. scan'.pc = "walk" /\ scan'.gone = scan.gone
      BY <1>5 DEF IInv, TypeOK, Scan, ScanVisits
    <2> QED
      BY <1>5, <2>1 DEF GInv, ScanVisits, KeepForScan, world, Visible
  <1>6. ASSUME NEW p \in Paths, ScanPrunes(p) PROVE GInv'
    <2>1. /\ scan'.pc = "prune"
          /\ scan'.gone = IF Visible(p) THEN scan.gone ELSE scan.gone \union {p}
      BY <1>6 DEF IInv, TypeOK, Scan, ScanPrunes
    <2> QED
      BY <1>6, <2>1 DEF GInv, ScanPrunes, KeepForScan, world, Visible
  <1> QED
    BY <1>1, <1>2, <1>3, <1>4, <1>5, <1>6 DEF Scanner

\* Whoever takes a file or the mount away while a scan runs is noticed.
LEMMA OutsideNoticed ==
    ASSUME GInv, Outside
    PROVE  GInv'
  <1>1. ASSUME Notices, UNCHANGED scan PROVE GInv'
    BY <1>1 DEF GInv, Notices, Visible
  <1>2. ASSUME MountReturns PROVE GInv'
    BY <1>2 DEF GInv, MountReturns, KeepProcess, Visible
  <1>3. ASSUME NEW p \in Paths, Settles(p) PROVE GInv'
    BY <1>3, StaysGone DEF Settles, KeepProcess
  <1>4. ASSUME MountDrops PROVE GInv'
    BY <1>1, <1>4 DEF MountDrops, KeepProcess
  <1>5. ASSUME NEW p \in Paths, OutsiderWrites(p) PROVE GInv'
    BY <1>1, <1>5 DEF OutsiderWrites, KeepProcess
  <1>6. ASSUME NEW p \in Paths, OutsiderDeletes(p) PROVE GInv'
    BY <1>1, <1>6 DEF OutsiderDeletes, KeepProcess
  <1>7. ASSUME NEW p \in Paths, NEW q \in Paths, OutsiderMoves(p, q) PROVE GInv'
    BY <1>1, <1>7 DEF OutsiderMoves, KeepProcess
  <1> QED
    BY <1>2, <1>3, <1>4, <1>5, <1>6, <1>7 DEF Outside

\* The worker's rename puts one file in the place of another: nothing goes away.
LEMMA WorkerNoticed ==
    ASSUME IInv, GInv, Working
    PROVE  GInv'
  <1>1. ASSUME JobRenames PROVE GInv'
    <2>1. PICK v \in Version : disk' = [disk EXCEPT ![worker.path] = v]
      BY <1>1 DEF JobRenames
    <2>2. v # None
      BY IngestAssumption DEF Version, None
    <2>3. ASSUME NEW q \in Paths, Visible(q) PROVE Visible(q)'
      BY <1>1, <2>1, <2>2, <2>3 DEF IInv, TypeOK, JobRenames, KeepForWorker, Visible
    <2> QED
      BY <1>1, <2>3 DEF GInv, JobRenames, KeepForWorker, history
  <1>2. ASSUME JobStops PROVE GInv'
    BY <1>2, StaysGone DEF JobStops, KeepForWorker, KeepFiles
  <1>3. ASSUME JobStats PROVE GInv'
    BY <1>3, StaysGone DEF JobStats, KeepForWorker, KeepFiles
  <1>4. ASSUME JobRecords PROVE GInv'
    BY <1>4, StaysGone DEF JobRecords, KeepForWorker, KeepFiles
  <1>5. ASSUME NEW p \in Paths, JobStarts(p) PROVE GInv'
    BY <1>5, StaysGone DEF JobStarts, KeepForWorker, KeepFiles
  <1> QED
    BY <1>1, <1>2, <1>3, <1>4, <1>5 DEF Working

\* A scan marks no file missing that could be seen all the time since it began,
\* whatever is imported, moved, replaced by a job or unmounted meanwhile, and
\* although the walk itself never comes across what is below an extras directory.
THEOREM GivesUpOnlyTheGone == Spec => []MissingWasGone
  <1>1. Init => GInv
    BY DEF Init, GInv, Resting
  <1>2. IInv /\ GInv /\ [Next]_vars => GInv'
    <2> SUFFICES ASSUME IInv, GInv, [Next]_vars PROVE GInv'
      OBVIOUS
    <2>1. CASE UNCHANGED vars
      BY <2>1, StaysGone DEF vars, world, history
    <2>2. CASE Webhook
      BY <2>2, StaysGone DEF Webhook, HookReceives, HookReturns, HookRetires, HookAnalyzes,
         KeepForHook, history
    <2>3. CASE User
      BY <2>3, StaysGone DEF User, VerifyRecords, UserAnalyzes, UserQueues, UserIgnores,
         UserVerifies, KeepForUser, world
    <2>4. ASSUME NEW c \in Callers, AnalyzeIn(c) \/ AnalyzeBreaks(c) PROVE GInv'
      BY <2>4, StaysGone DEF AnalyzeIn, AnalyzeStats, AnalyzeFingerprints, AnalyzeUpserts,
         AnalyzeProbes, AnalyzeDecides, AnalyzeEnqueues, AnalyzeBreaks, KeepAround, world,
         history
    <2>5. CASE Crash
      BY <2>5 DEF GInv, Crash, Resting
    <2> QED
      BY <2>1, <2>2, <2>3, <2>4, <2>5, ScannerGives, OutsideNoticed, WorkerNoticed DEF Next
  <1>3. GInv => MissingWasGone
    BY DEF GInv, MissingWasGone
  <1> QED
    BY <1>1, <1>2, <1>3, Inductive, PTL DEF Spec

-----------------------------------------------------------------------------
(* What a scan passes over. *)

\* Nothing returns to a path where it was once seen: a stat that is taken before
\* the fingerprint would otherwise vouch for content that was away in between.
\* A row and the analyses at work are all that remember what was at a path.
Known(p) ==
    {row[p].stat, row[p].out} \union
    UNION {{call[c].stat, call[c].out} : c \in {d \in Callers : call[d].path = p}}

MovesOn == \A p, q \in Paths : OutsiderMoves(p, q) => disk[p] \notin Known(q)
NothingReturns == [][MovesOn]_vars

\* Content that somebody saw was written before: new content is none of it.
Old(v) == v # None => kind[v] # "unwritten"

KnownIsOld ==
    /\ \A p \in Paths : Old(disk[p]) /\ Old(row[p].stat) /\ Old(row[p].out)
    /\ \A c \in Callers : Old(call[c].stat) /\ Old(call[c].out)
    /\ Old(worker.stat)

\* What a row says of the file it would be passed over for.
RowHolds(p) ==
    disk[p] # None /\ row[p].stat = disk[p]
    => /\ p \notin belated => row[p].fp = disk[p]
       /\ row[p].status \in {"done", "skipped"} => ~NeedsWork(disk[p]) \/ row[p].out = disk[p]

\* What an analysis read after its stat is the content of that stat, if the file still
\* has it; and its output is still the row's.
CallHolds(c) ==
    LET p == call[c].path IN
    /\ disk[p] # None /\ call[c].stat = disk[p]
       => /\ call[c].pc \in {"upsert", "probe", "decide"} => call[c].fp = disk[p]
          /\ call[c].pc = "decide" => call[c].probed = disk[p]
    /\ disk[p] # None /\ call[c].out = disk[p] /\ call[c].pc \in {"probe", "decide"}
       => row[p].out = disk[p]

\* An output that is not recorded yet is new to the row and to every analysis.
RenamedIsNew ==
    worker.pc \in {"renamed", "statted"} /\ disk[worker.path] # None
    => /\ row[worker.path].out # disk[worker.path]
       /\ \A c \in Callers : call[c].path = worker.path => call[c].out # disk[worker.path]

SInv ==
    /\ KnownIsOld /\ RenamedIsNew
    /\ \A p \in Paths : RowHolds(p)
    /\ \A c \in Callers : CallHolds(c)

\* A row that keeps its stat and its output, gets no better status and no older
\* fingerprint.
RowStays(p) ==
    /\ row'[p].stat = row[p].stat /\ row'[p].out = row[p].out
    /\ row'[p].status \in {"done", "skipped"} => row'[p].status = row[p].status
    /\ \/ p \in belated'
       \/ p \notin belated /\ row'[p].fp = row[p].fp
       \/ row'[p].fp = disk[p]

\* An analysis that is left alone, or holds no more than a stat.
CallStays(c) ==
    \/ call'[c] = call[c]
    \/ /\ call'[c].pc \notin {"upsert", "probe", "decide"}
       /\ call'[c].stat \in {None, disk[call'[c].path]}
       /\ call'[c].path \in Paths \/ call'[c].stat = None
       /\ \/ call'[c].out = None
          \/ call'[c].out = call[c].out /\ call'[c].path = call[c].path

\* Steps of that kind keep the invariant.
LEMMA QuietKeeps ==
    ASSUME SInv, UNCHANGED <<disk, kind>>,
           \A p \in Paths : RowStays(p),
           \A c \in Callers : CallStays(c),
           worker'.pc \in {"renamed", "statted"}
              => /\ worker.pc \in {"renamed", "statted"} /\ worker'.path = worker.path
                 /\ worker.path \in Paths,
           worker'.stat \in {worker.stat, None} \/ \E p \in Paths : worker'.stat = disk[p],
           \A c \in Callers : call[c].pc # "idle" => call[c].path \in Paths
    PROVE  SInv'
  <1>1. KnownIsOld'
    BY DEF SInv, KnownIsOld, Old, RowStays, CallStays
  <1>2. RenamedIsNew'
    BY DEF SInv, RenamedIsNew, RowStays, CallStays
  <1>3. ASSUME NEW p \in Paths PROVE RowHolds(p)'
    BY <1>3 DEF SInv, RowHolds, RowStays, NeedsWork
  <1>4. ASSUME NEW c \in Callers PROVE CallHolds(c)'
    <2>1. CASE call'[c] = call[c]
      BY <1>4, <2>1 DEF SInv, CallHolds, RowStays
    <2>2. CASE call'[c] # call[c]
      BY <1>4, <2>2 DEF CallHolds, CallStays
    <2> QED
      BY <2>1, <2>2
  <1> QED
    BY <1>1, <1>2, <1>3, <1>4 DEF SInv

\* Content that a path has not seen.
NewAt(p) ==
    /\ disk'[p] # None /\ kind'[disk'[p]] # "unwritten"
    /\ disk'[p] \notin {row[p].stat, row[p].out}
    /\ \A c \in Callers : call[c].path = p => disk'[p] \notin {call[c].stat, call[c].out}

\* A library in which files go, or new content comes, keeps the invariant.
LEMMA StirKeeps ==
    ASSUME IInv, SInv, UNCHANGED <<row, call, belated>>,
           \A v \in Version : kind[v] # "unwritten" => kind'[v] = kind[v],
           \A p \in Paths : disk'[p] = disk[p] \/ disk'[p] = None \/ NewAt(p),
           worker'.pc \in {"renamed", "statted"}
              => /\ worker'.path = worker.path /\ worker.path \in Paths
                 /\ worker.pc \in {"renamed", "statted"} \/ NewAt(worker.path),
           worker'.stat = worker.stat
    PROVE  SInv'
  <1>1. KnownIsOld'
    <2>1. ASSUME NEW v \in Version \union {None}, Old(v) PROVE Old(v)'
      BY <2>1 DEF Old
    <2>2. ASSUME NEW p \in Paths PROVE Old(disk[p])' /\ Old(row[p].stat)' /\ Old(row[p].out)'
      <3>1. /\ disk[p] \in Version \union {None} /\ row[p].stat \in Version \union {None}
            /\ row[p].out \in Version \union {None}
        BY <2>2 DEF IInv, TypeOK, Row
      <3>2. kind'[row'[p].stat] # "unwritten" \/ row'[p].stat = None
        BY <2>1, <2>2, <3>1 DEF SInv, KnownIsOld, Old
      <3>3. kind'[row'[p].out] # "unwritten" \/ row'[p].out = None
        BY <2>1, <2>2, <3>1 DEF SInv, KnownIsOld, Old
      <3>4. kind'[disk'[p]] # "unwritten" \/ disk'[p] = None
        BY <2>1, <2>2, <3>1 DEF SInv, KnownIsOld, Old, NewAt
      <3> QED
        BY <3>2, <3>3, <3>4 DEF Old
    <2>3. ASSUME NEW c \in Callers PROVE Old(call[c].stat)' /\ Old(call[c].out)'
      <3>1. call[c].stat \in Version \union {None} /\ call[c].out \in Version \union {None}
        BY <2>3 DEF IInv, TypeOK, Call
      <3> QED
        BY <2>1, <2>3, <3>1 DEF SInv, KnownIsOld, Old
    <2> QED
      BY <2>1, <2>2, <2>3 DEF IInv, TypeOK, Worker, SInv, KnownIsOld, Old
  <1>2. ASSUME NEW p \in Paths, disk'[p] = disk[p], disk[p] # None
        PROVE  kind'[disk'[p]] = kind[disk[p]]
    BY <1>2 DEF IInv, TypeOK, SInv, KnownIsOld, Old
  <1>3. ASSUME NEW p \in Paths PROVE RowHolds(p)'
    BY <1>2, <1>3 DEF SInv, RowHolds, NeedsWork, NewAt
  <1>4. ASSUME NEW c \in Callers PROVE CallHolds(c)'
    <2>1. CASE call[c].pc = "idle"
      BY <2>1 DEF CallHolds
    <2>2. CASE call[c].path \in Paths
      BY <1>4, <2>2 DEF SInv, CallHolds, NewAt
    <2> QED
      BY <1>4, <2>1, <2>2 DEF IInv, Named
  <1>5. RenamedIsNew'
    BY DEF SInv, RenamedIsNew, NewAt
  <1> QED
    BY <1>1, <1>3, <1>4, <1>5 DEF SInv

\* An analysis reads the file: its fingerprint, or what ffprobe makes of it.
LEMMA ReadingKeeps ==
    ASSUME IInv, SInv, NEW c \in Callers, NEW k, Continues(c, k),
           UNCHANGED <<disk, kind, row, belated, worker>>,
           k.path = call[c].path, k.stat = call[c].stat, k.out = call[c].out,
           \/ k.pc = "upsert" /\ k.fp = disk[k.path]
           \/ k.pc = "decide" /\ call[c].pc = "probe" /\ k.fp = call[c].fp /\ k.probed = disk[k.path]
    PROVE  SInv'
  <1>1. call'[c] = k /\ \A d \in Callers : d # c => call'[d] = call[d]
    BY DEF IInv, TypeOK, Continues
  <1>2. KnownIsOld' /\ RenamedIsNew'
    BY <1>1 DEF SInv, KnownIsOld, Old, RenamedIsNew
  <1>3. \A p \in Paths : RowHolds(p)'
    BY DEF SInv, RowHolds, NeedsWork
  <1>4. CallHolds(c)'
    BY <1>1 DEF SInv, CallHolds
  <1>5. \A d \in Callers : CallHolds(d)'
    BY <1>1, <1>4 DEF SInv, CallHolds
  <1> QED
    BY <1>2, <1>3, <1>5 DEF SInv

\* An analysis writes what it read, and either goes on to the probe with the output
\* the row has, or is over.
LEMMA WritingKeeps ==
    ASSUME IInv, SInv, NEW c \in Callers, NEW p \in Paths, p = call[c].path,
           call[c].pc \in {"upsert", "decide"},
           NEW r, row' = [row EXCEPT ![p] = r],
           r.stat = call[c].stat, r.fp = call[c].fp, r.out = row[p].out,
           r.status \in {"done", "skipped"}
              => /\ call[c].pc = "decide"
                 /\ \/ ~NeedsWork(call[c].probed)
                    \/ call[c].fp = call[c].out,
           belated' = belated \ {p}, UNCHANGED <<disk, kind, worker>>,
           NEW k, Continues(c, k),
           \/ k.pc = "probe" /\ k.path = p /\ k.stat = r.stat /\ k.fp = r.fp /\ k.out = r.out
           \/ k.pc \in {"idle", "enqueue"} /\ k.stat = None /\ k.out = None
    PROVE  SInv'
  <1>1. call'[c] = k /\ \A d \in Callers : d # c => call'[d] = call[d]
    BY DEF IInv, TypeOK, Continues
  <1>2. row'[p] = r /\ \A q \in Paths : q # p => row'[q] = row[q]
    BY DEF IInv, TypeOK
  <1>3. \A q \in Paths : row'[q].out = row[q].out
    BY <1>2
  <1>4. CallHolds(c)
    BY DEF SInv
  <1>5. KnownIsOld'
    BY <1>1, <1>2, <1>3 DEF SInv, KnownIsOld, Old
  <1>6. RenamedIsNew'
    <2>1. worker.pc \in {"renamed", "statted"} => worker.path \in Paths
      BY DEF IInv, Named
    <2> QED
      BY <1>1, <1>3, <2>1 DEF SInv, RenamedIsNew
  <1>7. RowHolds(p)'
    BY <1>2, <1>4 DEF RowHolds, CallHolds, NeedsWork
  <1>8. ASSUME NEW q \in Paths, q # p PROVE RowHolds(q)'
    BY <1>2, <1>8 DEF SInv, RowHolds, NeedsWork
  <1>9. CallHolds(c)'
    BY <1>1, <1>3, <1>4 DEF CallHolds
  <1>10. ASSUME NEW d \in Callers, d # c PROVE CallHolds(d)'
    <2>1. call[d].pc # "idle" => call[d].path \in Paths
      BY <1>10 DEF IInv, Named
    <2> QED
      BY <1>1, <1>3, <1>10, <2>1 DEF SInv, CallHolds
  <1> QED
    BY <1>5, <1>6, <1>7, <1>8, <1>9, <1>10 DEF SInv

\* A promotion is recorded with the identity of what is there, or with none.
LEMMA RecordingKeeps ==
    ASSUME IInv, SInv, NEW p \in Paths, NEW stat \in Version \union {None}, Old(stat),
           NEW fp, NEW s, RecordPromotion(p, stat, fp, s),
           \/ fp = disk[p]
           \/ fp = None /\ stat = None /\ s = "failed" /\ disk[p] # None
              /\ \A c \in Callers : call[c].path = p => call[c].out # disk[p]
           \/ fp = None /\ stat = None /\ s = "failed" /\ disk[p] = None,
           UNCHANGED <<disk, kind>>, \A c \in Callers : call'[c] \in {call[c], Silent},
           worker' = NoWork
    PROVE  SInv'
  <1>1. /\ row'[p].stat = stat /\ row'[p].fp = fp /\ row'[p].out = fp /\ row'[p].status = s
        /\ \A q \in Paths : q # p => row'[q] = row[q]
    BY DEF IInv, TypeOK, Row, RecordPromotion
  <1>2. belated' = belated \ {p}
    BY DEF RecordPromotion
  <1>3. KnownIsOld'
    BY <1>1 DEF SInv, KnownIsOld, Old, Silent, NoWork
  <1>4. RenamedIsNew'
    BY DEF RenamedIsNew, NoWork
  <1>5. RowHolds(p)'
    BY <1>1 DEF RowHolds, None
  <1>6. ASSUME NEW q \in Paths, q # p PROVE RowHolds(q)'
    BY <1>1, <1>2, <1>6 DEF SInv, RowHolds, NeedsWork
  <1>7. ASSUME NEW c \in Callers PROVE CallHolds(c)'
    <2>1. CASE call'[c].pc = "idle"
      BY <2>1 DEF CallHolds
    <2>2. CASE call'[c] = call[c] /\ call[c].pc # "idle"
      <3>1. call[c].path \in Paths /\ CallHolds(c)
        BY <1>7, <2>2 DEF IInv, Named, SInv
      <3> QED
        BY <1>1, <2>2, <3>1 DEF CallHolds
    <2> QED
      BY <1>7, <2>1, <2>2 DEF Silent
  <1> QED
    BY <1>3, <1>4, <1>5, <1>6, <1>7 DEF SInv

-----------------------------------------------------------------------------
(* Every step keeps it. *)

\* A status that is neither done nor skipped is no verdict.
LEMMA StatusStays ==
    ASSUME IInv, NEW p \in Paths, NEW s, s \notin {"done", "skipped"} \/ s = row[p].status,
           row' = [row EXCEPT ![p].status = s], belated' = belated
    PROVE  \A q \in Paths : RowStays(q)
    BY DEF IInv, TypeOK, Row, RowStays

\* Rows that are given up keep what they know.
LEMMA MissingStays ==
    ASSUME IInv, NEW ids, MarkMediaMissing(ids), belated' = belated
    PROVE  \A q \in Paths : RowStays(q)
  <1> TAKE q \in Paths
  <1>1. row[q] \in Row
    BY DEF IInv, TypeOK
  <1>2. CASE q \in ids
    BY <1>1, <1>2 DEF MarkMediaMissing, RowStays, Row
  <1>3. CASE q \notin ids
    BY <1>3 DEF MarkMediaMissing, RowStays
  <1> QED
    BY <1>2, <1>3

\* So does a file that is queued.
LEMMA EnqueueStays ==
    ASSUME IInv, NEW p \in Paths, EnqueueJob(p), belated' = belated
    PROVE  \A q \in Paths : RowStays(q)
  <1> DEFINE s == IF job[p] THEN row[p].status ELSE "queued"
  <1>1. row' = [row EXCEPT ![p].status = s]
    BY DEF EnqueueJob
  <1>2. s \notin {"done", "skipped"} \/ s = row[p].status
    OBVIOUS
  <1> HIDE DEF s
  <1> QED
    BY <1>1, <1>2, StatusStays

\* An analysis that begins or returns holds nothing.
LEMMA CallsStay ==
    ASSUME IInv, NEW c \in Callers, Returns(c) \/ \E p \in Paths : Begins(c, p)
    PROVE  \A d \in Callers : CallStays(d)
  <1>1. Silent.pc = "idle" /\ Silent.stat = None /\ Silent.out = None
    BY DEF Silent
  <1>2. CASE Returns(c)
    BY <1>1, <1>2 DEF IInv, TypeOK, Returns, Continues, CallStays
  <1>3. ASSUME NEW p \in Paths, Begins(c, p) PROVE \A d \in Callers : CallStays(d)
    <2> DEFINE k == [Silent EXCEPT !.pc = "stat", !.path = p]
    <2>1. k.pc = "stat" /\ k.stat = None /\ k.out = None
      BY DEF Silent
    <2>2. call' = [call EXCEPT ![c] = k]
      BY <1>3 DEF Begins
    <2> HIDE DEF k
    <2> QED
      BY <2>1, <2>2 DEF IInv, TypeOK, CallStays
  <1> QED
    BY <1>2, <1>3

\* What leaves the rows, the files and the analyses alone is quiet.
LEMMA StillKeeps ==
    ASSUME IInv, SInv, UNCHANGED <<disk, kind, row, call, belated>>,
           worker'.pc \in {"renamed", "statted"}
              => worker.pc \in {"renamed", "statted"} /\ worker'.path = worker.path,
           worker'.stat \in {worker.stat, None} \/ \E p \in Paths : worker'.stat = disk[p]
    PROVE  SInv'
  <1>1. \A p \in Paths : RowStays(p)
    BY DEF RowStays
  <1>2. \A c \in Callers : CallStays(c)
    BY DEF CallStays
  <1> QED
    BY <1>1, <1>2, QuietKeeps DEF IInv, Named

\* A step that leaves the worker alone and is quiet.
LEMMA QuietRows ==
    ASSUME IInv, SInv, UNCHANGED <<disk, kind, worker>>,
           \A p \in Paths : RowStays(p), \A c \in Callers : CallStays(c)
    PROVE  SInv'
    BY QuietKeeps DEF IInv, Named

\* The scan reads the disk and the rows, and gives rows up.
LEMMA ScannerHolds ==
    ASSUME IInv, SInv, Scanner
    PROVE  SInv'
  <1>1. UNCHANGED <<disk, kind, worker, belated>>
    BY DEF Scanner, ScanBegins, ScanAborts, ScanWalked, ScanMarks, ScanVisits, ScanPrunes,
       KeepForScan, world
  <1>2. CASE ScanMarks
    <2>1. \A c \in Callers : CallStays(c)
      BY <1>2 DEF ScanMarks, CallStays
    <2> QED
      BY <1>1, <1>2, <2>1, MissingStays, QuietRows DEF ScanMarks
  <1>3. ASSUME NEW p \in Paths, ScanVisits(p), Begins("scan", p) PROVE SInv'
    <2>1. \A q \in Paths : RowStays(q)
      BY <1>1, <1>3 DEF ScanVisits, RowStays
    <2>2. CASE "scan" \in Callers
      BY <1>1, <1>3, <2>1, <2>2, CallsStay, QuietRows
    <2>3. CASE "scan" \notin Callers
      <3>1. \A c \in Callers : call'[c] = call[c]
        BY <1>3, <2>3 DEF IInv, TypeOK, Begins
      <3> QED
        BY <1>1, <2>1, <3>1, QuietRows DEF CallStays
    <2> QED
      BY <2>2, <2>3
  <1>4. CASE UNCHANGED <<row, call>>
    BY <1>1, <1>4, StillKeeps
  <1> QED
    BY <1>2, <1>3, <1>4 DEF Scanner, ScanBegins, ScanAborts, ScanWalked, ScanVisits,
       ScanPrunes

\* So does a webhook.
LEMMA WebhookHolds ==
    ASSUME IInv, SInv, Webhook
    PROVE  SInv'
  <1>1. UNCHANGED <<disk, kind, worker, belated>>
    BY DEF Webhook, HookReceives, HookReturns, HookRetires, HookAnalyzes, KeepForHook, history
  <1>2. CASE HookRetires
    <2>1. \A c \in Callers : CallStays(c)
      BY <1>2 DEF HookRetires, CallStays
    <2> QED
      BY <1>1, <1>2, <2>1, MissingStays, QuietRows DEF HookRetires
  <1>3. ASSUME NEW p \in Paths, HookAnalyzes(p) PROVE SInv'
    <2>1. \A q \in Paths : RowStays(q)
      BY <1>1, <1>3 DEF HookAnalyzes, RowStays
    <2>2. CASE "hook" \in Callers
      BY <1>1, <1>3, <2>1, <2>2, CallsStay, QuietRows DEF HookAnalyzes
    <2>3. CASE "hook" \notin Callers
      <3>1. \A c \in Callers : call'[c] = call[c]
        BY <1>3, <2>3 DEF IInv, TypeOK, HookAnalyzes, Begins
      <3> QED
        BY <1>1, <2>1, <3>1, QuietRows DEF CallStays
    <2> QED
      BY <2>2, <2>3
  <1>4. CASE HookReceives \/ HookReturns
    BY <1>1, <1>4, StillKeeps DEF HookReceives, HookReturns
  <1> QED
    BY <1>2, <1>3, <1>4 DEF Webhook

\* So does what the user asks for; an integrity check writes what it read or is known
\* to have written an old fingerprint.
LEMMA UserHolds ==
    ASSUME IInv, SInv, User
    PROVE  SInv'
  <1>1. UNCHANGED <<disk, kind, worker>>
    BY DEF User, VerifyRecords, UserAnalyzes, UserQueues, UserIgnores, UserVerifies,
       KeepForUser, world
  <1>2. CASE VerifyRecords
    <2>1. check.path \in Paths
      BY <1>2 DEF IInv, Named, VerifyRecords
    <2>2. ASSUME NEW q \in Paths PROVE RowStays(q)
      <3>1. row[q] \in Row
        BY <2>2 DEF IInv, TypeOK
      <3>2. CASE q = check.path
        <4>1. /\ row'[q].stat = row[q].stat /\ row'[q].out = row[q].out
              /\ row'[q].status = row[q].status /\ row'[q].fp = check.fp
          BY <1>2, <2>1, <3>1, <3>2 DEF IInv, TypeOK, Row, VerifyRecords, SetMediaIntegrity
        <4>2. q \in belated' \/ check.fp = disk[q]
          BY <1>2, <3>2 DEF VerifyRecords
        <4> QED
          BY <4>1, <4>2 DEF RowStays
      <3>3. CASE q # check.path
        <4>1. row'[q] = row[q]
          BY <1>2, <3>3 DEF IInv, TypeOK, VerifyRecords, SetMediaIntegrity
        <4>2. q \in belated' <=> q \in belated
          BY <1>2, <3>3 DEF VerifyRecords
        <4> QED
          BY <4>1, <4>2 DEF RowStays
      <3> QED
        BY <3>2, <3>3
    <2>3. \A c \in Callers : CallStays(c)
      BY <1>2 DEF VerifyRecords, CallStays
    <2> QED
      BY <1>1, <2>2, <2>3, QuietRows
  <1>3. ASSUME NEW p \in Paths, UserAnalyzes(p) PROVE SInv'
    <2>1. \A q \in Paths : RowStays(q)
      BY <1>3 DEF UserAnalyzes, db, RowStays
    <2> QED
      BY <1>1, <1>3, <2>1, CallsStay, QuietRows DEF UserAnalyzes, Asks
  <1>4. ASSUME NEW p \in Paths, UserQueues(p) PROVE SInv'
    <2>1. \A c \in Callers : CallStays(c)
      BY <1>4 DEF UserQueues, CallStays
    <2> QED
      BY <1>1, <1>4, <2>1, EnqueueStays, QuietRows DEF UserQueues
  <1>5. ASSUME NEW p \in Paths, UserIgnores(p) PROVE SInv'
    <2>1. \A q \in Paths : RowStays(q)
      BY <1>5 DEF IInv, TypeOK, Row, UserIgnores, RowStays
    <2>2. \A c \in Callers : CallStays(c)
      BY <1>5 DEF UserIgnores, CallStays
    <2> QED
      BY <1>1, <2>1, <2>2, QuietRows
  <1>6. ASSUME NEW p \in Paths, UserVerifies(p) PROVE SInv'
    BY <1>1, <1>6, StillKeeps DEF UserVerifies, db
  <1> QED
    BY <1>2, <1>3, <1>4, <1>5, <1>6 DEF User

\* A version that nobody has written is new wherever it appears.
LEMMA UnusedIsNew ==
    ASSUME IInv, SInv, NEW p \in Paths, NEW v \in Version, Unused(v), disk'[p] = v,
           kind'[v] # "unwritten"
    PROVE  NewAt(p)
  <1>1. v # None
    BY DEF Version, None
  <1> QED
    BY <1>1 DEF SInv, KnownIsOld, Old, Unused, NewAt

\* The worker replaces a file by one that is new, and records it as what it is.
LEMMA WorkerHolds ==
    ASSUME IInv, SInv, Working
    PROVE  SInv'
  <1>1. ASSUME NEW p \in Paths, JobStarts(p) PROVE SInv'
    <2>1. (worker'.pc = "encode" /\ worker'.stat = None) \/ worker' = worker
      BY <1>1 DEF JobStarts
    <2>2. \E s \in {"processing", "failed"} : row' = [row EXCEPT ![p].status = s]
      BY <1>1 DEF JobStarts
    <2>3. \A q \in Paths : RowStays(q)
      BY <1>1, <2>2, StatusStays DEF JobStarts
    <2>4. \A c \in Callers : CallStays(c)
      BY <1>1 DEF JobStarts, KeepForWorker, CallStays
    <2> QED
      BY <1>1, <2>1, <2>3, <2>4, QuietKeeps DEF IInv, Named, JobStarts, KeepFiles
  <1>2. CASE JobStops
    <2>1. worker'.pc = "idle" /\ worker'.stat = None /\ worker.path \in Paths
      BY <1>2 DEF IInv, Named, JobStops, NoWork
    <2>2. \E s \in {"failed", "analyzed"} : row' = [row EXCEPT ![worker.path].status = s]
      BY <1>2 DEF JobStops
    <2>3. \A q \in Paths : RowStays(q)
      BY <1>2, <2>1, <2>2, StatusStays DEF JobStops
    <2>4. \A c \in Callers : CallStays(c)
      BY <1>2 DEF JobStops, KeepForWorker, CallStays
    <2> QED
      BY <1>2, <2>1, <2>3, <2>4, QuietKeeps DEF IInv, Named, JobStops, KeepFiles
  <1>3. CASE JobRenames
    <2>1. PICK v \in Version : /\ Unused(v) /\ kind' = [kind EXCEPT ![v] = "ours"]
                               /\ disk' = [disk EXCEPT ![worker.path] = v]
      BY <1>3 DEF JobRenames
    <2>2. worker.path \in Paths /\ worker'.path = worker.path /\ worker'.stat = worker.stat
      BY <1>3 DEF IInv, TypeOK, Worker, Named, JobRenames
    <2>3. /\ disk'[worker.path] = v /\ kind'[v] # "unwritten"
          /\ \A u \in Version : kind[u] # "unwritten" => kind'[u] = kind[u]
          /\ \A q \in Paths : q # worker.path => disk'[q] = disk[q]
      BY <2>1, <2>2 DEF IInv, TypeOK, Unused
    <2>4. NewAt(worker.path)
      BY <2>1, <2>2, <2>3, UnusedIsNew
    <2>5. UNCHANGED <<row, call, belated>>
      BY <1>3 DEF JobRenames, KeepForWorker, db, history
    <2> QED
      BY <2>2, <2>3, <2>4, <2>5, StirKeeps
  <1>4. CASE JobStats
    <2>1. /\ worker.pc = "renamed" /\ worker'.path = worker.path
          /\ worker.path \in Paths /\ worker'.stat = disk[worker.path]
      BY <1>4 DEF IInv, TypeOK, Worker, Named, JobStats
    <2> QED
      BY <1>4, <2>1, StillKeeps DEF JobStats, KeepForWorker, KeepFiles, db
  <1>5. CASE JobRecords
    <2> DEFINE p == worker.path
    <2>1. /\ p \in Paths /\ worker.pc \in {"renamed", "statted"} /\ worker' = NoWork
          /\ worker.stat \in Version \union {None} /\ None \in Version \union {None}
      BY <1>5 DEF IInv, TypeOK, Named, Worker, JobRecords
    <2>2. UNCHANGED <<disk, kind>> /\ \A c \in Callers : call'[c] \in {call[c], Silent}
      BY <1>5 DEF JobRecords, KeepForWorker, KeepFiles
    <2>3. Old(None)
      BY DEF Old
    <2>4. disk[p] # None => \A c \in Callers : call[c].path = p => call[c].out # disk[p]
      BY <2>1 DEF SInv, RenamedIsNew
    <2>5. CASE worker.pc = "statted" /\ RecordPromotion(p, worker.stat, disk[p], "done")
      <3>1. Old(worker.stat)
        BY <2>5 DEF SInv, KnownIsOld
      <3> HIDE DEF p
      <3> QED
        BY <2>1, <2>2, <2>5, <3>1, RecordingKeeps
    <2>6. CASE RecordPromotion(p, None, None, "failed")
      <3> HIDE DEF p
      <3> QED
        BY <2>1, <2>2, <2>3, <2>4, <2>6, RecordingKeeps
    <2> QED
      BY <1>5, <2>5, <2>6 DEF JobRecords
  <1> QED
    BY <1>1, <1>2, <1>3, <1>4, <1>5 DEF Working

\* An analysis stats, fingerprints and probes in that order, and writes all of it.
LEMMA AnalysisHolds ==
    ASSUME IInv, SInv, NEW c \in Callers, AnalyzeIn(c) \/ AnalyzeBreaks(c)
    PROVE  SInv'
  <1> DEFINE p == call[c].path
  <1>1. UNCHANGED <<disk, kind, worker>>
    BY DEF AnalyzeIn, AnalyzeStats, AnalyzeFingerprints, AnalyzeUpserts, AnalyzeProbes,
       AnalyzeDecides, AnalyzeEnqueues, AnalyzeBreaks, KeepAround, world
  <1>2. call[c] \in Call /\ p \in Paths
    BY CallHeld DEF AnalyzeIn, AnalyzeStats, AnalyzeFingerprints, AnalyzeUpserts,
       AnalyzeProbes, AnalyzeDecides, AnalyzeEnqueues, AnalyzeBreaks
  <1>3. ASSUME Returns(c), UNCHANGED <<row, belated>> PROVE SInv'
    <2>1. \A q \in Paths : RowStays(q)
      BY <1>3 DEF RowStays
    <2> QED
      BY <1>1, <1>3, <2>1, CallsStay, QuietRows
  <1>4. CASE AnalyzeStats(c)
    <2> DEFINE k == [call[c] EXCEPT !.pc = "sparse", !.stat = disk[p]]
    <2>1. CASE Returns(c)
      BY <1>3, <1>4, <2>1 DEF AnalyzeStats, db
    <2>2. CASE Continues(c, k)
      <3>1. k.pc = "sparse" /\ k.stat = disk[p] /\ k.path = p /\ k.out = call[c].out
        BY <1>2 DEF Call
      <3> HIDE DEF k
      <3>2. \A d \in Callers : CallStays(d)
        BY <1>1, <1>2, <2>2, <3>1 DEF IInv, TypeOK, Continues, CallStays
      <3>3. \A q \in Paths : RowStays(q)
        BY <1>4 DEF AnalyzeStats, db, RowStays
      <3> QED
        BY <1>1, <3>2, <3>3, QuietRows
    <2> QED
      BY <1>4, <2>1, <2>2 DEF AnalyzeStats
  <1>5. CASE AnalyzeFingerprints(c)
    <2> DEFINE k == [call[c] EXCEPT !.pc = "upsert", !.fp = disk[p]]
    <2>1. CASE Returns(c)
      BY <1>3, <1>5, <2>1 DEF AnalyzeFingerprints, db
    <2>2. CASE Continues(c, k)
      <3>1. /\ k.pc = "upsert" /\ k.fp = disk[p] /\ k.path = p
            /\ k.stat = call[c].stat /\ k.out = call[c].out
        BY <1>2 DEF Call
      <3> HIDE DEF k
      <3> QED
        BY <1>1, <1>5, <2>2, <3>1, ReadingKeeps DEF AnalyzeFingerprints, db
    <2> QED
      BY <1>5, <2>1, <2>2 DEF AnalyzeFingerprints
  <1>6. CASE AnalyzeUpserts(c)
    <2> DEFINE s == call[c].stat
               f == call[c].fp
               r == [row[p] EXCEPT !.known = TRUE, !.stat = s, !.fp = f, !.status = "new",
                                   !.prov = DeriveProvenance(row[p].out, f)]
               k == [call[c] EXCEPT !.pc = "probe", !.out = row[p].out]
    <2>1. row[p] \in Row
      BY <1>2 DEF IInv, TypeOK
    <2>2. r.stat = s /\ r.fp = f /\ r.out = row[p].out /\ r.status = "new"
      <3> HIDE DEF s, f, p
      <3> QED
        BY <2>1 DEF Row
    <2>3. k.pc = "probe" /\ k.path = p /\ k.stat = s /\ k.fp = f /\ k.out = row[p].out
      BY <1>2 DEF Call
    <2>4. /\ row' = [row EXCEPT ![p] = r] /\ Continues(c, k) /\ belated' = belated \ {p}
          /\ call[c].pc = "upsert"
      BY <1>6 DEF AnalyzeUpserts, UpsertMediaFile
    <2> HIDE DEF r, k
    <2> QED
      BY <1>1, <1>2, <2>2, <2>3, <2>4, WritingKeeps
  <1>7. CASE AnalyzeProbes(c)
    <2> DEFINE k == [call[c] EXCEPT !.pc = "decide", !.probed = disk[p]]
    <2>1. CASE Returns(c) /\ row' = [row EXCEPT ![p].status = "failed"]
      <3>1. \A q \in Paths : RowStays(q)
        BY <1>2, <1>7, <2>1, StatusStays DEF AnalyzeProbes
      <3> QED
        BY <1>1, <2>1, <3>1, CallsStay, QuietRows
    <2>2. CASE Continues(c, k) /\ UNCHANGED row
      <3>1. /\ k.pc = "decide" /\ k.fp = call[c].fp /\ k.path = p
            /\ k.stat = call[c].stat /\ k.out = call[c].out /\ k.probed = disk[p]
        BY <1>2 DEF Call
      <3> HIDE DEF k
      <3> QED
        BY <1>1, <1>7, <2>2, <3>1, ReadingKeeps DEF AnalyzeProbes
    <2> QED
      BY <1>7, <2>1, <2>2 DEF AnalyzeProbes
  <1>8. CASE AnalyzeDecides(c)
    <2> DEFINE s == call[c].stat
               f == call[c].fp
               v == call[c].probed
               t == StatusFor(CheckSkip(v, f, call[c].out), v)
               r == [row[p] EXCEPT !.stat = s, !.fp = f, !.probed = v, !.status = t,
                                   !.prov = DeriveProvenance(row[p].out, f)]
               k == IF t = "analyzed" THEN [Silent EXCEPT !.pc = "enqueue", !.path = p]
                    ELSE Silent
    <2>1. row[p] \in Row
      BY <1>2 DEF IInv, TypeOK
    <2>2. r.stat = s /\ r.fp = f /\ r.out = row[p].out /\ r.status = t
      <3> HIDE DEF s, f, p, v, t
      <3> QED
        BY <2>1 DEF Row
    <2>3. t \in {"done", "skipped"} => ~NeedsWork(v) \/ f = call[c].out
      BY DEF StatusFor, CheckSkip
    <2>4. k.pc \in {"idle", "enqueue"} /\ k.stat = None /\ k.out = None
      BY DEF Silent
    <2>5. /\ row' = [row EXCEPT ![p] = r] /\ belated' = belated \ {p}
          /\ call[c].pc = "decide" /\ Continues(c, k)
      BY <1>8 DEF AnalyzeDecides, UpdateMediaAnalysis, Returns
    <2> HIDE DEF r, k, t
    <2> QED
      BY <1>1, <1>2, <2>2, <2>3, <2>4, <2>5, WritingKeeps
  <1>9. CASE AnalyzeEnqueues(c)
    <2>1. \A q \in Paths : RowStays(q)
      BY <1>2, <1>9, EnqueueStays DEF AnalyzeEnqueues
    <2> QED
      BY <1>1, <1>9, <2>1, CallsStay, QuietRows DEF AnalyzeEnqueues
  <1>10. CASE AnalyzeBreaks(c)
    BY <1>3, <1>10 DEF AnalyzeBreaks, db, history
  <1> QED
    BY <1>4, <1>5, <1>6, <1>7, <1>8, <1>9, <1>10 DEF AnalyzeIn

\* Others bring content the path has not seen, or take it away.
LEMMA OutsideHolds ==
    ASSUME IInv, SInv, Outside, MovesOn
    PROVE  SInv'
  <1>1. UNCHANGED <<row, call, worker, belated>>
    BY DEF Outside, MountDrops, MountReturns, OutsiderWrites, OutsiderDeletes, Settles,
       OutsiderMoves, KeepProcess, db
  <1>2. CASE UNCHANGED <<disk, kind>>
    BY <1>1, <1>2, StillKeeps
  <1>3. ASSUME NEW p \in Paths, OutsiderWrites(p) PROVE SInv'
    <2>1. PICK v \in Version, k \in {"work", "compliant", "rewrite"} :
             Unused(v) /\ kind' = [kind EXCEPT ![v] = k] /\ disk' = [disk EXCEPT ![p] = v]
      BY <1>3 DEF OutsiderWrites
    <2>2. /\ disk'[p] = v /\ kind'[v] # "unwritten"
          /\ \A u \in Version : kind[u] # "unwritten" => kind'[u] = kind[u]
          /\ \A q \in Paths : q # p => disk'[q] = disk[q]
      BY <2>1 DEF IInv, TypeOK, Unused
    <2>3. NewAt(p)
      BY <2>1, <2>2, UnusedIsNew
    <2> QED
      BY <1>1, <2>2, <2>3, StirKeeps DEF IInv, Named
  <1>4. ASSUME NEW p \in Paths, OutsiderDeletes(p) PROVE SInv'
    <2>1. UNCHANGED kind /\ \A q \in Paths : disk'[q] = disk[q] \/ disk'[q] = None
      BY <1>4 DEF IInv, TypeOK, OutsiderDeletes
    <2> QED
      BY <1>1, <2>1, StirKeeps DEF IInv, Named
  <1>5. ASSUME NEW p \in Paths, NEW q \in Paths, OutsiderMoves(p, q) PROVE SInv'
    <2>1. /\ UNCHANGED kind /\ disk[p] # None /\ disk[q] = None
          /\ disk' = [disk EXCEPT ![q] = disk[p], ![p] = None]
      BY <1>5 DEF OutsiderMoves
    <2>2. disk'[q] = disk[p] /\ \A o \in Paths \ {q} : disk'[o] = disk[o] \/ disk'[o] = None
      BY <2>1 DEF IInv, TypeOK
    <2>3. disk[p] \notin Known(q)
      BY <1>5 DEF MovesOn
    <2>4. ASSUME NEW c \in Callers, call[c].path = q
          PROVE  {call[c].stat, call[c].out} \subseteq Known(q)
      BY <2>4 DEF Known
    <2>5. {row[q].stat, row[q].out} \subseteq Known(q)
      BY DEF Known
    <2>6. NewAt(q)
      BY <2>1, <2>2, <2>3, <2>4, <2>5 DEF SInv, KnownIsOld, Old, NewAt
    <2> QED
      BY <1>1, <2>1, <2>2, <2>6, StirKeeps DEF IInv, Named
  <1> QED
    BY <1>2, <1>3, <1>4, <1>5 DEF Outside, MountDrops, MountReturns, Settles

\* A crash forgets the analyses, and recovery records only what is there.
LEMMA CrashHolds ==
    ASSUME IInv, SInv, Crash
    PROVE  SInv'
  <1> DEFINE p == worker.path
  <1>1. /\ worker' = NoWork /\ UNCHANGED <<disk, kind>>
        /\ \A c \in Callers : call'[c] = Silent
    BY DEF Crash, world
  <1>2. \A c \in Callers : CallStays(c)
    BY <1>1 DEF CallStays, Silent
  <1>3. worker'.pc = "idle" /\ worker'.stat = None
    BY <1>1 DEF NoWork
  <1>4. ASSUME \A q \in Paths : RowStays(q) PROVE SInv'
    BY <1>1, <1>2, <1>3, <1>4, QuietKeeps DEF IInv, Named
  <1>5. worker.pc # "idle" => p \in Paths
    BY DEF IInv, Named
  <1>6. CASE UNCHANGED <<db, belated>>
    BY <1>4, <1>6 DEF db, RowStays
  <1>7. ASSUME NEW s \in {"queued", "failed"}, worker.pc # "idle", UNCHANGED belated,
               row' = [row EXCEPT ![p].status = s]
        PROVE  SInv'
    <2> HIDE DEF p
    <2> QED
      BY <1>4, <1>5, <1>7, StatusStays
  <1>8. CASE worker.pc # "idle" /\ RecordPromotion(p, disk[p], disk[p], "done")
    <2>1. disk[p] \in Version \union {None} /\ Old(disk[p])
      BY <1>5, <1>8 DEF IInv, TypeOK, SInv, KnownIsOld
    <2>2. \A c \in Callers : call'[c] \in {call[c], Silent}
      BY <1>1
    <2> HIDE DEF p
    <2> QED
      BY <1>1, <1>5, <1>8, <2>1, <2>2, RecordingKeeps
  <1> QED
    BY <1>6, <1>7, <1>8 DEF Crash, Recovers

\* The strengthening of what scans pass over holds for every bound, as long as
\* nothing returns to where it was.
LEMMA SeenHolds == Spec /\ NothingReturns => []SInv
  <1>1. Init => SInv
    BY DEF Init, SInv, KnownIsOld, Old, RenamedIsNew, RowHolds, CallHolds, NoRow,
       Silent, NoWork, None
  <1>2. IInv /\ SInv /\ [Next]_vars /\ [MovesOn]_vars => SInv'
    <2> SUFFICES ASSUME IInv, SInv, [Next]_vars, [MovesOn]_vars PROVE SInv'
      OBVIOUS
    <2>1. CASE UNCHANGED vars
      BY <2>1, StillKeeps DEF vars, world, db, history
    <2>2. CASE Next /\ MovesOn
      BY <2>2, ScannerHolds, WebhookHolds, UserHolds, WorkerHolds, AnalysisHolds,
         OutsideHolds, CrashHolds DEF Next
    <2> QED
      BY <2>1, <2>2
  <1> QED
    BY <1>1, <1>2, Inductive, PTL DEF Spec, NothingReturns

\* A row that scans pass over has the fingerprint of the content it passes over, on
\* any number of paths and for any interleaving of analyses, imports, promotions,
\* integrity checks and crashes in which no content returns to a path that saw it.
THEOREM FingerprintIsOfStat == Spec /\ NothingReturns => []StatImpliesFingerprint
  <1>1. SInv => StatImpliesFingerprint
    BY DEF SInv, RowHolds, StatImpliesFingerprint
  <1> QED
    BY <1>1, SeenHolds, PTL

\* What scans pass over as finished complies with the policy or is our own output,
\* under the same condition.
THEOREM FinishedComplies == Spec /\ NothingReturns => []PassedOverComplies
  <1>1. SInv => PassedOverComplies
    BY DEF SInv, RowHolds, PassedOverComplies
  <1> QED
    BY <1>1, SeenHolds, PTL

\* On one path, which is what the run checks, nothing can return and the condition
\* is met.
THEOREM OnePath ==
    ASSUME \A p, q \in Paths : p = q
    PROVE  Spec => [](StatImpliesFingerprint /\ PassedOverComplies)
  <1>1. MovesOn
    BY DEF MovesOn, OutsiderMoves
  <1> QED
    BY <1>1, FingerprintIsOfStat, FinishedComplies, PTL DEF NothingReturns
=============================================================================
