------------------------------- MODULE Bulk -------------------------------
(***************************************************************************)
(* Operations on many files (job/bulk.go, api/bulk.go): a re-check and the *)
(* space reclaim sweep first list what a filter selects, page by page,     *)
(* each page a count and then a select, and then look at one file after    *)
(* the other.  Ingest and the worker go on meanwhile, so files enter and   *)
(* leave the filter between any two reads.                                 *)
(***************************************************************************)
EXTENDS Integers, FiniteSets

CONSTANTS
    Media,          \* the files, numbered in the order of their paths
    PageSize,       \* mediaPageSize
    Selections,     \* the sets of files a request may name by their ids
    MaxChanges      \* bounds how often a file enters or leaves the filter

ASSUME BulkAssumption ==
    /\ Media \subseteq Nat /\ IsFiniteSet(Media)
    /\ PageSize \in Nat \ {0} /\ MaxChanges \in Nat
    /\ Selections \subseteq SUBSET Media   \* an id of no file is an error at once

VARIABLES
    listed,         \* the files the filter selects now
    active,         \* the files with an active job
    changes,        \* how often a file has entered or left the filter
    bulk            \* the operation under way

bulkVars == <<listed, active, changes, bulk>>

NoBulk == [pc |-> "none"]

BulkTypeOK ==
    /\ listed \in SUBSET Media /\ active \in SUBSET Media
    /\ changes \in 0..MaxChanges
    /\ bulk.pc \in {"none", "count", "page", "examine", "consider", "done"}
    /\ bulk # NoBulk =>
          /\ bulk.op \in {"recheck", "sweep"} /\ bulk.confirm \in BOOLEAN
          /\ bulk.total \in Nat /\ bulk.read \in Nat
          /\ UNION {bulk.todo, bulk.examined, bulk.inserted, bulk.steady} \subseteq Media

-----------------------------------------------------------------------------

BulkInit ==
    /\ listed \in SUBSET Media
    /\ active = {}
    /\ changes = 0
    /\ bulk = NoBulk

KeepLibrary == UNCHANGED <<listed, active, changes>>

Begin(op, confirm) ==
    [pc |-> "count", op |-> op, confirm |-> confirm, total |-> 0, read |-> 0,
     todo |-> {}, at |-> 0, examined |-> {}, inserted |-> {},
     steady |-> listed, left |-> FALSE, slipped |-> FALSE]

\* RecheckAll and Recheck with a filter; the sweep's filter is its codec.
SelectByFilter ==
    /\ bulk = NoBulk
    /\ \E op \in {"recheck", "sweep"}, confirm \in BOOLEAN : bulk' = Begin(op, confirm)
    /\ KeepLibrary

\* A request names the files.  A re-check that names neither files nor a filter
\* gets nothing; a sweep without ids takes its own filter, and only its run, which
\* must be confirmed, takes ids.
SelectByIds ==
    /\ bulk = NoBulk
    /\ \E op \in {"recheck", "sweep"}, confirm \in BOOLEAN, ids \in Selections :
          /\ op = "sweep" => confirm /\ ids # {}
          /\ bulk' = [Begin(op, confirm) EXCEPT !.pc = "examine", !.todo = ids, !.steady = ids]
    /\ KeepLibrary

(* listAll: a page is the count and then the select, two reads; the next page *)
(* begins where as many rows end as have been read so far.                    *)
Rank(f) == Cardinality({g \in listed : g <= f})
PageFrom(offset) == {f \in listed : Rank(f) \in (offset + 1)..(offset + PageSize)}

CountFiles ==
    /\ bulk.pc = "count"
    /\ bulk' = [bulk EXCEPT !.pc = "page", !.total = Cardinality(listed)]
    /\ KeepLibrary

SelectPageOnce ==
    /\ bulk.pc = "page"
    /\ LET page == PageFrom(bulk.read)
       IN bulk' = [bulk EXCEPT !.pc = "examine", !.read = @ + Cardinality(page),
                               !.todo = @ \union page]
    /\ KeepLibrary

SelectPage ==
    /\ bulk.pc = "page"
    /\ LET page == PageFrom(bulk.read)
           read == bulk.read + Cardinality(page)
       IN bulk' = [bulk EXCEPT
             !.pc = IF page = {} \/ read >= bulk.total THEN "examine" ELSE "count",
             !.read = read, !.todo = @ \union page]
    /\ KeepLibrary

\* The file whose turn it is, in the order of the paths.  A file two pages have
\* listed is looked at twice by the code and once here.
ItsTurn(f) == f \in bulk.todo /\ \A g \in bulk.todo : f <= g
Done(f, pc) ==
    [bulk EXCEPT !.pc = pc, !.at = f, !.todo = @ \ {f}, !.examined = @ \union {f}]

\* Inserting a job does nothing to a file that has an active one.
Insert(f, next) ==
    /\ active' = active \union {f}
    /\ bulk' = IF f \in active THEN next ELSE [next EXCEPT !.inserted = @ \union {f}]

(* Recheck looks again at the file: that fails, or finds nothing to do, or  *)
(* queues the file by itself, confirmed or not (ingest's analyzer inserts a *)
(* job for what it plans).                                                  *)
Reanalyse(f) ==
    /\ bulk.pc = "examine" /\ bulk.op = "recheck" /\ ItsTurn(f)
    /\ \/ bulk' = Done(f, "examine") /\ UNCHANGED active
       \/ Insert(f, Done(f, IF bulk.confirm THEN "consider" ELSE "examine"))
    /\ UNCHANGED <<listed, changes>>

\* considerRecheck queues what the analysis just planned, if confirmed.
ConsiderRecheck(f) ==
    /\ bulk.pc = "consider" /\ f = bulk.at
    /\ Insert(f, [bulk EXCEPT !.pc = "examine"])
    /\ UNCHANGED <<listed, changes>>

(* The sweep measures the file.  It is no candidate, or one; a candidate is  *)
(* queued if the sweep is a run and its stored plan has anything else to do. *)
Evaluate(f) ==
    /\ bulk.pc = "examine" /\ bulk.op = "sweep" /\ ItsTurn(f)
    /\ \/ bulk' = Done(f, "examine") /\ UNCHANGED active
       \/ bulk.confirm /\ Insert(f, Done(f, "examine"))
    /\ UNCHANGED <<listed, changes>>

EndBulk ==
    /\ bulk.pc = "examine" /\ bulk.todo = {}
    /\ bulk' = [bulk EXCEPT !.pc = "done"]
    /\ KeepLibrary

\* The result is returned, or an error or the caller ended the operation.
BulkReturns ==
    /\ bulk # NoBulk
    /\ bulk' = NoBulk
    /\ KeepLibrary

(* Ingest and the worker. *)
Listing == bulk.pc \in {"count", "page"}

FileEnters(f) ==
    /\ changes < MaxChanges /\ f \notin listed
    /\ listed' = listed \union {f} /\ changes' = changes + 1
    /\ bulk' = IF bulk.pc = "page" THEN [bulk EXCEPT !.slipped = TRUE] ELSE bulk
    /\ UNCHANGED active

FileLeaves(f) ==
    /\ changes < MaxChanges /\ f \in listed
    /\ listed' = listed \ {f} /\ changes' = changes + 1
    /\ bulk' = IF Listing THEN [bulk EXCEPT !.steady = @ \ {f}, !.left = @ \/ bulk.read > 0]
               ELSE bulk
    /\ UNCHANGED active

JobEnds(f) ==
    /\ f \in active /\ active' = active \ {f}
    /\ UNCHANGED <<listed, changes, bulk>>

BulkNext ==
    \/ SelectByFilter \/ SelectByIds \/ CountFiles \/ SelectPage
    \/ \E f \in Media :
          \/ Reanalyse(f) \/ ConsiderRecheck(f) \/ Evaluate(f)
          \/ FileEnters(f) \/ FileLeaves(f) \/ JobEnds(f)
    \/ EndBulk \/ BulkReturns

BulkSpec == BulkInit /\ [][BulkNext]_bulkVars

-----------------------------------------------------------------------------

(* An operation over a filter looks at every file that was in it from its    *)
(* beginning to the end of the listing, and one over ids at every id, however *)
(* many pages that takes and whatever else comes and goes - but for files    *)
(* that leave the filter once a page has been read, which shifts the next    *)
(* page, and for one that enters between a count and its page, which ends    *)
(* the listing early.                                                        *)
EveryFileExamined ==
    bulk.pc = "done" /\ ~bulk.left /\ ~bulk.slipped => bulk.steady \subseteq bulk.examined

(* What api/bulk.go says of every bulk operation: nothing here queues        *)
(* anything without confirm.                                                 *)
DryRunQueuesNothing == bulk # NoBulk /\ ~bulk.confirm => bulk.inserted = {}
=============================================================================
