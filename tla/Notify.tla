------------------------------ MODULE Notify ------------------------------
(***************************************************************************)
(* Who is told of a promotion (arr/notify.go, arr/rescan.go, adapters.go   *)
(* ResolveOwner, plex/refresh.go): first the Plex server, then the *arr    *)
(* instance that owns the file, if one does.  Every call may fail, and the *)
(* operator edits instances and roots (api/arr.go, api/roots.go) between   *)
(* any two of them.                                                        *)
(***************************************************************************)
EXTENDS PathMap, FiniteSets

CONSTANTS
    Instance,       \* *arr instances
    Radarr,         \* those of them that are Radarr; the others are Sonarr
    RootPath,       \* where a root may be; rows are told apart by normalised paths
    File,           \* the promoted file's path
    Reported,       \* lists of folders an instance may report, as mapped
    Unmapped,       \* such a folder that no mapping rewrites
    NoInstanceRow, NoRootRow,
    MaxEdits        \* bounds the operator's edits

ASSUME NotifyAssumption ==
    NoInstance \notin Instance /\ Radarr \subseteq Instance /\ MaxEdits \in Nat

ASSUME NotifyPaths ==
    /\ RootPath \union {File} \subseteq Seq(STRING)
    /\ \A p \in RootPath : Normalise(p) = p

VARIABLES
    instances,      \* the instances' rows
    roots,          \* the roots' rows, by path
    reportedBy,     \* whose webhook gave the file's row its entity id
    edits,          \* how often the operator has changed something
    note            \* the notification under way

notifyVars == <<instances, roots, reportedBy, edits, note>>

InstanceRow == [enabled : BOOLEAN, rescan : BOOLEAN, unmonitor : BOOLEAN]
RootRow == [owner : Instance \union {NoInstance}, enabled : BOOLEAN]
NoNote == [pc |-> "none"]

NotifyTypeOK ==
    /\ instances \in [Instance -> InstanceRow \union {NoInstanceRow}]
    /\ roots \in [RootPath -> RootRow \union {NoRootRow}]
    /\ reportedBy \in Instance \union {NoInstance}
    /\ edits \in 0..MaxEdits
    /\ note.pc \in {"none", "target", "before", "refresh", "after", "analyze",
                    "roots", "instance", "item", "rescan", "unmonitor", "told"}

Roots(rows) ==
    {[path |-> p, owner |-> rows[p].owner, enabled |-> rows[p].enabled] :
       p \in {q \in RootPath : rows[q] # NoRootRow}}
Exists(i) == instances[i] # NoInstanceRow

-----------------------------------------------------------------------------
(* The operator.  An edit that comes while a notification is under way is    *)
(* remembered: what the file's owner is, is then a matter of timing.         *)

Disturb == note' = IF note = NoNote THEN note ELSE [note EXCEPT !.edited = TRUE]

Edit ==
    /\ edits < MaxEdits
    /\ edits' = edits + 1
    /\ Disturb

\* CreateArrInstance and UpdateArrInstance.
SaveInstance(i) ==
    /\ Edit
    /\ \E r \in InstanceRow : instances' = [instances EXCEPT ![i] = r]
    /\ UNCHANGED <<roots, reportedBy>>

\* The roots of a deleted instance stay, without an owner.
DeleteInstance(i) ==
    /\ Edit /\ Exists(i)
    /\ instances' = [instances EXCEPT ![i] = NoInstanceRow]
    /\ roots' = [p \in RootPath |->
                   IF roots[p] # NoRootRow /\ roots[p].owner = i
                   THEN [roots[p] EXCEPT !.owner = NoInstance] ELSE roots[p]]
    /\ UNCHANGED reportedBy

\* A root may not lie under another one, nor above it.
CreateRoot(p) ==
    /\ Edit
    /\ \A q \in RootPath :
          roots[q] # NoRootRow => ~UnderPrefix(p, q) /\ ~UnderPrefix(q, p)
    /\ \E r \in RootRow : /\ r.owner # NoInstance => Exists(r.owner)
                          /\ roots' = [roots EXCEPT ![p] = r]
    /\ UNCHANGED <<instances, reportedBy>>

DeleteRoot(p) ==
    /\ Edit /\ roots[p] # NoRootRow
    /\ roots' = [roots EXCEPT ![p] = NoRootRow]
    /\ UNCHANGED <<instances, reportedBy>>

\* ImportArrRoots: the folders up to the first unmapped one become roots of the
\* instance, but for those that are somebody's root already.
ImportArrRoots(i, reported) ==
    /\ Edit /\ Exists(i)
    /\ LET imported == {reported[k] : k \in {n \in DOMAIN reported :
                          \A m \in 1..n : reported[m] # Unmapped}}
       IN roots' = [p \in RootPath |->
                      IF p \in imported /\ roots[p] = NoRootRow
                      THEN [owner |-> i, enabled |-> TRUE] ELSE roots[p]]
    /\ UNCHANGED <<instances, reportedBy>>

\* An import webhook names the file's movie or series as its sender knows it.
WebhookNamesItem(i) ==
    /\ Exists(i) /\ reportedBy = NoInstance
    /\ reportedBy' = i
    /\ Disturb
    /\ UNCHANGED <<instances, roots, edits>>

-----------------------------------------------------------------------------

\* The instances that have been set up so far; the roots come next.
NotifyInit ==
    /\ instances \in [Instance -> InstanceRow \union {NoInstanceRow}]
    /\ roots = [p \in RootPath |-> NoRootRow]
    /\ reportedBy = NoInstance
    /\ edits = 0
    /\ note = NoNote

Notice(n) == note' = n /\ UNCHANGED <<instances, roots, reportedBy, edits>>
At(pc) == note.pc = pc

ArrHalf(edited) ==
    [pc |-> "roots", owner |-> NoInstance, flags |-> NoInstanceRow, item |-> FALSE,
     told |-> {}, read |-> TRUE, edited |-> edited]

\* A promotion has succeeded.  The two switches are those of the Plex client,
\* both off when no server is configured; Plex may know the file already.
NotifyPromoted ==
    /\ note = NoNote
    /\ \E refresh, analyze, indexed \in BOOLEAN :
          note' = IF refresh \/ analyze
                  THEN [pc |-> "target", refresh |-> refresh, analyze |-> analyze,
                        indexed |-> indexed, known |-> FALSE, edited |-> FALSE]
                  ELSE ArrHalf(FALSE)
    /\ UNCHANGED <<instances, roots, reportedBy, edits>>

PlexHalf == note.pc \in {"target", "before", "refresh", "after", "analyze"}

\* A scan of its library makes the file known to Plex.
PlexScans ==
    /\ PlexHalf /\ ~note.indexed
    /\ Notice([note EXCEPT !.indexed = TRUE])

(* The Plex half: an error ends it, and the other half goes on as it does after *)
(* a success.                                                                   *)
PlexDone == Notice(ArrHalf(note.edited))

ResolveTarget ==
    /\ At("target")
    /\ \/ Notice([note EXCEPT !.pc = IF note.analyze THEN "before" ELSE "refresh"])
       \/ PlexDone

\* The item is looked up before the refresh, which would race with it.
LookUpBefore ==
    /\ At("before")
    /\ \E answered \in BOOLEAN :
          Notice([note EXCEPT !.pc = IF note.refresh THEN "refresh" ELSE "after",
                              !.known = answered /\ note.indexed])

RefreshDir ==
    /\ At("refresh")
    /\ \/ note.analyze /\ Notice([note EXCEPT !.pc = "after"])
       \/ PlexDone

\* A lookup that found nothing is tried once more.
LookUpAgain ==
    /\ At("after")
    /\ \/ note.known /\ Notice([note EXCEPT !.pc = "analyze"])
       \/ ~note.known /\ note.indexed /\ Notice([note EXCEPT !.pc = "analyze", !.known = TRUE])
       \/ ~note.known /\ PlexDone

AnalyzeItem ==
    /\ At("analyze")
    /\ PlexDone

(* The *arr half. *)
NoOwner(n) == [n EXCEPT !.pc = "told"]

ReadRoots ==
    /\ At("roots")
    /\ LET owner == Attribute(Roots(roots), File)
       IN Notice(IF owner = NoInstance THEN NoOwner(note)
                 ELSE [note EXCEPT !.pc = "instance", !.owner = owner])

LoadInstance ==
    /\ At("instance")
    /\ Notice(IF ~Exists(note.owner) \/ ~instances[note.owner].enabled
              THEN NoOwner([note EXCEPT !.owner = NoInstance])
              ELSE [note EXCEPT !.pc = "item", !.flags = instances[note.owner]])

\* The item is named by the id in the file's row, whoever it came from.
LoadItem ==
    /\ At("item")
    /\ Notice([note EXCEPT !.pc = "rescan", !.item = reportedBy # NoInstance])

\* A read of the store fails: no owner is known, nobody is told.
ReadFails ==
    /\ At("roots") \/ At("instance") \/ At("item")
    /\ Notice([NoOwner(note) EXCEPT !.read = FALSE])

\* A command is sent if there is an item to name; the instance may refuse it.
Tell(what) ==
    IF note.flags[what] /\ note.item
    THEN note.told \union {[to |-> note.owner, what |-> what]} ELSE note.told

\* A rescan that fails is the end of it.
RescanOrStop ==
    /\ At("rescan")
    /\ \E pc \in {"unmonitor", "told"} :
          Notice([note EXCEPT !.pc = pc, !.told = Tell("rescan")])

Rescan ==
    /\ At("rescan")
    /\ Notice([note EXCEPT !.pc = "unmonitor", !.told = Tell("rescan")])

\* Runs whether or not the rescan failed.  The episodes of a series are never
\* named, so Sonarr is never asked.
Unmonitor ==
    /\ At("unmonitor")
    /\ Notice([note EXCEPT !.pc = "told",
                 !.told = IF note.owner \in Radarr THEN Tell("unmonitor") ELSE @])

\* Promotion goes on, whatever the outcome.
NotifyReturns ==
    /\ At("told")
    /\ note' = NoNote
    /\ UNCHANGED <<instances, roots, reportedBy, edits>>

NotifyNext ==
    \/ \E i \in Instance : SaveInstance(i) \/ DeleteInstance(i) \/ WebhookNamesItem(i)
    \/ \E p \in RootPath : CreateRoot(p) \/ DeleteRoot(p)
    \/ \E i \in Instance, reported \in Reported : ImportArrRoots(i, reported)
    \/ NotifyPromoted \/ PlexScans
    \/ ResolveTarget \/ LookUpBefore \/ RefreshDir \/ LookUpAgain \/ AnalyzeItem
    \/ ReadRoots \/ LoadInstance \/ LoadItem \/ ReadFails \/ Rescan \/ Unmonitor
    \/ NotifyReturns

NotifySpec == NotifyInit /\ [][NotifyNext]_notifyVars

-----------------------------------------------------------------------------

\* The deepest of the enabled roots above the file is a root of i.
Over(p) == roots[p] # NoRootRow /\ roots[p].enabled /\ UnderPrefix(File, p)
Owns(i) ==
    \E p \in RootPath :
       /\ Over(p) /\ roots[p].owner = i
       /\ \A q \in RootPath : Over(q) => UnderPrefix(p, q)

(* A promotion tells the instance that owns the file, all it was asked to be *)
(* told and nobody else, whatever became of the calls to Plex and of the     *)
(* other command: a rescan, and for Radarr that the movie is done with.  The *)
(* exceptions are an item no webhook has named, a store that cannot be read, *)
(* and an operator who edits instances or roots at that very time; and even  *)
(* then no two instances are told.                                           *)
OwnerIsTold ==
    note.pc = "told" =>
       /\ \A s, t \in note.told : s.to = t.to
       /\ ~note.edited /\ note.read =>
             \A i \in Instance, what \in {"rescan", "unmonitor"} :
                [to |-> i, what |-> what] \in note.told
                   <=> /\ Owns(i) /\ Exists(i) /\ instances[i].enabled
                       /\ instances[i][what] /\ reportedBy # NoInstance
                       /\ what = "unmonitor" => i \in Radarr
=============================================================================
