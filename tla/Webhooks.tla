------------------------------ MODULE Webhooks ------------------------------
(***************************************************************************)
(* From an *arr's event to the files Codarr works on (arr/webhook.go,      *)
(* api/webhook.go, ingest/webhook.go).  An instance imports, renames and   *)
(* deletes files and posts a payload about it; the receiver reads the      *)
(* payload, then the instance's row, then the instance's own path          *)
(* mappings, and analyses or retires what the paths name by then.  Ingest  *)
(* has the steps of an analysis.                                           *)
(***************************************************************************)
EXTENDS PathMap, FiniteSets

CONSTANTS
    Sender,         \* the *arr instances that post events
    Folder,         \* the folder of each one's title, as it sees it
    LocalFolder,    \* ... and as Codarr sees it
    Named,          \* what a file may be called below that folder
    ExtrasDir, NotVideo,    \* directories and file names that are left out
    MappingsOf,     \* the mappings each may be given
    Blank,          \* a field that is empty
    Relative,       \* a path that is not absolute, such as C:\tv
    MaxEvents       \* bound on what happens in the libraries and to the rows

ASSUME WebhooksAssumption ==
    /\ MaxEvents \in Nat /\ Blank # Relative
    /\ \A s \in Sender : <<>> \in MappingsOf[s]

\* An absolute path is neither empty nor a relative one.
ASSUME WebhooksPaths ==
    \A s \in Sender : /\ Folder[s] # Relative
                      /\ \A n \in Named : Folder[s] \o n \notin {Blank, Relative}

VARIABLES
    disk,           \* the files, by their local names
    senders,        \* the instance rows with their mappings
    posted,         \* events on their way
    request,        \* the one being handled
    rows,           \* local names with a row that is not missing
    happened

webhooksVars == <<disk, senders, posted, request, rows, happened>>

LocalNameOf(s, n) == LocalFolder[s] \o n
Has(s) == {n \in Named : LocalNameOf(s, n) \in disk}
LocalFiles == {LocalNameOf(s, n) : s \in Sender, n \in Named}

Types == {"Download", "Rename", "Delete", "Test", "Grab"}
\* How an *arr may describe its files: by their paths, by their names in the
\* folder, by paths of another system, not at all.
Shapes == {"path", "name", "windows", "none"}
NoRequest == [pc |-> "idle"]

-----------------------------------------------------------------------------
(* The payload.  new and old are the names the event is about. *)

FolderSeen(s, shape) == IF shape = "windows" THEN Relative ELSE Folder[s]
Remote(s, n, shape) == IF shape = "windows" THEN Relative ELSE Folder[s] \o n

FileOf(s, shape, n, previous) ==
    [path |-> IF shape = "name" THEN Blank ELSE Remote(s, n, shape),
     relative |-> n,
     previous |-> IF previous = Blank THEN Blank ELSE Remote(s, previous, shape)]

\* moved has the previous name of each new one, or nothing for it.
Payload(s, type, shape, moved) ==
    [from |-> s, type |-> type, folder |-> FolderSeen(s, shape), moved |-> moved, shape |-> shape,
     files |-> IF shape = "none" THEN {}
               ELSE {FileOf(s, shape, n, moved[n]) : n \in DOMAIN moved}]

Post(s, type, moved) ==
    /\ happened < MaxEvents /\ happened' = happened + 1
    /\ \E shape \in IF type \in {"Test", "Grab"} THEN {"none"} ELSE Shapes :
          posted' = posted \union {Payload(s, type, shape, moved)}
    /\ UNCHANGED <<senders, request, rows>>

Imports(s) ==
    \E n \in Named \ Has(s) :
       /\ disk' = disk \union {LocalNameOf(s, n)}
       /\ Post(s, "Download", [k \in {n} |-> Blank])

\* One event for all the files that are renamed.
Renames(s) ==
    \E old \in SUBSET Has(s) \ {{}}, new \in SUBSET (Named \ Has(s)) :
       /\ Cardinality(new) = Cardinality(old)
       /\ disk' = (disk \ {LocalNameOf(s, n) : n \in old}) \union {LocalNameOf(s, n) : n \in new}
       /\ \E moved \in [new -> old] :
             /\ {moved[n] : n \in new} = old
             /\ Post(s, "Rename", moved)

Deletes(s) ==
    \E n \in Has(s) :
       /\ disk' = disk \ {LocalNameOf(s, n)}
       /\ Post(s, "Delete", [k \in {n} |-> Blank])

\* A press of the test button, and an event Codarr does not act on.
Chatters(s) ==
    /\ \E type \in {"Test", "Grab"} : Post(s, type, [k \in {} |-> Blank])
    /\ UNCHANGED disk

Reconfigures(s) ==
    /\ happened < MaxEvents /\ happened' = happened + 1
    /\ \E enabled \in BOOLEAN, mappings \in MappingsOf[s] :
          senders' = [senders EXCEPT ![s] = [enabled |-> enabled, mappings |-> mappings]]
    /\ UNCHANGED <<disk, posted, request, rows>>

-----------------------------------------------------------------------------
(* ParseWebhook, and the paths the receiver takes from it. *)

\* The path, or the folder and the relative path.
FullPath(f, folder) ==
    IF f.path # Blank THEN f.path
    ELSE IF folder = Relative THEN Relative ELSE folder \o f.relative

CollectFiles(e) ==
    {[remote |-> FullPath(f, e.folder), previous |-> f.previous] : f \in e.files}

Handled(e) == e.type # "Grab"

\* Only what is acted upon has to name a file.
Valid(e) == Handled(e) /\ e.type # "Test" => CollectFiles(e) # {}

\* Deviation: only the names the files have now.
NewPaths(e) == {f.remote : f \in CollectFiles(e)}

\* Both sides of a rename.
EventPaths(e) == {f.remote : f \in CollectFiles(e)} \union
                 ({f.previous : f \in CollectFiles(e)} \ {Blank})

\* mapPaths: a path that no mapping covers is taken as it is.
MapPaths(mappings, paths) == {ToLocal(mappings, r) : r \in paths \ {Relative}}

\* The extras directories, and the names that are no video to work on.
ExcludeDir(name) == name \in ExtrasDir
ExcludeFile(p) == p[Len(p)] \in NotVideo

\* Every file below the folder that is worth a look.
WalkFolder(local) ==
    {p \in disk :
        /\ UnderPrefix(p, local) /\ ~ExcludeFile(p)
        /\ \A i \in (Len(local) + 1)..(Len(p) - 1) : ~ExcludeDir(p[i])}

\* An event whose paths are of no use has its folder walked.
ResolvePaths(mappings, e) ==
    LET paths == MapPaths(mappings, EventPaths(e))
    IN  IF paths = {} /\ e.folder # Relative THEN WalkFolder(ToLocal(mappings, e.folder))
        ELSE paths

-----------------------------------------------------------------------------
(* A request. *)

KeepWorld == UNCHANGED <<disk, senders, happened>>

\* Deviation: an event that names no file passes too.
ReceiveAny ==
    /\ request = NoRequest
    /\ \E e \in posted :
          /\ posted' = posted \ {e}
          /\ request' = [pc |-> "handle", event |-> e]
    /\ KeepWorld /\ UNCHANGED rows

ReceiveArrWebhook ==
    /\ request = NoRequest
    /\ \E e \in posted :
          /\ posted' = posted \ {e}
          /\ request' = IF Valid(e) THEN [pc |-> "handle", event |-> e] ELSE NoRequest
    /\ KeepWorld /\ UNCHANGED rows

\* A test, a disabled instance and a type of no interest are acknowledged.
Handle ==
    /\ request.pc = "handle"
    /\ request' = IF request.event.type \in {"Download", "Rename", "Delete"}
                     /\ senders[request.event.from].enabled
                  THEN [pc |-> "resolve", event |-> request.event] ELSE NoRequest
    /\ KeepWorld /\ UNCHANGED <<posted, rows>>

\* The mappings of the instance whose webhook it is.
ResolveEvent ==
    /\ request.pc = "resolve"
    /\ LET mappings == senders[request.event.from].mappings IN
       request' = [pc |-> "act", event |-> request.event, mappings |-> mappings,
                   paths |-> ResolvePaths(mappings, request.event)]
    /\ KeepWorld /\ UNCHANGED <<posted, rows>>

\* ingest: what is there now and is a video.
IngestEvent ==
    /\ request.pc = "act" /\ request.event.type # "Delete"
    /\ rows' = rows \union {p \in request.paths : p \in disk /\ ~ExcludeFile(p)}
    /\ request' = NoRequest
    /\ KeepWorld /\ UNCHANGED posted

\* retire: the rows there are.
RetireEvent ==
    /\ request.pc = "act" /\ request.event.type = "Delete"
    /\ rows' = rows \ request.paths
    /\ request' = NoRequest
    /\ KeepWorld /\ UNCHANGED posted

\* A store read fails: the event is lost.
RequestFails ==
    /\ request.pc \in {"handle", "resolve", "act"}
    /\ request' = NoRequest
    /\ KeepWorld /\ UNCHANGED <<posted, rows>>

-----------------------------------------------------------------------------

WebhooksInit ==
    /\ disk = {} /\ posted = {} /\ request = NoRequest /\ rows = {} /\ happened = 0
    /\ \E mappings \in [Sender -> UNION {MappingsOf[s] : s \in Sender}] :
          /\ \A s \in Sender : mappings[s] \in MappingsOf[s]
          /\ senders = [s \in Sender |-> [enabled |-> TRUE, mappings |-> mappings[s]]]

WebhooksNext ==
    \/ \E s \in Sender : Imports(s) \/ Renames(s) \/ Deletes(s) \/ Chatters(s) \/ Reconfigures(s)
    \/ ReceiveArrWebhook \/ Handle \/ ResolveEvent \/ IngestEvent \/ RetireEvent \/ RequestFails

WebhooksSpec == WebhooksInit /\ [][WebhooksNext]_webhooksVars

-----------------------------------------------------------------------------

WebhooksTypeOK ==
    /\ disk \subseteq LocalFiles
    /\ DOMAIN senders = Sender
    /\ \A s \in Sender : senders[s].enabled \in BOOLEAN /\ senders[s].mappings \in MappingsOf[s]
    /\ \A e \in posted : e.from \in Sender /\ e.type \in Types /\ e.shape \in Shapes
    /\ request.pc \in {"idle", "handle", "resolve", "act"}
    /\ happened \in 0..MaxEvents

\* Where Codarr sees what an event of s names, before and after.
NamesOf(e) == DOMAIN e.moved \union ({e.moved[n] : n \in DOMAIN e.moved} \ {Blank})
FilesOf(e) == {LocalNameOf(e.from, n) : n \in NamesOf(e)}
Right(mappings, s) ==
    \A n \in Named : ToLocal(mappings, Folder[s] \o n) = LocalNameOf(s, n)

\* Under mappings that are right for its sender, what an event is about to be acted
\* upon for is exactly what it names, by both of a renamed file's names, however its
\* payload describes them; a file system Codarr does not share names nothing; and
\* whatever the mappings, no deletion reaches a file that it does not name, such as
\* the rest of its folder (ParseWebhook, parseWebhook, resolve).
EventReachesItsFiles ==
    request.pc = "act" =>
       LET e == request.event IN
       /\ Right(request.mappings, e.from) =>
             request.paths = (IF e.shape = "windows" THEN {} ELSE FilesOf(e))
       /\ e.type = "Delete" =>
             request.paths \subseteq {ToLocal(request.mappings, Folder[e.from] \o n) : n \in NamesOf(e)}
=============================================================================
