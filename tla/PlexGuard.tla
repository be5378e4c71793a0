----------------------------- MODULE PlexGuard -----------------------------
(***************************************************************************)
(* Is somebody watching this file?  The active-stream guard (adapters.go   *)
(* IsStreaming and resolve, plex/sessions.go) asks Plex just before a file *)
(* is replaced.  A session that names its file is believed; a silent one   *)
(* (Plex is transcoding) is looked up by its item, and the answer is kept  *)
(* for a while.  Readers come and go, items move and the configuration     *)
(* changes between the guard's calls.                                      *)
(***************************************************************************)
EXTENDS PathMap, FiniteSets

CONSTANTS
    Item,           \* library items on the Plex server
    PlexFiles,      \* the files there, as Plex names them
    MappingLists,   \* the path mappings an operator may configure
    LocalName,      \* where Codarr really sees each of those files
    NoClient        \* no client has been built

VARIABLES
    library,        \* the file of every item, as Plex knows it
    sessions,       \* what is being played: the item, its file, whether silent
    config,         \* the row and its mappings: configured, guard, mappings
    client,         \* the cached client: what it was built from, its part cache
    check           \* the guard's progress on one path

guardVars == <<library, sessions, config, client, check>>

Session == [item : Item, file : PlexFiles, silent : BOOLEAN]
Config == [configured : BOOLEAN, guard : BOOLEAN, mappings : MappingLists]
NoFile == <<>>
Parts == [Item -> PlexFiles \union {NoFile}]
LocalNames == {LocalName[f] : f \in PlexFiles}

ASSUME GuardAssumption ==
    MappingLists # {} /\ NoClient \notin [mappings : MappingLists, parts : Parts]

NoCheck == [pc |-> "idle"]

\* No two items have the same file.
Libraries == {l \in [Item -> PlexFiles] : \A i, k \in Item : l[i] = l[k] => i = k}

GuardTypeOK ==
    /\ library \in Libraries
    /\ sessions \in SUBSET Session
    /\ config \in Config
    /\ client # NoClient => client.mappings \in MappingLists /\ client.parts \in Parts
    /\ check.pc \in {"idle", "resolve", "sessions", "parts", "answered"}

-----------------------------------------------------------------------------
(* The Plex server and the operator. *)

\* The sessions of s in which somebody is reading the local file p.
Readers(s, p) == {r \in s : LocalName[r.file] = p /\ library[r.item] = r.file}

\* Whoever has been reading the file since the check began goes on doing so.
StillWatched ==
    IF check.pc = "idle" THEN UNCHANGED check
    ELSE check' = [check EXCEPT !.watched =
             {r \in @ : r \in sessions' /\ library'[r.item] = r.file}]

StartPlaying ==
    /\ \E r \in Session :
          /\ r.file = library[r.item]
          /\ ~\E s \in sessions : s.item = r.item
          /\ sessions' = sessions \union {r}
    /\ UNCHANGED <<library, config, client, check>>

StopPlaying ==
    /\ \E r \in sessions : sessions' = sessions \ {r}
    /\ UNCHANGED <<library, config, client>>
    /\ StillWatched

\* Plex notices that an item's file has another name.
MoveItem ==
    /\ \E i \in Item, f \in PlexFiles :
          /\ \A other \in Item : library[other] # f
          /\ library' = [library EXCEPT ![i] = f]
    /\ UNCHANGED <<sessions, config, client>>
    /\ StillWatched

Configure ==
    /\ config' \in Config
    /\ UNCHANGED <<library, sessions, client, check>>

\* The part cache's time is up for an item.
ExpirePart ==
    /\ client # NoClient
    /\ \E i \in Item : client.parts[i] # NoFile
                       /\ client' = [client EXCEPT !.parts[i] = NoFile]
    /\ UNCHANGED <<library, sessions, config, check>>

-----------------------------------------------------------------------------
(* The guard. *)

GuardInit ==
    /\ library \in Libraries
    /\ sessions = {}
    /\ config = [configured |-> FALSE, guard |-> FALSE,
                 mappings |-> CHOOSE m \in MappingLists : TRUE]
    /\ client = NoClient
    /\ check = NoCheck

GuardAnswers(streaming, why) ==
    check' = [check EXCEPT !.pc = "answered", !.streaming = streaming, !.why = why]

\* IsStreaming reads whether the guard is wanted; without a row it is not.
AskGuard(p) ==
    /\ check.pc = "idle"
    /\ LET began == [pc |-> "resolve", path |-> p, watched |-> Readers(sessions, p),
                     streaming |-> FALSE, why |-> "none", mappings |-> config.mappings,
                     silent |-> {}, files |-> {}, stale |-> {}]
       IN check' = IF ~config.guard
                   THEN [began EXCEPT !.pc = "answered", !.why = "unguarded"]
                   ELSE began
    /\ UNCHANGED <<library, sessions, config, client>>

\* resolve reads the row again, and the mappings; a client built from the same
\* ones is used again with its cache, any other is built anew.
Resolve ==
    /\ check.pc = "resolve"
    /\ \/ /\ ~config.configured
          /\ GuardAnswers(FALSE, "unconfigured")
          /\ UNCHANGED client
       \/ /\ config.configured
          /\ check' = [check EXCEPT !.pc = "sessions", !.mappings = config.mappings]
          /\ client' = IF client # NoClient /\ client.mappings = config.mappings
                       THEN client
                       ELSE [mappings |-> config.mappings, parts |-> [i \in Item |-> NoFile]]
    /\ UNCHANGED <<library, sessions, config>>

\* A session that says nothing is taken to read nothing.
SpokenOnly(s) == {}
\* A session that says nothing is looked up.
SilentItems(s) == {r.item : r \in {x \in s : x.silent}}

\* Sessions lists what is being played, never from a cache.
ListSessions ==
    /\ check.pc = "sessions"
    /\ check' = [check EXCEPT !.pc = "parts", !.silent = SilentItems(sessions),
                              !.files = {r.file : r \in {x \in sessions : ~x.silent}}]
    /\ UNCHANGED <<library, sessions, config, client>>

\* partsFor: the cached file of a silent session's item, or the one Plex names now.
LookUpItem ==
    /\ check.pc = "parts"
    /\ \E i \in check.silent :
          LET cached == client.parts[i] # NoFile
              file == IF cached THEN client.parts[i] ELSE library[i]
          IN /\ check' = [check EXCEPT !.silent = @ \ {i}, !.files = @ \union {file},
                   !.stale = IF file # library[i] THEN @ \union {i} ELSE @]
             /\ client' = [client EXCEPT !.parts[i] = file]
    /\ UNCHANGED <<library, sessions, config>>

Compare ==
    /\ check.pc = "parts" /\ check.silent = {}
    /\ GuardAnswers(\E f \in check.files : Normalise(ToLocal(check.mappings, f)) = check.path,
                    "asked")
    /\ UNCHANGED <<library, sessions, config, client>>

\* A read of the store or a call to Plex fails: the guard has no answer.
GuardFails ==
    /\ check.pc \in {"resolve", "sessions", "parts"}
    /\ check' = NoCheck
    /\ UNCHANGED <<library, sessions, config, client>>

\* The promotion has its answer.
GuardReturns ==
    /\ check.pc = "answered"
    /\ check' = NoCheck
    /\ UNCHANGED <<library, sessions, config, client>>

GuardNext ==
    \/ StartPlaying \/ StopPlaying \/ MoveItem \/ Configure \/ ExpirePart
    \/ \E p \in LocalNames : AskGuard(p)
    \/ Resolve \/ ListSessions \/ LookUpItem \/ Compare \/ GuardFails \/ GuardReturns

GuardSpec == GuardInit /\ [][GuardNext]_guardVars

-----------------------------------------------------------------------------

\* The mappings the check used do not say where Codarr sees the file.
Misnamed(f) == Normalise(ToLocal(check.mappings, f)) # LocalName[f]

(* When the guard has asked Plex and says that nobody is watching a file,    *)
(* nobody has been watching it for the whole of the check, whatever else     *)
(* people started, stopped or moved meanwhile and whether the session named  *)
(* its file or not - but for a mapping that names the file wrongly, and for  *)
(* a file that was renamed while the part cache still had its old name.      *)
GuardSeesReaders ==
    check.pc = "answered" /\ check.why = "asked" /\ ~check.streaming =>
       \A r \in check.watched :
          Misnamed(r.file) \/ (r.silent /\ r.item \in check.stale)
=============================================================================
