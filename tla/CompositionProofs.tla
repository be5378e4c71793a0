------------------------ MODULE CompositionProofs ------------------------
(***************************************************************************)
(* The parts of the service together.  A behaviour of the service is one   *)
(* of every part, which the others leave alone: what has been proved of a  *)
(* part's own specification is so of the service, and with the types of    *)
(* the parts' states the type of the whole.                                *)
(***************************************************************************)
EXTENDS Service, ServiceProofs, RemoteProofs

-----------------------------------------------------------------------------
(* The parts. *)

LEMMA SettingsGoOn == Spec => SettingsSpec
  <1>1. Init => SettingsInit
    BY DEF Init
  <1>2. [Next]_vars => [SettingsNext]_settingsVars
    BY DEF Next, vars, settingsVars
  <1> QED
    BY <1>1, <1>2, PTL DEF Spec, SettingsSpec

LEMMA SchedulerGoesOn == Spec => SchedulerSpec
  <1>1. Init => SchedulerInit
    BY DEF Init
  <1>2. [Next]_vars => [SchedulerNext]_schedulerVars
    BY DEF Next, vars, schedulerVars
  <1> QED
    BY <1>1, <1>2, PTL DEF Spec, SchedulerSpec

LEMMA SignInGoesOn == Spec => SignInSpec
  <1>1. Init => SignInInit
    BY DEF Init
  <1>2. [Next]_vars => [SignInNext]_signInVars
    BY DEF Next, vars, signInVars
  <1> QED
    BY <1>1, <1>2, PTL DEF Spec, SignInSpec

LEMMA GuardGoesOn == Spec => GuardSpec
  <1>1. Init => GuardInit
    BY DEF Init
  <1>2. [Next]_vars => [GuardNext]_guardVars
    BY DEF Next, vars, guardVars
  <1> QED
    BY <1>1, <1>2, PTL DEF Spec, GuardSpec

LEMMA NotifyGoesOn == Spec => NotifySpec
  <1>1. Init => NotifyInit
    BY DEF Init
  <1>2. [Next]_vars => [NotifyNext]_notifyVars
    BY DEF Next, vars, notifyVars
  <1> QED
    BY <1>1, <1>2, PTL DEF Spec, NotifySpec

LEMMA BulkGoesOn == Spec => BulkSpec
  <1>1. Init => BulkInit
    BY DEF Init
  <1>2. [Next]_vars => [BulkNext]_bulkVars
    BY DEF Next, vars, bulkVars
  <1> QED
    BY <1>1, <1>2, PTL DEF Spec, BulkSpec

LEMMA SamplingGoesOn == Spec => SamplingSpec
  <1>1. Init => SamplingInit
    BY DEF Init
  <1>2. [Next]_vars => [SamplingNext]_samplingVars
    BY DEF Next, vars, samplingVars
  <1> QED
    BY <1>1, <1>2, PTL DEF Spec, SamplingSpec

LEMMA ProgressGoesOn == Spec => ProgressSpec
  <1>1. Init => ProgressInit
    BY DEF Init
  <1>2. [Next]_vars => [ProgressNext]_progressVars
    BY DEF Next, vars, progressVars
  <1> QED
    BY <1>1, <1>2, PTL DEF Spec, ProgressSpec

LEMMA WebhooksGoOn == Spec => WebhooksSpec
  <1>1. Init => WebhooksInit
    BY DEF Init
  <1>2. [Next]_vars => [WebhooksNext]_webhooksVars
    BY DEF Next, vars, webhooksVars
  <1> QED
    BY <1>1, <1>2, PTL DEF Spec, WebhooksSpec

\* The service is its parts together: each of its behaviours is a behaviour of every
\* part's own specification (cmd/codarr/main.go starts them side by side): whatever the
\* settings, clients, files and instances are.
THEOREM PartsGoOn ==
    Spec => /\ SettingsSpec /\ SchedulerSpec /\ SignInSpec
            /\ GuardSpec /\ NotifySpec /\ BulkSpec
            /\ SamplingSpec /\ ProgressSpec /\ WebhooksSpec
  BY SettingsGoOn, SchedulerGoesOn, SignInGoesOn, GuardGoesOn, NotifyGoesOn, BulkGoesOn,
     SamplingGoesOn, ProgressGoesOn, WebhooksGoOn

\* What each part promises, the service keeps.
THEOREM PartsKeepTheirWord ==
    Spec => /\ []PauseStopsTheQueue /\ ScansOnSchedule /\ []TokenKept
            /\ []GuardSeesReaders /\ []OwnerIsTold /\ []EveryFileExamined
            /\ []RateIsOfWholeSamples /\ []NothingIsLost /\ []EventReachesItsFiles
  BY PartsGoOn, PauseHolds, FiresOnSchedule, SignInKept, GuardHolds, OwnerHears, AllExamined,
     MeasuresItself, NothingLost, EventReaches

-----------------------------------------------------------------------------
(* The schedule. *)

LEMMA UnreadIsRead == ASSUME SchedulerTypeOK PROVE Unread \in ScanSettings
  <1>1. Crons # {}
    BY DEF SchedulerTypeOK, ScanSettings
  <1> QED
    BY <1>1 DEF Unread, ScanSettings

\* A turn sleeps towards a later minute.
LEMMA TurnTyped == ASSUME SchedulerTypeOK, Turn PROVE SchedulerTypeOK'
  <1>1. /\ now \in 0 .. Horizon /\ now \in Nat /\ MinuteTicks \in Nat \ {0}
        /\ scanSettings \in ScanSettings
    BY SchedulerAssumption DEF SchedulerTypeOK
  <1>2. PICK t \in Nat : t = MinuteNow /\ now < (t + 1) * MinuteTicks
    BY <1>1, Divides, NextMinute DEF MinuteNow
  <1>3. PICK x : x = IF scanSettings.enabled /\ Readable(scanSettings.cron)
                     THEN NextMatch(ParseCron(scanSettings.cron), t) ELSE NoTime
    OBVIOUS
  <1>4. x # NoTime => x \in Nat /\ x > t
    BY <1>3, NextIsFound
  <1>5. /\ UNCHANGED <<now, scanSettings>>
        /\ \/ Sleep(MinuteTicks, FALSE, scanSettings)
           \/ x # NoTime /\ Sleep(x * MinuteTicks - now, TRUE, scanSettings)
    BY <1>2, <1>3 DEF Turn, RecheckInterval
  <1>6. ASSUME NEW wait \in Int, now + wait \in Nat, NEW fire \in BOOLEAN,
               Sleep(wait, fire, scanSettings)
        PROVE  SchedulerTypeOK'
    BY <1>1, <1>5, <1>6 DEF Sleep, SchedulerTypeOK, ScanSettings
  <1>7. CASE Sleep(MinuteTicks, FALSE, scanSettings)
    <2>1. MinuteTicks \in Int /\ now + MinuteTicks \in Nat
      BY ONLY <1>1
    <2> QED
      BY <1>6, <1>7, <2>1
  <1>8. CASE x # NoTime /\ Sleep(x * MinuteTicks - now, TRUE, scanSettings)
    <2>1. x * MinuteTicks \in Nat
      BY <1>1, <1>4, <1>8
    <2>2. now + (x * MinuteTicks - now) \in Nat /\ x * MinuteTicks - now \in Int
      BY ONLY <1>1, <2>1
    <2> QED
      BY <1>6, <1>8, <2>2
  <1> QED
    BY <1>5, <1>7, <1>8

LEMMA SchedulerTyped == SchedulerSpec => []SchedulerTypeOK
  <1>1. SchedulerInit => SchedulerTypeOK
    <2> SUFFICES ASSUME SchedulerInit PROVE SchedulerTypeOK
      OBVIOUS
    <2>1. Crons # {}
      BY DEF SchedulerInit, ScanSettings
    <2> QED
      BY <2>1, SchedulerAssumption DEF SchedulerInit, SchedulerTypeOK, Unread, ScanSettings
  <1>2. SchedulerTypeOK /\ TimeInv /\ [SchedulerNext]_schedulerVars => SchedulerTypeOK'
    <2> SUFFICES ASSUME SchedulerTypeOK, TimeInv, [SchedulerNext]_schedulerVars
                 PROVE  SchedulerTypeOK'
      OBVIOUS
    <2>1. CASE Turn
      BY <2>1, TurnTyped
    <2>2. CASE SettingsUnread
      BY <2>2, UnreadIsRead, SchedulerAssumption
         DEF SettingsUnread, Sleep, RecheckInterval, SchedulerTypeOK, ScanSettings
    <2>3. CASE Wake
      BY <2>3 DEF Wake, SchedulerTypeOK, TimeInv, LoopSleeps, ScanSettings
    <2>4. CASE ScanEnds
      BY <2>4 DEF ScanEnds, SchedulerTypeOK, TimeInv, LoopSleeps, ScanSettings
    <2>5. CASE RestartLoop
      BY <2>5, UnreadIsRead DEF RestartLoop, SchedulerTypeOK, ScanSettings
    <2>6. CASE ChangeScanSettings
      BY <2>6 DEF ChangeScanSettings, SchedulerTypeOK, ScanSettings
    <2>7. CASE Tick
      BY <2>7, SchedulerAssumption DEF Tick, SchedulerTypeOK, ScanSettings
    <2>8. CASE UNCHANGED schedulerVars
      BY <2>8 DEF schedulerVars, SchedulerTypeOK, ScanSettings
    <2> QED
      BY <2>1, <2>2, <2>3, <2>4, <2>5, <2>6, <2>7, <2>8 DEF SchedulerNext
  <1> QED
    BY <1>1, <1>2, TimeInvHolds, PTL DEF SchedulerSpec

-----------------------------------------------------------------------------
(* The active-stream guard. *)

\* The client is a record, and there is one when items are looked up.
ClientThere ==
    /\ client # NoClient => client \in [mappings : MappingLists, parts : Parts]
    /\ check.pc = "parts" \/ check.pc = "sessions" => client # NoClient
GuardTyped == GuardTypeOK /\ ClientThere

LEMMA GuardTypedAtFirst == GuardInit => GuardTyped
  BY GuardAssumption
     DEF GuardInit, GuardTyped, GuardTypeOK, ClientThere, Session, Config, NoCheck

LEMMA OutsideTyped ==
    ASSUME GuardTyped, GuardInv,
           StartPlaying \/ StopPlaying \/ MoveItem \/ Configure \/ ExpirePart
    PROVE  GuardTyped'
  <1>1. StillWatched => check'.pc = check.pc
    BY DEF StillWatched, GuardInv, CheckShaped, IsCheck, NoCheck
  <1>2. CASE StartPlaying
    BY <1>2 DEF StartPlaying, GuardTyped, GuardTypeOK, ClientThere, Libraries
  <1>3. CASE StopPlaying
    BY <1>1, <1>3 DEF StopPlaying, GuardTyped, GuardTypeOK, ClientThere, Libraries
  <1>4. CASE MoveItem
    BY <1>1, <1>4 DEF MoveItem, GuardTyped, GuardTypeOK, ClientThere, Libraries
  <1>5. CASE Configure
    BY <1>5 DEF Configure, GuardTyped, GuardTypeOK, ClientThere, Libraries
  <1>6. CASE ExpirePart
    <2>1. PICK i \in Item : client' = [client EXCEPT !.parts[i] = NoFile]
      BY <1>6 DEF ExpirePart
    <2>2. client \in [mappings : MappingLists, parts : Parts]
      BY <1>6 DEF ExpirePart, GuardTyped, ClientThere
    <2>3. client' \in [mappings : MappingLists, parts : Parts]
      BY <2>1, <2>2 DEF Parts
    <2>4. client' # NoClient
      BY <2>3, GuardAssumption
    <2> QED
      BY <1>6, <2>3, <2>4 DEF ExpirePart, GuardTyped, GuardTypeOK, ClientThere, Libraries
  <1> QED
    BY <1>2, <1>3, <1>4, <1>5, <1>6

LEMMA CheckTyped ==
    ASSUME GuardTyped, GuardInv,
           \/ \E p \in LocalNames : AskGuard(p)
           \/ Resolve \/ ListSessions \/ Compare \/ GuardFails \/ GuardReturns
    PROVE  GuardTyped'
  <1>1. CASE \E p \in LocalNames : AskGuard(p)
    <2>1. PICK p : AskGuard(p)
      BY <1>1
    <2>2. check'.pc \in {"resolve", "answered"} /\ UNCHANGED <<library, sessions, config, client>>
      BY <2>1 DEF AskGuard
    <2> QED
      BY <2>2 DEF GuardTyped, GuardTypeOK, ClientThere, Libraries
  <1>2. CASE Resolve
    <2>1. check' \in {[check EXCEPT !.pc = "answered", !.streaming = FALSE, !.why = "unconfigured"],
                      [check EXCEPT !.pc = "sessions", !.mappings = config.mappings]}
      BY <1>2 DEF Resolve, GuardAnswers
    <2>2. check'.pc \in {"answered", "sessions"}
      BY <1>2, <2>1 DEF Resolve, GuardInv, CheckShaped, IsCheck, NoCheck
    <2>3. [mappings |-> config.mappings, parts |-> [i \in Item |-> NoFile]]
             \in [mappings : MappingLists, parts : Parts]
      BY DEF GuardTyped, GuardTypeOK, Config, Parts
    <2>4. /\ client' # NoClient => client' \in [mappings : MappingLists, parts : Parts]
          /\ check'.pc = "sessions" => client' # NoClient
      <3>1. CASE ~config.configured
        BY <1>2, <2>1, <3>1
           DEF Resolve, GuardAnswers, GuardInv, CheckShaped, IsCheck, NoCheck, GuardTyped, ClientThere
      <3>2. CASE config.configured
        BY <1>2, <2>3, <3>2, GuardAssumption DEF Resolve, GuardTyped, ClientThere
      <3> QED
        BY <3>1, <3>2
    <2> QED
      BY <1>2, <2>2, <2>4 DEF Resolve, GuardTyped, GuardTypeOK, ClientThere, Libraries
  <1>3. CASE ListSessions
    <2>1. check'.pc = "parts"
      BY <1>3 DEF ListSessions, GuardInv, CheckShaped, IsCheck, NoCheck
    <2> QED
      BY <1>3, <2>1 DEF ListSessions, GuardTyped, GuardTypeOK, ClientThere, Libraries
  <1>4. CASE Compare
    <2>1. check'.pc = "answered"
      BY <1>4 DEF Compare, GuardAnswers, GuardInv, CheckShaped, IsCheck, NoCheck
    <2> QED
      BY <1>4, <2>1 DEF Compare, GuardTyped, GuardTypeOK, ClientThere, Libraries
  <1>5. CASE GuardFails \/ GuardReturns
    BY <1>5 DEF GuardFails, GuardReturns, NoCheck, GuardTyped, GuardTypeOK, ClientThere, Libraries
  <1> QED
    BY <1>1, <1>2, <1>3, <1>4, <1>5

LEMMA LookUpTyped == ASSUME GuardTyped, GuardInv, LookUpItem PROVE GuardTyped'
  <1>1. PICK i, file :
           /\ file = IF client.parts[i] # NoFile THEN client.parts[i] ELSE library[i]
           /\ client' = [client EXCEPT !.parts[i] = file]
           /\ check'.pc = "parts" /\ UNCHANGED <<library, sessions, config>>
    BY DEF LookUpItem, GuardInv, CheckShaped, IsCheck, NoCheck
  <1>2. client \in [mappings : MappingLists, parts : Parts]
    BY DEF LookUpItem, GuardTyped, ClientThere
  <1>3. client' \in [mappings : MappingLists, parts : Parts]
    <2>1. i \in Item => file \in PlexFiles \union {NoFile}
      BY <1>1, <1>2 DEF GuardTyped, GuardTypeOK, Libraries, Parts
    <2> QED
      BY <1>1, <1>2, <2>1 DEF Parts
  <1>4. client' # NoClient
    BY <1>3, GuardAssumption
  <1> QED
    BY <1>1, <1>3, <1>4 DEF GuardTyped, GuardTypeOK, ClientThere, Libraries

LEMMA GuardAlwaysTyped == GuardSpec => []GuardTypeOK
  <1>1. GuardTyped /\ GuardInv /\ [GuardNext]_guardVars => GuardTyped'
    <2>1. GuardTyped /\ UNCHANGED guardVars => GuardTyped'
      BY DEF guardVars, GuardTyped, GuardTypeOK, ClientThere, Libraries
    <2> QED
      BY <2>1, OutsideTyped, CheckTyped, LookUpTyped DEF GuardNext
  <1>2. GuardTyped => GuardTypeOK
    BY DEF GuardTyped
  <1> QED
    BY <1>1, <1>2, GuardTypedAtFirst, GuardInitial, GuardStep, PTL DEF GuardSpec

-----------------------------------------------------------------------------
(* The notifications. *)

NotePc == {"none"} \union PlexPc \union ArrPc

LEMMA EditTyped ==
    ASSUME NotifyTypeOK, NotifyInv, Disturb PROVE note'.pc \in NotePc
  BY DEF Disturb, NotifyInv, NoteInv, NoteShaped, IsPlexNote, IsArrNote, NoNote, NotePc, PlexPc, ArrPc

LEMMA OperatorTyped ==
    ASSUME NotifyTypeOK, NotifyInv,
           \/ \E i \in Instance : SaveInstance(i) \/ DeleteInstance(i) \/ WebhookNamesItem(i)
           \/ \E p \in RootPath : CreateRoot(p) \/ DeleteRoot(p)
           \/ \E i \in Instance, reported \in Reported : ImportArrRoots(i, reported)
    PROVE  NotifyTypeOK'
  <1>1. Edit => edits' \in 0 .. MaxEdits /\ note'.pc \in NotePc
    BY EditTyped, NotifyAssumption DEF Edit, NotifyTypeOK
  <1>2. roots' \in [RootPath -> RootRow \union {NoRootRow}]
    BY OperatorKeeps DEF NotifyInv, RootsTyped
  <1>3. ASSUME NEW i \in Instance, SaveInstance(i) \/ DeleteInstance(i) PROVE NotifyTypeOK'
    BY <1>1, <1>2, <1>3 DEF SaveInstance, DeleteInstance, NotifyTypeOK, NotePc, PlexPc, ArrPc
  <1>4. ASSUME NEW i \in Instance, WebhookNamesItem(i) PROVE NotifyTypeOK'
    BY <1>2, <1>4, EditTyped DEF WebhookNamesItem, NotifyTypeOK, NotePc, PlexPc, ArrPc
  <1>5. ASSUME NEW p \in RootPath, CreateRoot(p) \/ DeleteRoot(p) PROVE NotifyTypeOK'
    BY <1>1, <1>2, <1>5 DEF CreateRoot, DeleteRoot, NotifyTypeOK, NotePc, PlexPc, ArrPc
  <1>6. ASSUME NEW i \in Instance, NEW reported \in Reported, ImportArrRoots(i, reported)
        PROVE  NotifyTypeOK'
    BY <1>1, <1>2, <1>6 DEF ImportArrRoots, NotifyTypeOK, NotePc, PlexPc, ArrPc
  <1> QED
    BY <1>3, <1>4, <1>5, <1>6

LEMMA NotifyTyped == NotifySpec => []NotifyTypeOK
  <1>1. NotifyInit => NotifyTypeOK
    BY NotifyAssumption DEF NotifyInit, NotifyTypeOK, NoNote
  <1>2. ASSUME NotifyTypeOK, NotifyInv, NotifyInv', [NotifyNext]_notifyVars
        PROVE  NotifyTypeOK'
    <2>1. note'.pc \in NotePc
      BY <1>2 DEF NotifyInv, NoteInv, NoteShaped, NoNote, NotePc
    <2>2. ASSUME UNCHANGED <<instances, roots, reportedBy, edits>> PROVE NotifyTypeOK'
      BY <1>2, <2>1, <2>2 DEF NotifyTypeOK, NotePc, PlexPc, ArrPc
    <2>3. CASE \/ NotifyPromoted \/ PlexScans \/ ResolveTarget \/ LookUpBefore \/ RefreshDir
               \/ LookUpAgain \/ AnalyzeItem
      BY <2>2, <2>3 DEF NotifyPromoted, PlexScans, ResolveTarget, LookUpBefore, RefreshDir,
         LookUpAgain, AnalyzeItem, PlexDone, Notice
    <2>4. CASE \/ ReadRoots \/ LoadInstance \/ LoadItem \/ ReadFails \/ Rescan \/ Unmonitor
               \/ NotifyReturns
      BY <2>2, <2>4 DEF ReadRoots, LoadInstance, LoadItem, ReadFails, Rescan, Unmonitor,
         NotifyReturns, Notice
    <2>5. CASE UNCHANGED notifyVars
      BY <2>2, <2>5 DEF notifyVars
    <2> QED
      BY <1>2, <2>3, <2>4, <2>5, OperatorTyped DEF NotifyNext
  <1> QED
    BY <1>1, <1>2, NotifyInitial, NotifyStep, PTL DEF NotifySpec

-----------------------------------------------------------------------------
(* The bulk operations. *)

\* The files an operation has to do with are files.
BulkOfMedia ==
    bulk # NoBulk =>
        /\ bulk.op \in {"recheck", "sweep"} /\ bulk.confirm \in BOOLEAN
        /\ bulk.todo \subseteq Media /\ bulk.examined \subseteq Media
        /\ bulk.inserted \subseteq Media /\ bulk.steady \subseteq Media
BulkPcs == {"none", "count", "page", "examine", "consider", "done"}
BulkTyped ==
    /\ listed \subseteq Media /\ active \subseteq Media /\ changes \in 0 .. MaxChanges
    /\ bulk.pc \in BulkPcs /\ BulkOfMedia

LEMMA BulkBegins ==
    ASSUME BulkTyped, SelectByFilter \/ SelectByIds PROVE BulkTyped'
  <1>1. PICK op \in {"recheck", "sweep"}, confirm \in BOOLEAN, ids \in Selections \union {{}} :
           \/ bulk' = Begin(op, confirm)
           \/ bulk' = [Begin(op, confirm) EXCEPT !.pc = "examine", !.todo = ids, !.steady = ids]
    BY DEF SelectByFilter, SelectByIds
  <1>2. ids \subseteq Media /\ listed \subseteq Media
    BY BulkAssumption DEF BulkTyped
  <1>3. UNCHANGED <<listed, active, changes>>
    BY DEF SelectByFilter, SelectByIds, KeepLibrary
  <1>4. CASE bulk' = Begin(op, confirm)
    BY <1>2, <1>3, <1>4 DEF Begin, BulkTyped, BulkOfMedia, BulkPcs
  <1>5. CASE bulk' = [Begin(op, confirm) EXCEPT !.pc = "examine", !.todo = ids, !.steady = ids]
    BY <1>2, <1>3, <1>5 DEF Begin, BulkTyped, BulkOfMedia, BulkPcs
  <1> QED
    BY <1>1, <1>4, <1>5

LEMMA FilesTyped ==
    ASSUME BulkTyped, BulkInv, NEW f \in Media,
           Reanalyse(f) \/ ConsiderRecheck(f) \/ Evaluate(f)
    PROVE  BulkTyped'
  <1>1. bulk # NoBulk /\ IsBulk(bulk)
    BY DEF Reanalyse, ConsiderRecheck, Evaluate, NoBulk, BulkInv, BulkShaped
  <1>2. /\ UNCHANGED <<listed, changes>>
        /\ active' = active \/ active' = active \union {f}
    BY DEF Reanalyse, ConsiderRecheck, Evaluate, Insert
  <1>3. ASSUME NEW b, b = [bulk EXCEPT !.pc = b.pc, !.at = b.at, !.todo = b.todo,
                                       !.examined = b.examined, !.inserted = b.inserted],
               b.pc \in BulkPcs, b.todo \subseteq Media, b.examined \subseteq Media,
               b.inserted \subseteq Media, bulk' = b
        PROVE  BulkTyped'
    <2>1. b.op = bulk.op /\ b.confirm = bulk.confirm /\ b.steady = bulk.steady
      BY <1>1, <1>3 DEF IsBulk
    <2> QED
      BY <1>1, <1>2, <1>3, <2>1 DEF BulkTyped, BulkOfMedia
  <1>4. ASSUME NEW next, Insert(f, next) \/ bulk' = next,
               next = [bulk EXCEPT !.pc = next.pc, !.at = next.at, !.todo = next.todo,
                                   !.examined = next.examined],
               next.pc \in BulkPcs, next.todo \subseteq Media, next.examined \subseteq Media
        PROVE  BulkTyped'
    <2>1. bulk' = next \/ bulk' = [next EXCEPT !.inserted = @ \union {f}]
      BY <1>4 DEF Insert
    <2>2. next.inserted = bulk.inserted /\ bulk.inserted \subseteq Media
      BY <1>1, <1>4 DEF IsBulk, BulkTyped, BulkOfMedia
    <2>3. CASE bulk' = next
      BY <1>1, <1>3, <1>4, <2>2, <2>3 DEF IsBulk
    <2>4. CASE bulk' = [next EXCEPT !.inserted = @ \union {f}]
      <3> DEFINE b == [next EXCEPT !.inserted = @ \union {f}]
      <3>1. /\ b.pc = next.pc /\ b.todo = next.todo /\ b.examined = next.examined
            /\ b.inserted = bulk.inserted \union {f}
            /\ b = [bulk EXCEPT !.pc = b.pc, !.at = b.at, !.todo = b.todo,
                                !.examined = b.examined, !.inserted = b.inserted]
        BY <1>1, <1>4, <2>2 DEF IsBulk
      <3> HIDE DEF b
      <3> QED
        BY <1>3, <1>4, <2>2, <2>4, <3>1 DEF b
    <2> QED
      BY <2>1, <2>3, <2>4
  <1>5. \A pc \in BulkPcs :
           LET d == Done(f, pc) IN
           /\ d = [bulk EXCEPT !.pc = d.pc, !.at = d.at, !.todo = d.todo, !.examined = d.examined]
           /\ d.pc \in BulkPcs /\ d.todo \subseteq Media /\ d.examined \subseteq Media
    BY <1>1 DEF Done, IsBulk, BulkTyped, BulkOfMedia
  <1>6. CASE Reanalyse(f) \/ Evaluate(f)
    <2>1. PICK pc \in BulkPcs : Insert(f, Done(f, pc)) \/ bulk' = Done(f, pc)
      BY <1>6 DEF Reanalyse, Evaluate, BulkPcs
    <2> QED
      BY <1>4, <1>5, <2>1
  <1>7. CASE ConsiderRecheck(f)
    <2> DEFINE d == [bulk EXCEPT !.pc = "examine"]
    <2>1. /\ Insert(f, d) /\ d.pc \in BulkPcs /\ d.todo \subseteq Media /\ d.examined \subseteq Media
          /\ d = [bulk EXCEPT !.pc = d.pc, !.at = d.at, !.todo = d.todo, !.examined = d.examined]
      BY <1>1, <1>7 DEF ConsiderRecheck, IsBulk, BulkTyped, BulkOfMedia, BulkPcs
    <2> QED
      BY <1>4, <2>1
  <1> QED
    BY <1>6, <1>7

LEMMA ListingTyped ==
    ASSUME BulkTyped, BulkInv, CountFiles \/ SelectPage \/ EndBulk \/ BulkReturns
    PROVE  BulkTyped'
  <1>1. UNCHANGED <<listed, active, changes>>
    BY DEF CountFiles, SelectPage, EndBulk, BulkReturns, KeepLibrary
  <1>2. bulk # NoBulk /\ IsBulk(bulk)
    BY DEF CountFiles, SelectPage, EndBulk, BulkReturns, NoBulk, BulkInv, BulkShaped
  <1>3. CASE SelectPage
    <2>1. PICK page, pc, read :
             /\ page \subseteq Media /\ pc \in BulkPcs
             /\ bulk' = [bulk EXCEPT !.pc = pc, !.read = read, !.todo = @ \union page]
      BY <1>3 DEF SelectPage, PageFrom, BulkTyped, BulkPcs
    <2> QED
      BY <1>1, <1>2, <2>1 DEF IsBulk, BulkTyped, BulkOfMedia
  <1>4. CASE CountFiles
    BY <1>1, <1>2, <1>4 DEF CountFiles, IsBulk, BulkTyped, BulkOfMedia, BulkPcs
  <1>5. CASE EndBulk
    BY <1>1, <1>2, <1>5 DEF EndBulk, IsBulk, BulkTyped, BulkOfMedia, BulkPcs
  <1>6. CASE BulkReturns
    BY <1>1, <1>6 DEF BulkReturns, NoBulk, BulkTyped, BulkOfMedia, BulkPcs
  <1> QED
    BY <1>3, <1>4, <1>5, <1>6

LEMMA LibraryTyped ==
    ASSUME BulkTyped, BulkInv, NEW f \in Media, FileEnters(f) \/ FileLeaves(f) \/ JobEnds(f)
    PROVE  BulkTyped'
  <1>1. /\ listed' \subseteq Media /\ active' \subseteq Media /\ changes' \in 0 .. MaxChanges
    BY BulkAssumption DEF FileEnters, FileLeaves, JobEnds, BulkTyped
  <1>2. CASE FileEnters(f)
    BY <1>1, <1>2 DEF FileEnters, BulkTyped, BulkOfMedia, BulkInv, BulkShaped, IsBulk, NoBulk, BulkPcs
  <1>3. CASE FileLeaves(f)
    BY <1>1, <1>3 DEF FileLeaves, Listing, BulkTyped, BulkOfMedia, BulkInv, BulkShaped, IsBulk,
       NoBulk, BulkPcs
  <1>4. CASE JobEnds(f)
    BY <1>1, <1>4 DEF JobEnds, BulkTyped, BulkOfMedia
  <1> QED
    BY <1>2, <1>3, <1>4

LEMMA BulkAlwaysTyped == BulkSpec => []BulkTypeOK
  <1>1. BulkInit => BulkTyped
    BY BulkAssumption DEF BulkInit, BulkTyped, BulkOfMedia, NoBulk, BulkPcs
  <1>2. BulkTyped /\ BulkInv /\ [BulkNext]_bulkVars => BulkTyped'
    <2>1. BulkTyped /\ UNCHANGED bulkVars => BulkTyped'
      BY DEF bulkVars, BulkTyped, BulkOfMedia
    <2> QED
      BY <2>1, BulkBegins, ListingTyped, FilesTyped, LibraryTyped DEF BulkNext
  <1>3. BulkTyped /\ BulkInv => BulkTypeOK
    BY DEF BulkTyped, BulkInv, BulkShaped, BulkTypeOK, BulkOfMedia, BulkPcs
  <1> QED
    BY <1>1, <1>2, <1>3, BulkInitial, BulkStep, PTL DEF BulkSpec

-----------------------------------------------------------------------------
(* The *arrs' webhooks. *)

LEMMA PostTyped ==
    ASSUME WebhooksTypeOK, NEW s \in Sender, NEW type \in Types, NEW moved, Post(s, type, moved)
    PROVE  /\ \A e \in posted' : e.from \in Sender /\ e.type \in Types /\ e.shape \in Shapes
           /\ happened' \in 0 .. MaxEvents /\ UNCHANGED <<senders, request>>
  <1>1. PICK shape \in Shapes : posted' = posted \union {Payload(s, type, shape, moved)}
    BY DEF Post, Shapes
  <1>2. LET e == Payload(s, type, shape, moved)
        IN  e.from \in Sender /\ e.type \in Types /\ e.shape \in Shapes
    BY DEF Payload
  <1> QED
    BY <1>1, <1>2, WebhooksAssumption DEF Post, WebhooksTypeOK

LEMMA LibrariesTyped ==
    ASSUME WebhooksTypeOK, NEW s \in Sender,
           Imports(s) \/ Renames(s) \/ Deletes(s) \/ Chatters(s) \/ Reconfigures(s)
    PROVE  WebhooksTypeOK'
  <1>1. ASSUME NEW type \in Types, NEW moved, Post(s, type, moved), disk' \subseteq LocalFiles
        PROVE  WebhooksTypeOK'
    BY <1>1, PostTyped DEF WebhooksTypeOK
  <1>2. CASE Imports(s)
    <2>1. disk' \subseteq LocalFiles
      BY <1>2 DEF Imports, WebhooksTypeOK, LocalFiles
    <2> QED
      BY <1>1, <1>2, <2>1 DEF Imports, Types
  <1>3. CASE Renames(s)
    <2>1. PICK old \in SUBSET Has(s) \ {{}}, new \in SUBSET (Named \ Has(s)) :
             /\ disk' = (disk \ {LocalNameOf(s, n) : n \in old}) \union {LocalNameOf(s, n) : n \in new}
             /\ \E moved \in [new -> old] : Post(s, "Rename", moved)
      BY <1>3 DEF Renames
    <2>2. disk' \subseteq LocalFiles
      BY <2>1 DEF WebhooksTypeOK, LocalFiles
    <2> QED
      BY <1>1, <2>1, <2>2 DEF Types
  <1>4. CASE Deletes(s)
    <2>1. disk' \subseteq LocalFiles
      BY <1>4 DEF Deletes, WebhooksTypeOK
    <2> QED
      BY <1>1, <1>4, <2>1 DEF Deletes, Types
  <1>5. CASE Chatters(s)
    <2>1. disk' \subseteq LocalFiles
      BY <1>5 DEF Chatters, WebhooksTypeOK
    <2> QED
      BY <1>1, <1>5, <2>1 DEF Chatters, Types
  <1>6. CASE Reconfigures(s)
    <2>1. PICK enabled \in BOOLEAN, mappings \in MappingsOf[s] :
             senders' = [senders EXCEPT ![s] = [enabled |-> enabled, mappings |-> mappings]]
      BY <1>6 DEF Reconfigures
    <2>2. /\ DOMAIN senders' = Sender
          /\ \A z \in Sender :
                senders'[z].enabled \in BOOLEAN /\ senders'[z].mappings \in MappingsOf[z]
      BY <2>1 DEF WebhooksTypeOK
    <2> QED
      BY <1>6, <2>2, WebhooksAssumption DEF Reconfigures, WebhooksTypeOK
  <1> QED
    BY <1>2, <1>3, <1>4, <1>5, <1>6

LEMMA WebhooksTyped == WebhooksSpec => []WebhooksTypeOK
  <1>1. ASSUME WebhooksInit PROVE WebhooksTypeOK
    <2>1. PICK mappings : /\ \A s \in Sender : mappings[s] \in MappingsOf[s]
                          /\ senders = [s \in Sender |-> [enabled |-> TRUE, mappings |-> mappings[s]]]
      BY <1>1 DEF WebhooksInit
    <2>2. /\ DOMAIN senders = Sender
          /\ \A s \in Sender : senders[s].enabled \in BOOLEAN /\ senders[s].mappings \in MappingsOf[s]
      BY <2>1
    <2>3. /\ disk \subseteq LocalFiles /\ posted = {} /\ request.pc = "idle"
          /\ happened \in 0 .. MaxEvents
      BY <1>1, WebhooksAssumption DEF WebhooksInit, NoRequest
    <2> QED
      BY <2>2, <2>3 DEF WebhooksTypeOK
  <1>2. WebhooksTypeOK /\ [WebhooksNext]_webhooksVars => WebhooksTypeOK'
    <2> SUFFICES ASSUME WebhooksTypeOK, [WebhooksNext]_webhooksVars PROVE WebhooksTypeOK'
      OBVIOUS
    <2>1. CASE ReceiveArrWebhook
      BY <2>1 DEF ReceiveArrWebhook, KeepWorld, NoRequest, WebhooksTypeOK
    <2>2. CASE Handle \/ ResolveEvent \/ IngestEvent \/ RetireEvent \/ RequestFails
      BY <2>2 DEF Handle, ResolveEvent, IngestEvent, RetireEvent, RequestFails, KeepWorld,
         NoRequest, WebhooksTypeOK
    <2>3. CASE UNCHANGED webhooksVars
      BY <2>3 DEF webhooksVars, WebhooksTypeOK
    <2> QED
      BY <2>1, <2>2, <2>3, LibrariesTyped DEF WebhooksNext
  <1> QED
    BY <1>1, <1>2, PTL DEF WebhooksSpec

-----------------------------------------------------------------------------
(* The progress of an encode. *)

Values == Times \union {NotANumber}

\* ffmpeg is no further than its reports say, and the one it is writing; no line of its
\* reports says otherwise.
TimesBounded ==
    /\ ffmpeg.time + (IF ffmpeg.inBlock THEN 0 ELSE 1) <= ffmpeg.blocks + 1
    /\ ffmpeg.blocks + (IF ffmpeg.inBlock THEN 1 ELSE 0) <= MaxBlocks
    /\ ffmpeg.lines + (IF ffmpeg.inLine THEN 1 ELSE 0) <= MaxLines
    /\ \A i \in 1 .. Len(stdout) : stdout[i].value \in Values
ProgressTyped == ProgressTypeOK /\ TimesBounded

LEMMA PercentTyped == ASSUME NEW out \in Nat PROVE Percent(out) \in 0 .. 100
  <1>1. PICK total \in Nat : total = Total
    BY ProgressAssumption
  <1>2. CASE total # 0 /\ ~(out >= total)
    <2>1. PICK n \in Nat : n = out * 100 /\ n < 100 * total
      BY <1>2
    <2>2. n \div total \in 0 .. 100
      <3>1. PICK q \in Int, r \in 0 .. (total - 1) : n = total * q + r /\ q = n \div total
        BY <1>2, <2>1
      <3>2. q >= 0
        <4>1. ASSUME q <= -1 PROVE FALSE
          <5>1. total * q <= total * (-1)
            BY <4>1, <1>2
          <5> QED
            BY <3>1, <5>1, <1>2
        <4> QED
          BY <4>1
      <3>3. q < 100
        <4>1. ASSUME q >= 100 PROVE FALSE
          <5>1. total * q >= total * 100
            BY <4>1, <1>2
          <5> QED
            BY <3>1, <5>1, <2>1
        <4> QED
          BY <4>1
      <3> QED
        BY <3>1, <3>2, <3>3
    <2> QED
      BY <1>1, <1>2, <2>1, <2>2 DEF Percent
  <1> QED
    BY <1>1, <1>2 DEF Percent

LEMMA ProgressTypedAtFirst == ProgressInit => ProgressTyped
  BY ProgressAssumption
     DEF ProgressInit, ProgressTyped, ProgressTypeOK, TimesBounded, Times, Values

\* What is written on stdout has a value of these.
LEMMA LineAdded ==
    ASSUME ProgressTyped, ProgressInv, NEW key \in Key, NEW v \in Values,
           stdout' = Append(stdout, LineOf(key, v))
    PROVE  \A i \in 1 .. Len(stdout') : stdout'[i].value \in Values
  <1>1. stdout \in Seq(Line)
    BY DEF ProgressInv, ProgressShaped
  <1>2. /\ LineOf(key, v) \in Line /\ LineOf(key, v).value = v
    BY LineParts, ProgressAssumption DEF Values, Times
  <1>3. /\ Len(stdout') = Len(stdout) + 1
        /\ \A i \in 1 .. Len(stdout) : stdout'[i] = stdout[i]
        /\ stdout'[Len(stdout) + 1] = LineOf(key, v)
    BY <1>1, <1>2
  <1>4. Len(stdout) \in Nat
    BY <1>1
  <1> QED
    BY <1>2, <1>3, <1>4 DEF ProgressTyped, TimesBounded

\* A step of ffmpeg keeps its times, its reports and its lines within their bounds.
FFmpegIs(up, time, said, blocks, inBlock, lines, inLine) ==
    /\ up \in BOOLEAN /\ time \in Times /\ said \in Times /\ inBlock \in BOOLEAN
    /\ inLine \in BOOLEAN /\ blocks \in 0 .. MaxBlocks /\ lines \in 0 .. MaxLines
    /\ time <= blocks + (IF inBlock THEN 1 ELSE 0)
    /\ blocks + (IF inBlock THEN 1 ELSE 0) <= MaxBlocks
    /\ lines + (IF inLine THEN 1 ELSE 0) <= MaxLines

LEMMA FFmpegParts ==
    ASSUME ProgressTyped
    PROVE  /\ FFmpegIs(ffmpeg.up, ffmpeg.time, ffmpeg.said, ffmpeg.blocks, ffmpeg.inBlock,
                       ffmpeg.lines, ffmpeg.inLine)
           /\ ffmpeg = [up |-> ffmpeg.up, time |-> ffmpeg.time, said |-> ffmpeg.said,
                        blocks |-> ffmpeg.blocks, inBlock |-> ffmpeg.inBlock,
                        lines |-> ffmpeg.lines, inLine |-> ffmpeg.inLine]
  <1>1. /\ ffmpeg \in [up : BOOLEAN, time : Times, said : Times, blocks : 0..MaxBlocks,
                       inBlock : BOOLEAN, lines : 0..MaxLines, inLine : BOOLEAN]
        /\ TimesBounded /\ MaxBlocks \in Nat /\ MaxLines \in Nat
    BY ProgressAssumption DEF ProgressTyped, ProgressTypeOK
  <1> QED
    BY <1>1 DEF FFmpegIs, TimesBounded, Times

LEMMA FFmpegOfParts ==
    ASSUME ProgressTyped, NEW up, NEW time, NEW said, NEW blocks, NEW inBlock, NEW lines, NEW inLine,
           FFmpegIs(up, time, said, blocks, inBlock, lines, inLine),
           ffmpeg' = [up |-> up, time |-> time, said |-> said, blocks |-> blocks,
                      inBlock |-> inBlock, lines |-> lines, inLine |-> inLine],
           UNCHANGED <<parser, throttle, run, stored, ticks>>,
           \A i \in 1 .. Len(stdout') : stdout'[i].value \in Values
    PROVE  ProgressTyped'
  <1>1. ProgressTypeOK'
    <2>1. ffmpeg' \in [up : BOOLEAN, time : Times, said : Times, blocks : 0..MaxBlocks,
                       inBlock : BOOLEAN, lines : 0..MaxLines, inLine : BOOLEAN]
      BY DEF FFmpegIs
    <2> QED
      BY <2>1 DEF ProgressTyped, ProgressTypeOK, Times
  <1>2. TimesBounded'
    <2>1. /\ ffmpeg'.time = time /\ ffmpeg'.blocks = blocks /\ ffmpeg'.inBlock = inBlock
          /\ ffmpeg'.lines = lines /\ ffmpeg'.inLine = inLine
      OBVIOUS
    <2>2. time \in Nat /\ blocks \in Nat /\ lines \in Nat /\ inBlock \in BOOLEAN /\ inLine \in BOOLEAN
      BY ProgressAssumption DEF FFmpegIs, Times
    <2> QED
      BY <2>1, <2>2 DEF FFmpegIs, TimesBounded, Values, Times
  <1> QED
    BY <1>1, <1>2 DEF ProgressTyped

LEMMA WritesTyped ==
    ASSUME ProgressTyped, ProgressInv,
           WriteTime \/ WriteBlock \/ WriteText \/ WriteNewline \/ Exits
    PROVE  ProgressTyped'
  <1>1. UNCHANGED <<parser, throttle, run, stored, ticks>>
    BY DEF WriteTime, WriteBlock, WriteText, WriteNewline, Exits, KeepRunner
  <1>2. PICK up, time, said, blocks, inBlock, lines, inLine :
           /\ FFmpegIs(up, time, said, blocks, inBlock, lines, inLine)
           /\ ffmpeg = [up |-> up, time |-> time, said |-> said, blocks |-> blocks,
                        inBlock |-> inBlock, lines |-> lines, inLine |-> inLine]
    BY FFmpegParts
  <1>3. /\ time \in Nat /\ blocks \in Nat /\ lines \in Nat /\ MaxBlocks \in Nat /\ MaxLines \in Nat
        /\ Times = 0 .. MaxBlocks
    BY <1>2, ProgressAssumption DEF FFmpegIs, Times
  <1>4. UNCHANGED stdout => \A i \in 1 .. Len(stdout') : stdout'[i].value \in Values
    BY DEF ProgressTyped, TimesBounded
  <1>5. {"out_time_us", "progress", "out_t"} \subseteq Key /\ 0 \in Values /\ NotANumber \in Values
    BY ProgressAssumption DEF Key, Values, Times
  <1>6. CASE WriteTime
    <2>1. PICK v \in {time + 1, NotANumber} :
             /\ stdout' = Append(stdout, LineOf("out_time_us", v))
             /\ ffmpeg' = [ffmpeg EXCEPT !.inBlock = TRUE,
                                        !.time = IF v = NotANumber THEN time ELSE v]
      BY <1>2, <1>6 DEF WriteTime
    <2>2. ~inBlock /\ blocks < MaxBlocks
      BY <1>2, <1>6 DEF WriteTime
    <2>3. time + 1 \in Times /\ time + 1 <= blocks + 1
      BY <1>2, <1>3, <2>2 DEF FFmpegIs
    <2> DEFINE reached == IF v = NotANumber THEN time ELSE v
    <2>4. ffmpeg' = [up |-> up, time |-> reached, said |-> said, blocks |-> blocks,
                     inBlock |-> TRUE, lines |-> lines, inLine |-> inLine]
      <3>1. ffmpeg' = [ffmpeg EXCEPT !.inBlock = TRUE, !.time = reached]
        BY <2>1
      <3> HIDE DEF reached
      <3> QED
        BY <1>2, <3>1
    <2>5. FFmpegIs(up, reached, said, blocks, TRUE, lines, inLine)
      <3>1. reached \in Times /\ reached <= blocks + 1
        BY <1>2, <1>3, <2>1, <2>2, <2>3 DEF FFmpegIs
      <3> HIDE DEF reached
      <3> QED
        BY <1>2, <1>3, <2>2, <3>1 DEF FFmpegIs
    <2>6. \A i \in 1 .. Len(stdout') : stdout'[i].value \in Values
      <3>1. v \in Values /\ "out_time_us" \in Key
        BY <1>5, <2>1, <2>3 DEF Values
      <3> QED
        BY <2>1, <3>1, LineAdded
    <2> HIDE DEF reached
    <2> QED
      BY <1>1, <2>4, <2>5, <2>6, FFmpegOfParts
  <1>7. CASE WriteBlock
    <2>1. stdout' = Append(stdout, LineOf("progress", 0)) /\ inBlock
      BY <1>2, <1>7 DEF WriteBlock
    <2>2. ffmpeg' = [up |-> up, time |-> time, said |-> time, blocks |-> blocks + 1,
                     inBlock |-> FALSE, lines |-> lines, inLine |-> inLine]
      <3>1. ffmpeg' = [ffmpeg EXCEPT !.inBlock = FALSE, !.said = time, !.blocks = blocks + 1]
        BY <1>2, <1>7 DEF WriteBlock
      <3> QED
        BY <1>2, <3>1
    <2>3. FFmpegIs(up, time, time, blocks + 1, FALSE, lines, inLine)
      BY <1>2, <1>3, <2>1 DEF FFmpegIs
    <2>4. \A i \in 1 .. Len(stdout') : stdout'[i].value \in Values
      BY <1>5, <2>1, LineAdded
    <2> QED
      BY <1>1, <2>2, <2>3, <2>4, FFmpegOfParts
  <1>8. CASE WriteText
    <2>1. ~inLine /\ lines < MaxLines /\ UNCHANGED stdout
      BY <1>2, <1>8 DEF WriteText
    <2>2. ffmpeg' = [up |-> up, time |-> time, said |-> said, blocks |-> blocks,
                     inBlock |-> inBlock, lines |-> lines, inLine |-> TRUE]
      <3>1. ffmpeg' = [ffmpeg EXCEPT !.inLine = TRUE]
        BY <1>8 DEF WriteText
      <3> QED
        BY <1>2, <3>1
    <2>3. FFmpegIs(up, time, said, blocks, inBlock, lines, TRUE)
      BY <1>2, <1>3, <2>1 DEF FFmpegIs
    <2> QED
      BY <1>1, <1>4, <2>1, <2>2, <2>3, FFmpegOfParts
  <1>9. CASE WriteNewline
    <2>1. inLine /\ UNCHANGED stdout
      BY <1>2, <1>9 DEF WriteNewline
    <2>2. ffmpeg' = [up |-> up, time |-> time, said |-> said, blocks |-> blocks,
                     inBlock |-> inBlock, lines |-> lines + 1, inLine |-> FALSE]
      <3>1. ffmpeg' = [ffmpeg EXCEPT !.inLine = FALSE, !.lines = lines + 1]
        BY <1>2, <1>9 DEF WriteNewline
      <3> QED
        BY <1>2, <3>1
    <2>3. FFmpegIs(up, time, said, blocks, inBlock, lines + 1, FALSE)
      BY <1>2, <1>3, <2>1 DEF FFmpegIs
    <2> QED
      BY <1>1, <1>4, <2>1, <2>2, <2>3, FFmpegOfParts
  <1>10. CASE Exits
    <2>1. ffmpeg' = [up |-> FALSE, time |-> time, said |-> said, blocks |-> blocks,
                     inBlock |-> inBlock, lines |-> lines, inLine |-> inLine]
      <3>1. ffmpeg' = [ffmpeg EXCEPT !.up = FALSE]
        BY <1>10 DEF Exits
      <3> QED
        BY <1>2, <3>1
    <2>2. FFmpegIs(FALSE, time, said, blocks, inBlock, lines, inLine)
      BY <1>2 DEF FFmpegIs
    <2>3. PICK key \in Key, v \in Values :
             UNCHANGED stdout \/ stdout' = Append(stdout, LineOf(key, v))
      BY <1>5, <1>10 DEF Exits
    <2>4. \A i \in 1 .. Len(stdout') : stdout'[i].value \in Values
      BY <1>4, <2>3, LineAdded
    <2> QED
      BY <1>1, <2>1, <2>2, <2>4, FFmpegOfParts
  <1> QED
    BY <1>6, <1>7, <1>8, <1>9, <1>10

LEMMA StoreTyped ==
    ASSUME ProgressTyped, NEW out \in Times, Store(out)
    PROVE  stored' \in [pct : 0..100, failed : BOOLEAN, hasty : BOOLEAN]
  <1>1. Percent(out) \in 0 .. 100 /\ stored \in [pct : 0..100, failed : BOOLEAN, hasty : BOOLEAN]
    BY PercentTyped, ProgressAssumption DEF Times, ProgressTyped, ProgressTypeOK
  <1> DEFINE hasty == stored.hasty \/ /\ throttle.last # Never
                                      /\ ticks - throttle.last < Interval
                                      /\ run.at = "parsing"
  <1>2. PICK failed \in BOOLEAN :
           stored' = [pct |-> IF failed THEN stored.pct ELSE Percent(out), failed |-> failed,
                      hasty |-> hasty]
    BY DEF Store
  <1>3. hasty \in BOOLEAN
    BY <1>1
  <1> HIDE DEF hasty
  <1> QED
    BY <1>1, <1>2, <1>3

LEMMA ReadsTyped ==
    ASSUME ProgressTyped, ProgressInv, ParseLine \/ ParseEnds \/ CopyStderr \/ WaitEnds \/ Flush
    PROVE  ProgressTyped'
  <1>1. /\ UNCHANGED <<ffmpeg, ticks>> /\ stdout \in Seq(Line)
    BY DEF ParseLine, ParseEnds, CopyStderr, WaitEnds, Flush, KeepFFmpeg, ProgressInv, ProgressShaped
  <1>2. \A i \in 1 .. Len(stdout) : stdout[i].value \in Values
    BY DEF ProgressTyped, TimesBounded
  <1>3. /\ parser \in [current : Times, last : Times]
        /\ throttle \in [latest : Times, pending : BOOLEAN, last : (0..MaxTicks) \union {Never}]
        /\ run.at \in {"parsing", "waiting", "flush", "over"} /\ run.finalOut \in Times
        /\ stored \in [pct : 0..100, failed : BOOLEAN, hasty : BOOLEAN] /\ ticks \in 0..MaxTicks
        /\ run = [at |-> run.at, finalOut |-> run.finalOut, tail |-> run.tail]
    BY DEF ProgressTyped, ProgressTypeOK, ProgressInv, ProgressShaped
  <1>4. ASSUME parser' \in [current : Times, last : Times],
               throttle' \in [latest : Times, pending : BOOLEAN, last : (0..MaxTicks) \union {Never}],
               run'.at \in {"parsing", "waiting", "flush", "over"}, run'.finalOut \in Times,
               stored' \in [pct : 0..100, failed : BOOLEAN, hasty : BOOLEAN],
               \A i \in 1 .. Len(stdout') : stdout'[i].value \in Values
        PROVE  ProgressTyped'
    BY <1>1, <1>4 DEF ProgressTyped, ProgressTypeOK, TimesBounded, Times, Values
  <1>5. CASE ParseLine
    <2>1. stdout # <<>> /\ stdout' = Tail(stdout) /\ UNCHANGED run
      BY <1>5 DEF ParseLine
    <2>2. \A i \in 1 .. Len(stdout') : stdout'[i].value \in Values
      BY <1>1, <1>2, <2>1
    <2>3. Head(stdout).value \in Values
      BY <1>1, <1>2, <2>1
    <2>4. CASE parser' = [parser EXCEPT !.last = parser.current] /\ Update(parser.current)
      <3>1. parser.current \in Times
        BY <1>3
      <3>2. stored' \in [pct : 0..100, failed : BOOLEAN, hasty : BOOLEAN]
        BY <1>3, <2>4, <3>1, StoreTyped DEF Update
      <3>3. throttle' \in [latest : Times, pending : BOOLEAN, last : (0..MaxTicks) \union {Never}]
        <4>1. ASSUME NEW out \in Times, throttle' = [throttle EXCEPT !.latest = out, !.pending = TRUE]
              PROVE  throttle' \in [latest : Times, pending : BOOLEAN,
                                    last : (0..MaxTicks) \union {Never}]
          <5>1. throttle = [latest |-> throttle.latest, pending |-> throttle.pending,
                            last |-> throttle.last]
                /\ throttle.last \in (0..MaxTicks) \union {Never}
            BY <1>3
          <5>2. throttle' = [latest |-> out, pending |-> TRUE, last |-> throttle.last]
            BY <4>1, <5>1
          <5> QED
            BY <5>1, <5>2
        <4>2. CASE throttle' = [latest |-> parser.current, pending |-> FALSE, last |-> ticks]
          BY <1>3, <3>1, <4>2
        <4>3. PICK out \in Times : out = parser.current
          BY <3>1
        <4>4. \/ throttle' = [throttle EXCEPT !.latest = out, !.pending = TRUE]
              \/ throttle' = [latest |-> out, pending |-> FALSE, last |-> ticks]
          BY <2>4, <4>3 DEF Update
        <4> QED
          BY <4>1, <4>2, <4>3, <4>4
      <3> QED
        BY <1>3, <1>4, <2>1, <2>2, <2>4, <3>1, <3>2, <3>3
    <2>5. CASE /\ parser' = [parser EXCEPT !.current =
                                IF Head(stdout).value = NotANumber THEN @ ELSE Head(stdout).value]
               /\ UNCHANGED <<throttle, stored>>
      BY <1>3, <1>4, <2>1, <2>2, <2>3, <2>5 DEF Values
    <2>6. CASE UNCHANGED <<parser, throttle, stored>>
      BY <1>3, <1>4, <2>1, <2>2, <2>6
    <2> QED
      BY <1>5, <2>4, <2>5, <2>6 DEF ParseLine
  <1>6. CASE ParseEnds
    <2>1. run'.at = "waiting" /\ run'.finalOut = parser.last /\ parser.last \in Times
      BY <1>3, <1>6 DEF ParseEnds
    <2> QED
      BY <1>2, <1>3, <1>4, <1>6, <2>1 DEF ParseEnds
  <1>7. CASE CopyStderr
    BY <1>2, <1>3, <1>4, <1>7 DEF CopyStderr
  <1>8. CASE WaitEnds
    <2>1. run'.at = "flush" /\ run'.finalOut = run.finalOut
      BY <1>3, <1>8 DEF WaitEnds
    <2> QED
      BY <1>2, <1>3, <1>4, <1>8, <2>1 DEF WaitEnds
  <1>9. CASE Flush
    <2>1. run'.at = "over" /\ run'.finalOut = run.finalOut
      BY <1>3, <1>9 DEF Flush
    <2>2. throttle.latest \in Times
      BY <1>3
    <2>3. /\ stored' \in [pct : 0..100, failed : BOOLEAN, hasty : BOOLEAN]
          /\ throttle' \in [latest : Times, pending : BOOLEAN, last : (0..MaxTicks) \union {Never}]
      BY <1>3, <1>9, <2>2, StoreTyped DEF Flush
    <2> QED
      BY <1>2, <1>3, <1>4, <1>9, <2>1, <2>3 DEF Flush
  <1> QED
    BY <1>5, <1>6, <1>7, <1>8, <1>9

LEMMA ProgressAlwaysTyped == ProgressSpec => []ProgressTypeOK
  <1>1. ProgressTyped /\ ProgressInv /\ [ProgressNext]_progressVars => ProgressTyped'
    <2>1. ProgressTyped /\ UNCHANGED progressVars => ProgressTyped'
      BY DEF progressVars, ProgressTyped, ProgressTypeOK, TimesBounded
    <2>2. ASSUME ProgressTyped, TimePasses PROVE ProgressTyped'
      <3>1. ticks' \in 0 .. MaxTicks /\ ticks \in 0 .. MaxTicks
        BY <2>2, ProgressAssumption DEF TimePasses, ProgressTyped, ProgressTypeOK
      <3> QED
        BY <2>2, <3>1 DEF TimePasses, ProgressTyped, ProgressTypeOK, TimesBounded
    <2> QED
      BY <2>1, <2>2, WritesTyped, ReadsTyped DEF ProgressNext
  <1>2. ProgressTyped => ProgressTypeOK
    BY DEF ProgressTyped
  <1>3. ProgressSpec => []ProgressInv
    BY ProgressInitial, ProgressStep, PTL DEF ProgressSpec
  <1> QED
    BY <1>1, <1>2, <1>3, ProgressTypedAtFirst, PTL DEF ProgressSpec

-----------------------------------------------------------------------------
(* The service. *)

\* In every state of the service every part's state is one the code could have: for any
\* clients, schedules, files, instances and bounds.
THEOREM ServiceTyped == Spec => []TypeOK
  <1>1. Spec => []SettingsTypeOK
    <2>1. SettingsInv => SettingsTypeOK
      BY DEF SettingsInv
    <2> QED
      BY <2>1, SettingsGoOn, SettingsInitial, SettingsStep, PTL DEF SettingsSpec
  <1>2. Spec => []SignInTypeOK
    <2>1. SignInInv => SignInTypeOK
      BY DEF SignInInv
    <2> QED
      BY <2>1, SignInGoesOn, SignInInitial, SignInStep, PTL DEF SignInSpec
  <1>3. Spec => []SamplingTypeOK
    <2>1. SamplingInv => SamplingTypeOK
      BY DEF SamplingInv
    <2> QED
      BY <2>1, SamplingGoesOn, SamplingInitial, SamplingStep, PTL DEF SamplingSpec
  <1>4. Spec => [](part \in Part)
    <2>1. Init => part \in Part
      BY DEF Init
    <2>2. part \in Part /\ [Next]_vars => (part \in Part)'
      BY DEF Next, vars
    <2> QED
      BY <2>1, <2>2, PTL DEF Spec
  <1>5. /\ part \in Part /\ SettingsTypeOK /\ SchedulerTypeOK /\ SignInTypeOK /\ GuardTypeOK
        /\ NotifyTypeOK /\ BulkTypeOK /\ SamplingTypeOK /\ ProgressTypeOK /\ WebhooksTypeOK
        => TypeOK
    BY DEF TypeOK
  <1> QED
    BY <1>1, <1>2, <1>3, <1>4, <1>5, PartsGoOn, SchedulerTyped, GuardAlwaysTyped, NotifyTyped,
       BulkAlwaysTyped, ProgressAlwaysTyped, WebhooksTyped, PTL
=============================================================================
