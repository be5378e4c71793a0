------------------------------ MODULE Service ------------------------------
(***************************************************************************)
(* The service around the pipeline: the settings and the queue's switch,   *)
(* the scan schedule, the Plex sign-in, the active-stream guard, the       *)
(* notifications, the bulk operations, the sample probes, the progress of  *)
(* an encode and the *arrs' webhooks.  They share no state, so one of them *)
(* takes the steps of a behaviour and the others rest: TLC explores the    *)
(* sum of their state spaces and not the product.                          *)
(***************************************************************************)
EXTENDS Settings, Scheduler, PlexSignIn, PlexGuard, Notify, Bulk, Sampling, Progress,
        Webhooks

VARIABLE part

vars == <<part, settingsVars, schedulerVars, signInVars, guardVars, notifyVars, bulkVars, samplingVars,
          progressVars, webhooksVars>>

Part == {"settings", "scheduler", "signin", "guard", "notify", "bulk", "sampling", "progress",
         "webhook"}

TypeOK ==
    /\ part \in Part
    /\ SettingsTypeOK /\ SchedulerTypeOK /\ SignInTypeOK
    /\ GuardTypeOK /\ NotifyTypeOK /\ BulkTypeOK
    /\ SamplingTypeOK /\ ProgressTypeOK /\ WebhooksTypeOK

Init ==
    /\ part \in Part
    /\ SettingsInit /\ SchedulerInit /\ SignInInit
    /\ GuardInit /\ NotifyInit /\ BulkInit /\ SamplingInit /\ ProgressInit
    /\ WebhooksInit
    \* whose first state is of no consequence, as it rests
    /\ part # "scheduler" => scanSettings = CHOOSE s \in ScanSettings : s.enabled
    /\ part # "guard" => library = CHOOSE l \in Libraries : TRUE
    /\ part # "notify" => instances = [i \in Instance |-> NoInstanceRow]
    /\ part # "bulk" => listed = {}
    /\ part # "webhook" => \A s \in Sender : senders[s].mappings = <<>>

Next ==
    /\ UNCHANGED part
    /\ \/ part = "settings" /\ SettingsNext
          /\ UNCHANGED <<schedulerVars, signInVars, guardVars, notifyVars, bulkVars, samplingVars,
                         progressVars, webhooksVars>>
       \/ part = "scheduler" /\ SchedulerNext
          /\ UNCHANGED <<settingsVars, signInVars, guardVars, notifyVars, bulkVars, samplingVars,
                         progressVars, webhooksVars>>
       \/ part = "signin" /\ SignInNext
          /\ UNCHANGED <<settingsVars, schedulerVars, guardVars, notifyVars, bulkVars, samplingVars,
                         progressVars, webhooksVars>>
       \/ part = "guard" /\ GuardNext
          /\ UNCHANGED <<settingsVars, schedulerVars, signInVars, notifyVars, bulkVars, samplingVars,
                         progressVars, webhooksVars>>
       \/ part = "notify" /\ NotifyNext
          /\ UNCHANGED <<settingsVars, schedulerVars, signInVars, guardVars, bulkVars, samplingVars,
                         progressVars, webhooksVars>>
       \/ part = "bulk" /\ BulkNext
          /\ UNCHANGED <<settingsVars, schedulerVars, signInVars, guardVars, notifyVars, samplingVars,
                         progressVars, webhooksVars>>
       \/ part = "sampling" /\ SamplingNext
          /\ UNCHANGED <<settingsVars, schedulerVars, signInVars, guardVars, notifyVars, bulkVars,
                         progressVars, webhooksVars>>
       \/ part = "progress" /\ ProgressNext
          /\ UNCHANGED <<settingsVars, schedulerVars, signInVars, guardVars, notifyVars, bulkVars,
                         samplingVars, webhooksVars>>
       \/ part = "webhook" /\ WebhooksNext
          /\ UNCHANGED <<settingsVars, schedulerVars, signInVars, guardVars, notifyVars, bulkVars,
                         samplingVars, progressVars>>

Spec == Init /\ [][Next]_vars
=============================================================================
