----------------------------- MODULE Settings -----------------------------
(***************************************************************************)
(* The settings row and the queue's pause switch in it (api/settings.go,   *)
(* job/worker.go, store/settings.go).  Every writer reads the whole row,   *)
(* changes its part of it and writes the whole row back; the worker reads  *)
(* the switch in one call and claims a job in the next.  The process may   *)
(* stop at any point, which forgets the calls in flight.                   *)
(***************************************************************************)
EXTENDS Integers

CONSTANTS
    Client,         \* callers of the API, each with one request in flight
    Schedules,      \* what a settings request may write into the rest of the row
    DefaultSchedule,
    NoRow, NoCall   \* neither a row nor a call

ASSUME SettingsAssumption ==
    /\ DefaultSchedule \in Schedules
    /\ NoRow \notin [paused : BOOLEAN, schedule : Schedules]

VARIABLES
    row,        \* the settings row
    calls,      \* for every client, the call it has made and the row it will write
    consumer,   \* the worker: "down", "idle", "claim" (read "not paused"), "busy"
    stop        \* since the last answered pause: how it went, the jobs started

settingsVars == <<row, calls, consumer, stop>>

SettingsRow == [paused : BOOLEAN, schedule : Schedules]
Call == [op : {"update", "pause", "resume"}, write : SettingsRow]
NoStop == [since |-> "no", starts |-> 0]

SettingsTypeOK ==
    /\ row \in SettingsRow \union {NoRow}
    /\ calls \in [Client -> Call \union {NoCall}]
    /\ consumer \in {"down", "idle", "claim", "busy"}
    /\ stop \in [since : {"no", "clean", "raced"}, starts : 0..2]

InFlight(c) == calls[c] # NoCall
Up == consumer # "down"

\* The row a pending call is about to write would set the queue going again.
WillResume == \E c \in Client : InFlight(c) /\ ~calls[c].write.paused

-----------------------------------------------------------------------------

SettingsInit ==
    /\ row = NoRow
    /\ calls = [c \in Client |-> NoCall]
    /\ consumer = "down"
    /\ stop = NoStop

Defaults == [paused |-> FALSE, schedule |-> DefaultSchedule]

\* At startup the defaults are inserted unless there is a row.
EnsureSettings == IF row = NoRow THEN Defaults ELSE row

Start ==
    /\ ~Up
    /\ row' = EnsureSettings
    /\ consumer' = "idle"
    /\ UNCHANGED <<calls, stop>>

Stop ==
    /\ Up
    /\ calls' = [c \in Client |-> NoCall]
    /\ consumer' = "down"
    /\ UNCHANGED <<row, stop>>

\* A client's pause is answered: either nothing in flight can undo it or
\* something can.
PauseAnswered ==
    stop' = [since |-> IF WillResume' THEN "raced" ELSE "clean", starts |-> 0]

(* UpdateSettings: the row is read, and what the request does not carry is *)
(* kept from what was read.                                                *)
ApplySettingsFresh(current, schedule) == [Defaults EXCEPT !.schedule = schedule]
ApplySettings(current, schedule) == [current EXCEPT !.schedule = schedule]

UpdateSettings(c, schedule) ==
    /\ Up /\ ~InFlight(c)
    /\ calls' = [calls EXCEPT ![c] = [op |-> "update",
                                      write |-> ApplySettings(row, schedule)]]
    /\ UNCHANGED <<row, consumer, stop>>

(* Pause and Resume: a switch already where it should be is left alone, and *)
(* nothing is written.                                                      *)
Pause(c) ==
    /\ Up /\ ~InFlight(c)
    /\ \/ /\ row.paused
          /\ UNCHANGED calls
          /\ PauseAnswered
       \/ /\ ~row.paused
          /\ calls' = [calls EXCEPT ![c] = [op |-> "pause",
                                            write |-> [row EXCEPT !.paused = TRUE]]]
          /\ UNCHANGED stop
    /\ UNCHANGED <<row, consumer>>

Resume(c) ==
    /\ Up /\ ~InFlight(c)
    /\ stop' = NoStop
    /\ \/ row.paused /\ calls' = [calls EXCEPT ![c] =
                           [op |-> "resume", write |-> [row EXCEPT !.paused = FALSE]]]
       \/ ~row.paused /\ UNCHANGED calls
    /\ UNCHANGED <<row, consumer>>

Write(c) ==
    /\ Up /\ InFlight(c)
    /\ calls' = [calls EXCEPT ![c] = NoCall]
    /\ row' = calls[c].write
    /\ IF calls[c].op = "pause" THEN PauseAnswered ELSE UNCHANGED stop
    /\ UNCHANGED consumer

\* The write fails: the caller gets an error and the row is as it was.
WriteFails(c) ==
    /\ Up /\ InFlight(c)
    /\ calls' = [calls EXCEPT ![c] = NoCall]
    /\ UNCHANGED <<row, consumer, stop>>

-----------------------------------------------------------------------------
(* The worker. *)

Look ==
    /\ consumer = "idle" /\ ~row.paused
    /\ consumer' = "claim"
    /\ UNCHANGED <<row, calls, stop>>

\* The claim takes a job, or there is none.
Claim ==
    /\ consumer = "claim"
    /\ \/ /\ consumer' = "busy"
          /\ stop' = IF stop.since = "no" \/ stop.starts = 2 THEN stop
                     ELSE [stop EXCEPT !.starts = @ + 1]
       \/ consumer' = "idle" /\ UNCHANGED stop
    /\ UNCHANGED <<row, calls>>

Finish ==
    /\ consumer = "busy"
    /\ consumer' = "idle"
    /\ UNCHANGED <<row, calls, stop>>

SettingsNext ==
    \/ Start \/ Stop
    \/ \E c \in Client :
          \/ \E schedule \in Schedules : UpdateSettings(c, schedule)
          \/ Pause(c) \/ Resume(c) \/ Write(c) \/ WriteFails(c)
    \/ Look \/ Claim \/ Finish

SettingsSpec == SettingsInit /\ [][SettingsNext]_settingsVars

-----------------------------------------------------------------------------

(* Once a pause has been answered while no other request is about to write   *)
(* back a row it read before it, the queue starts at most the one job whose  *)
(* turn had already begun, whatever requests follow, until somebody resumes  *)
(* it: across settings updates, restarts and repeated pauses.                *)
PauseStopsTheQueue == stop.since = "clean" => stop.starts <= 1
=============================================================================
