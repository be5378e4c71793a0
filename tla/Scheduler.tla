----------------------------- MODULE Scheduler -----------------------------
(***************************************************************************)
(* The loop that starts the daily scan (ingest/scheduler.go): it reads the *)
(* settings, sleeps until the next matching minute or for RecheckInterval, *)
(* whichever is the shorter, and reads the settings again.  The clock runs *)
(* in ticks of a fraction of a minute, so a turn can fall between two      *)
(* minutes; a turn or a wake may also be late.                             *)
(***************************************************************************)
EXTENDS Cron

CONSTANTS
    MinuteTicks,    \* ticks in a minute
    Horizon,        \* the last tick considered: bounds time
    Crons           \* the expressions scan_cron may hold, readable or not

ASSUME SchedulerAssumption ==
    /\ MinuteTicks \in Nat \ {0} /\ Horizon \in Nat
    /\ 0..DayOf(Horizon \div MinuteTicks) \subseteq DOMAIN Calendar

\* What the splitting of an expression yields, readable or not.
CronPart == [star : BOOLEAN, lo : Int, hi : Int, step : Int]
ASSUME CronsAssumption ==
    Crons \subseteq [minute : SUBSET CronPart, hour : SUBSET CronPart, dom : SUBSET CronPart,
                     month : SUBSET CronPart, dow : SUBSET CronPart]

\* scheduler.go: one minute.
RecheckInterval == MinuteTicks

VARIABLES
    now,            \* the time, in ticks
    scanSettings,   \* settings.scan_enabled and settings.scan_cron
    loop            \* what the loop is doing, and the settings it last read

schedulerVars == <<now, scanSettings, loop>>

ScanSettings == [enabled : BOOLEAN, cron : Crons]
Unread == [enabled |-> FALSE, cron |-> CHOOSE c \in Crons : TRUE]
MinuteNow == now \div MinuteTicks

SchedulerTypeOK ==
    /\ now \in 0..Horizon
    /\ scanSettings \in ScanSettings
    /\ loop.pc \in {"turn", "asleep", "scan"}
    /\ loop.wake \in Nat /\ loop.fire \in BOOLEAN
    /\ loop.read \in ScanSettings

-----------------------------------------------------------------------------

SchedulerInit ==
    /\ now = 0
    /\ scanSettings \in {s \in ScanSettings : s.enabled}
    /\ loop = [pc |-> "turn", wake |-> 0, fire |-> FALSE, read |-> Unread]

Sleep(ticks, fire, read) ==
    loop' = [pc |-> "asleep", wake |-> now + ticks, fire |-> fire, read |-> read]

\* Whether the sleep would be longer than the loop may go without looking.
TooLongOrEqual(ticks) == ticks >= RecheckInterval
TooLong(ticks) == ticks > RecheckInterval

(* Run and nextWait: a schedule that is off, unreadable or matches nothing *)
(* in the next years is looked at again in a minute, and so is one whose   *)
(* next minute is further away than that.  Settings that cannot be read at *)
(* all are retried likewise.                                               *)
Turn ==
    /\ loop.pc = "turn"
    /\ UNCHANGED <<now, scanSettings>>
    /\ LET read == scanSettings
           next == IF read.enabled /\ Readable(read.cron)
                   THEN NextMatch(ParseCron(read.cron), MinuteNow) ELSE NoTime
           ticks == next * MinuteTicks - now
       IN IF next = NoTime \/ TooLong(ticks)
          THEN Sleep(RecheckInterval, FALSE, read)
          ELSE Sleep(ticks, TRUE, read)

SettingsUnread ==
    /\ loop.pc = "turn"
    /\ Sleep(RecheckInterval, FALSE, Unread)
    /\ UNCHANGED <<now, scanSettings>>

Wake ==
    /\ loop.pc = "asleep" /\ loop.wake <= now
    /\ loop' = [loop EXCEPT !.pc = IF loop.fire THEN "scan" ELSE "turn"]
    /\ UNCHANGED <<now, scanSettings>>

\* The scan has finished or failed: the loop goes on either way.
ScanEnds ==
    /\ loop.pc = "scan"
    /\ loop' = [loop EXCEPT !.pc = "turn", !.fire = FALSE]
    /\ UNCHANGED <<now, scanSettings>>

\* A restarted process runs the loop from its start.
RestartLoop ==
    /\ loop' = [pc |-> "turn", wake |-> 0, fire |-> FALSE, read |-> Unread]
    /\ UNCHANGED <<now, scanSettings>>

\* (outside this loop)
ChangeScanSettings ==
    /\ scanSettings' \in ScanSettings
    /\ UNCHANGED <<now, loop>>

Tick ==
    /\ now < Horizon
    /\ now' = now + 1
    /\ UNCHANGED <<scanSettings, loop>>

SchedulerNext ==
    \/ Turn \/ SettingsUnread \/ Wake \/ ScanEnds \/ RestartLoop
    \/ ChangeScanSettings \/ Tick

SchedulerSpec == SchedulerInit /\ [][SchedulerNext]_schedulerVars

-----------------------------------------------------------------------------
(* What an expression says, read the way crontab(5) describes it: field by   *)
(* field and number by number.                                               *)

PartSays(p, v) ==
    IF p.star THEN p.step = 0 \/ v % p.step = 0
    ELSE \/ v = p.lo
         \/ p.lo < v /\ v <= p.hi /\ (p.step = 0 \/ (v - p.lo) % p.step = 0)
         \/ p.lo = p.hi /\ p.step # 0 /\ v > p.lo /\ (v - p.lo) % p.step = 0
FieldSays(f, v) == \E p \in f : PartSays(p, v)
FromOne(f) == {[p EXCEPT !.lo = @ - 1, !.hi = @ - 1] : p \in f}
AllStars(f) == \A p \in f : p.star /\ p.step = 0

CronSays(cron, minute) ==
    LET date == Calendar[DayOf(minute)]
        dom == FieldSays(FromOne(cron.dom), date.dom - 1)
        dow == \/ FieldSays(cron.dow, date.dow)
               \/ date.dow = 0 /\ FieldSays(cron.dow, WeekDays)
    IN /\ FieldSays(cron.minute, MinuteOf(minute))
       /\ FieldSays(cron.hour, HourOf(minute))
       /\ FieldSays(FromOne(cron.month), date.month - 1)
       /\ \/ dom /\ dow
          \/ dom /\ ~AllStars(cron.dom) /\ ~AllStars(cron.dow)
          \/ dow /\ ~AllStars(cron.dom) /\ ~AllStars(cron.dow)

Wanted(minute) ==
    /\ scanSettings.enabled /\ Readable(scanSettings.cron)
    /\ CronSays(scanSettings.cron, minute)

\* The loop is asleep as it should be: not overdue, and nobody has changed the
\* settings since it read them.
OnTime == loop.pc = "asleep" /\ loop.wake > now /\ loop.read = scanSettings

(* A loop that keeps up misses no scan and makes none up: when the clock    *)
(* reaches a minute the expression names, a loop that is asleep and not     *)
(* late wakes at that very tick to scan; and a scan starts only in a minute *)
(* the expression it read names.                                            *)
ScansOnSchedule ==
    [][ /\ now' # now /\ now' % MinuteTicks = 0 /\ OnTime /\ Wanted(MinuteNow')
           => loop.fire /\ loop.wake = now'
        /\ loop'.pc = "scan" /\ loop.pc # "scan"
           => /\ loop.read.enabled
              /\ CronSays(loop.read.cron, loop.wake \div MinuteTicks)
              /\ loop.wake % MinuteTicks = 0 ]_schedulerVars
=============================================================================
