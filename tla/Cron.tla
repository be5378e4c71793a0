-------------------------------- MODULE Cron --------------------------------
(***************************************************************************)
(* settings.scan_cron (ingest/cron.go): what a five-field expression means *)
(* and which minute it matches next.  A field is the set of the parts its  *)
(* commas separate; time is a number of minutes, the clock is in UTC, and  *)
(* the calendar says which date a day is.                                  *)
(***************************************************************************)
EXTENDS Integers

CONSTANTS
    MinutesPerHour, HoursPerDay,
    MonthDays, YearMonths, WeekDays,    \* the largest day, month and weekday
    Calendar,       \* the date of every day a search may reach
    SearchDays      \* how far ahead a match is looked for (four years)

ASSUME CalendarAssumption ==
    /\ MinutesPerHour \in Nat \ {0} /\ HoursPerDay \in Nat \ {0}
    /\ MonthDays \in Nat /\ YearMonths \in Nat /\ WeekDays \in Nat
    /\ \A d \in DOMAIN Calendar :
          /\ Calendar[d].dom \in 1..MonthDays
          /\ Calendar[d].month \in 1..YearMonths
          /\ Calendar[d].dow \in 0..(WeekDays - 1)

NoTime == -1

-----------------------------------------------------------------------------
(* Parsing.  A part is a star or a range, a value being the range of itself, *)
(* and may have a step; a step of 0 is none.                                 *)

PartFits(p, min, max) ==
    p.step >= 0 /\ (p.star \/ (min <= p.lo /\ p.lo <= p.hi /\ p.hi <= max))

\* A value with a step is open-ended, and so is a range whose ends are equal.
PartLast(p, max) == IF p.star \/ (p.step # 0 /\ p.lo = p.hi) THEN max ELSE p.hi

PartValues(p, min, max) ==
    LET from == IF p.star THEN min ELSE p.lo
    IN {v \in from..PartLast(p, max) : p.step = 0 \/ (v - from) % p.step = 0}

FieldFits(f, min, max) == f # {} /\ \A p \in f : PartFits(p, min, max)
FieldValues(f, min, max) == UNION {PartValues(p, min, max) : p \in f}
Restricted(f) == \E p \in f : ~p.star \/ p.step # 0

Readable(spec) ==
    /\ FieldFits(spec.minute, 0, MinutesPerHour - 1)
    /\ FieldFits(spec.hour, 0, HoursPerDay - 1)
    /\ FieldFits(spec.dom, 1, MonthDays)
    /\ FieldFits(spec.month, 1, YearMonths)
    /\ FieldFits(spec.dow, 0, WeekDays)

\* The first and the last number of a weekday are both Sunday.
ParseCron(spec) ==
    LET days == FieldValues(spec.dow, 0, WeekDays)
    IN [minute |-> FieldValues(spec.minute, 0, MinutesPerHour - 1),
        hour |-> FieldValues(spec.hour, 0, HoursPerDay - 1),
        dom |-> FieldValues(spec.dom, 1, MonthDays),
        month |-> FieldValues(spec.month, 1, YearMonths),
        dow |-> IF WeekDays \in days THEN days \union {0} ELSE days,
        domRestricted |-> Restricted(spec.dom),
        dowRestricted |-> Restricted(spec.dow)]

-----------------------------------------------------------------------------
(* Matching. *)

DayMinutes == MinutesPerHour * HoursPerDay

\* A search goes further than the next minute.
ASSUME SearchAssumption == SearchDays \in Nat /\ SearchDays * DayMinutes > 1

DayOf(t) == t \div DayMinutes
HourOf(t) == (t \div MinutesPerHour) % HoursPerDay
MinuteOf(t) == t % MinutesPerHour

\* Two restricted day fields are a union, any other two an intersection.
MatchesDay(s, d) ==
    LET date == Calendar[d]
        dom == date.dom \in s.dom
        dow == date.dow \in s.dow
    IN /\ date.month \in s.month
       /\ IF s.domRestricted /\ s.dowRestricted THEN dom \/ dow ELSE dom /\ dow

\* The first matching minute strictly after t, found by skipping over days and
\* hours that cannot hold one.
NextMatch(s, t) ==
    LET limit == t + SearchDays * DayMinutes
        from[m \in t..(limit + DayMinutes)] ==
            IF m >= limit THEN NoTime
            ELSE IF ~MatchesDay(s, DayOf(m)) THEN from[(DayOf(m) + 1) * DayMinutes]
            ELSE IF HourOf(m) \notin s.hour
                 THEN from[(m \div MinutesPerHour + 1) * MinutesPerHour]
            ELSE IF MinuteOf(m) \notin s.minute THEN from[m + 1]
            ELSE m
    IN from[t + 1]
=============================================================================
