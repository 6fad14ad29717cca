----------------------------- MODULE EventCharts -----------------------------
(***************************************************************************)
(* The event log of the telemetry service and the charts drawn from it: one *)
(* bar per day and type, days without events included, while rows older     *)
(* than the retention are purged.  The hourly chart is the same with hours  *)
(* and two types.  A time is a number of parts of a day.  A table is a set  *)
(* of rows, which their ids tell apart.                                     *)
(***************************************************************************)
EXTENDS Integers, FiniteSets, Functions

CONSTANTS
    DayLength,     \* length of a day
    Days,          \* bars of the chart
    Retention,     \* EVENT_LOG_RETENTION_DAYS
    LogTypes,      \* types of events that are logged
    MaxRows, LastTime   \* bounds

ASSUME ChartAssumption ==
    /\ DayLength \in Nat \ {0} /\ Days \in Nat \ {0} /\ Retention \in Nat
    /\ Days <= Retention
    /\ MaxRows \in Nat /\ LastTime \in Nat

VARIABLES
    time,      \* the time of the process
    eventLog,  \* table event_log
    logged     \* history: every row that was ever inserted

chartVars == <<time, eventLog, logged>>

ChartInit == time = 0 /\ eventLog = {} /\ logged = {}

LogEvent(type) ==
    LET row == [id |-> Cardinality(logged) + 1, type |-> type, ts |-> time] IN
    /\ Cardinality(logged) < MaxRows
    /\ eventLog' = eventLog \cup {row}
    /\ logged' = logged \cup {row}
    /\ UNCHANGED time

\* Variant: rows are kept for the days of the chart, counted from this moment.
PurgeSooner == eventLog' = {row \in eventLog : row.ts >= time - (Days - 1) * DayLength}

Purge == eventLog' = {row \in eventLog : row.ts >= time - Retention * DayLength}

CleanLog == Purge /\ UNCHANGED <<time, logged>>

ClockTicks ==
    /\ time < LastTime
    /\ time' = time + 1
    /\ UNCHANGED <<eventLog, logged>>

ChartNext == (\E type \in LogTypes : LogEvent(type)) \/ CleanLog \/ ClockTicks

ChartSpec == ChartInit /\ [][ChartNext]_chartVars

-----------------------------------------------------------------------------
ShownTypes == {"session_create", "command", "level_complete", "hint", "reset"}

\* Activities are counted with levels; the other types of an activity lose their prefix.
ShownAs == [activity_complete |-> "level_complete", activity_hint |-> "hint",
            activity_reset |-> "reset", activity_check |-> "check",
            session_create |-> "session_create", command |-> "command",
            level_complete |-> "level_complete", hint |-> "hint", reset |-> "reset",
            check_result |-> "check_result", vm_boot |-> "vm_boot"]

Day(ts) == ts - (ts % DayLength)
Cutoff == Day(time) - (Days - 1) * DayLength

\* SELECT day, type, COUNT(*) ... GROUP BY day, type
DailyRows ==
    LET recent == {row \in eventLog : row.ts >= Cutoff}
        like(row) == {r \in recent : Day(r.ts) = Day(row.ts) /\ r.type = row.type}
    IN  {[day |-> Day(row.ts), type |-> row.type, count |-> Cardinality(like(row))] :
            row \in recent}

\* Variant: a bar shows the count of one of the types it stands for.
OverwrittenBar(rows) == IF rows = {} THEN 0 ELSE (CHOOSE row \in rows : TRUE).count

AddedBar(rows) == SumFunctionOnSet([row \in rows |-> row.count], rows)

\* getTimeseries(): an entry of zeros for every day, to which the rows are added.
Timeseries ==
    [d \in 0..Days - 1 |->
        [type \in ShownTypes |->
            AddedBar({row \in DailyRows :
                        row.day = Cutoff + d * DayLength /\ ShownAs[row.type] = type})]]

\* Every bar counts exactly the events of its kind that the day saw, those of a
\* type shown under another's name included, and no purge takes away from a bar.
ChartsAreComplete ==
    \A d \in 0..Days - 1, type \in ShownTypes :
        LET first == Day(time) - (Days - 1 - d) * DayLength IN
        Timeseries[d][type] =
            Cardinality({row \in logged : /\ row.ts \in first..first + DayLength - 1
                                          /\ ShownAs[row.type] = type})
===============================================================================
