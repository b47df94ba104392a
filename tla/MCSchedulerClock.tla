---------------------------- MODULE MCSchedulerClock ----------------------------
(* Days of two units in one month that begins on a Friday. *)
EXTENDS SchedulerClock

OneMonth == <<31>>
UTC == [transition |-> 1, before |-> 0, after |-> 0]

Schedule(type, clock, weekday, interval, at, policyOnClosedDays, calendar) ==
    [type |-> type, zone |-> UTC, clock |-> clock, weekday |-> weekday, monthDay |-> 0,
     interval |-> interval, at |-> at, policy |-> policyOnClosedDays, calendar |-> calendar]

\* Monday to Friday; Monday the 4th is a holiday.
WorkWeek == [weekly |-> 1..5, holidays |-> {3}, open |-> {}, closed |-> {}]

Daily == Schedule("daily_at", 1, 0, 0, 1, "", NoCalendar)
Every(interval) == Schedule("interval", 0, 0, interval, 1, "", NoCalendar)
Once == Schedule("once", 0, 0, 0, 3, "", NoCalendar)
DailyWork(policyOnClosedDays) ==
    Schedule("daily_at", 1, 0, 0, 0, policyOnClosedDays, WorkWeek)

EverySchedule ==
    {Daily, Every(1), Every(3), Once, DailyWork("skip"), DailyWork("roll_forward")}

ASSUME EveryScheduleIsRegular == RegularSchedules

Policy(misfire, grace, maxCatchup) ==
    [misfire |-> misfire, grace |-> grace, maxCatchup |-> maxCatchup]

EveryPolicy ==
    {Policy(m, g, 0) : m \in {"", "skip", "catch_up_one"}, g \in {0, 3}}
    \cup {Policy("catch_up_bounded", g, n) : g \in {0, 3}, n \in {1, 3}}
=============================================================================
