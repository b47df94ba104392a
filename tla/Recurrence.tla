------------------------------ MODULE Recurrence ------------------------------
(***************************************************************************)
(* The recurrence rules of package schedule: the next occurrence of a      *)
(* schedule, business calendars and window keys.                           *)
(*                                                                         *)
(* A schedule is a record of one shape for every type: type, zone, clock   *)
(* (the wall clock, in units of a day), weekday, monthDay, interval, at    *)
(* (the instant of a one-time schedule, or the origin of an interval),     *)
(* policy (the non-working-day policy) and calendar.  A calendar is a      *)
(* record of day sets: weekly (the weekdays with working intervals),       *)
(* holidays, and the date exceptions with (open) and without (closed)      *)
(* intervals; NoCalendar is the nil pointer.  Validate makes the           *)
(* calendar's zone the schedule's.  Cron and the legacy string forms of    *)
(* Type are left out.                                                      *)
(***************************************************************************)
EXTENDS WallClock, FiniteSets

CONSTANTS SearchDays   \* maximumBusinessCalendarSearchDays

NoCalendar == [weekly |-> {}, holidays |-> {}, open |-> {}, closed |-> {}]

Earliest(instants) == CHOOSE t \in instants : \A u \in instants : t <= u

(* A faulty variant: the current instant counts as the next occurrence. *)
NextDailyInclusive(zone, now, clock) ==
    LET today == Date(zone, LocalDay(zone, now), clock)
    IN  IF today >= now THEN today ELSE AddDays(zone, today, 1)

(* nextDaily *)
NextDaily(zone, now, clock) ==
    LET today == Date(zone, LocalDay(zone, now), clock)
    IN  IF today > now THEN today ELSE AddDays(zone, today, 1)

(* A faulty variant: today is left out. *)
NextWeeklyFromTomorrow(zone, now, weekday, clock) ==
    LET day(offset) == LocalDay(zone, AddDays(zone, now, offset))
        candidate(offset) == Date(zone, day(offset), clock)
        matching == {offset \in 1..7 : Weekday(day(offset)) = weekday /\ candidate(offset) > now}
    IN  IF matching # {} THEN candidate(Earliest(matching)) ELSE candidate(7)

(* nextWeekly: the first matching day of the coming seven whose wall clock *)
(* has not passed, else a week from now.                                   *)
NextWeekly(zone, now, weekday, clock) ==
    LET day(offset) == LocalDay(zone, AddDays(zone, now, offset))
        candidate(offset) == Date(zone, day(offset), clock)
        matching == {offset \in 0..7 : Weekday(day(offset)) = weekday /\ candidate(offset) > now}
    IN  IF matching # {} THEN candidate(Earliest(matching)) ELSE candidate(7)

(* monthly: a day past the end of the month is its last day. *)
Monthly(zone, month, monthDay, clock) ==
    LET day == IF monthDay > MonthLengths[month] THEN MonthLengths[month] ELSE monthDay
    IN  Date(zone, MonthStart[month] + day - 1, clock)

(* nextMonthly *)
NextMonthly(zone, now, monthDay, clock) ==
    LET this == Monthly(zone, MonthOf(LocalDay(zone, now)), monthDay, clock)
        next == AddMonths(zone, now, 1)
    IN  IF this > now THEN this
        ELSE Monthly(zone, MonthOf(LocalDay(zone, next)), monthDay, clock)

(* Next *)
Next(s, now) ==
    CASE s.type = "once"       -> s.at
      [] s.type = "interval"   -> now + s.interval
      [] s.type = "daily_at"   -> NextDaily(s.zone, now, s.clock)
      [] s.type = "weekly_at"  -> NextWeekly(s.zone, now, s.weekday, s.clock)
      [] s.type = "monthly_at" -> NextMonthly(s.zone, now, s.monthDay, s.clock)

-----------------------------------------------------------------------------
(* Business calendars *)

(* A faulty variant: weekdays are asked before the dates. *)
ClosedDayByWeekday(calendar, day) ==
    Weekday(day) \notin calendar.weekly \/ day \in calendar.closed \cup calendar.holidays

(* A date exception decides first, then a holiday, then the weekday. *)
ClosedDay(calendar, day) ==
    \/ day \in calendar.closed
    \/ /\ day \notin calendar.open
       /\ day \in calendar.holidays \/ Weekday(day) \notin calendar.weekly

IsNonWorkingOccurrence(s, t) ==
    s.calendar # NoCalendar /\ t # ZeroTime /\ ClosedDay(s.calendar, LocalDay(s.zone, t))

(* The schedule skips the days it finds closed, and this is one. *)
SkipsOccurrence(s, t) == s.policy = "skip" /\ IsNonWorkingOccurrence(s, t)

(* rollForwardBusinessOccurrence: the same wall clock on the next open day, *)
(* or the zero time when there is none within the search.                  *)
RollForward(s, t) ==
    LET candidate(offset) ==
            Date(s.zone, LocalDay(s.zone, AddDays(s.zone, t, offset)), LocalClock(s.zone, t))
        open == {offset \in 1..SearchDays : ~IsNonWorkingOccurrence(s, candidate(offset))}
    IN  IF ~IsNonWorkingOccurrence(s, t) THEN t
        ELSE IF open # {} THEN candidate(Earliest(open)) ELSE ZeroTime

NextSchedule(s, now) ==
    IF s.calendar = NoCalendar \/ s.policy # "roll_forward" THEN Next(s, now)
    ELSE RollForward(s, Next(s, now))

-----------------------------------------------------------------------------

(* A faulty variant: intervals are keyed by date like everything else. *)
WindowKeyByDate(s, t) ==
    CASE s.type = "weekly_at"  -> (LocalDay(s.zone, t) + FirstWeekday - 1) \div 7
      [] s.type = "monthly_at" -> MonthOf(LocalDay(s.zone, t))
      [] OTHER                 -> LocalDay(s.zone, t)

(* WindowSuffix: the window an instant is in.  Weeks begin on Monday. *)
WindowKey(s, t) ==
    CASE s.type = "interval"   -> t \div s.interval
      [] s.type = "weekly_at"  -> (LocalDay(s.zone, t) + FirstWeekday - 1) \div 7
      [] s.type = "monthly_at" -> MonthOf(LocalDay(s.zone, t))
      [] OTHER                 -> LocalDay(s.zone, t)

-----------------------------------------------------------------------------
(* Validate: what a schedule and its calendar must satisfy. *)

NoPolicy == ""   \* the empty text: no policy is set

ValidCalendar(calendar) ==
    /\ calendar.weekly # {} /\ calendar.weekly \subseteq 0..6
    /\ calendar.holidays \cap (calendar.open \cup calendar.closed) = {}
    /\ calendar.open \cap calendar.closed = {}

ValidSchedule(s) ==
    /\ s.type = "interval" => s.interval > 0
    /\ s.type = "weekly_at" => s.weekday \in 0..6
    /\ s.type = "monthly_at" => s.monthDay \in 1..31
    /\ IF s.calendar = NoCalendar THEN s.policy = NoPolicy
       ELSE /\ s.type \notin {"once", "interval"}
            /\ ValidCalendar(s.calendar)
            /\ s.policy \in {"skip", "roll_forward"}

-----------------------------------------------------------------------------
(* What a wall-clock schedule means: the reference for its occurrences *)

(* The local days its rule names *)
OnRule(s, day) ==
    CASE s.type = "daily_at"   -> TRUE
      [] s.type = "weekly_at"  -> Weekday(day) = s.weekday
      [] s.type = "monthly_at" ->
            \/ MonthDay(day) = s.monthDay
            \/ s.monthDay > MonthDay(day) /\ MonthDay(day) = MonthLengths[MonthOf(day)]

(* The days work is done on: exceptions aside, the weekly days that are no *)
(* holiday.  Without a calendar it is every day.                           *)
WorkingDay(calendar, day) ==
    \/ calendar = NoCalendar \/ day \in calendar.open
    \/ Weekday(day) \in calendar.weekly /\ day \notin calendar.holidays \cup calendar.closed

(* The local days it occurs on: those its rule names or, rolling forward,  *)
(* the first working day on or after each of them.                         *)
OccursOn(s, day) ==
    IF s.policy # "roll_forward" THEN OnRule(s, day)
    ELSE /\ WorkingDay(s.calendar, day)
         /\ \E d \in 0..day :
                OnRule(s, d) /\ \A e \in d..(day - 1) : ~WorkingDay(s.calendar, e)

OccurrenceOn(s, day) == Date(s.zone, day, s.clock)

(* Its occurrences after one instant and up to another.  Those of an       *)
(* interval are counted from s.at, where its clock was started.            *)
OccurrencesBetween(s, from, to) ==
    IF s.type = "interval"
    THEN {t \in (from + 1)..to : t > s.at /\ (t - s.at) % s.interval = 0}
    ELSE {OccurrenceOn(s, day) :
            day \in {d \in LocalDay(s.zone, from)..LocalDay(s.zone, to) :
                        OccursOn(s, d) /\ OccurrenceOn(s, d) \in (from + 1)..to}}

-----------------------------------------------------------------------------
(* The schedules whose next window is always their next occurrence *)

(* The offset of a steady zone does not change. *)
Steady(zone) ==
    zone.before \in Int /\ zone.after = zone.before /\ zone.transition \in Int

Clocks == 0..(DayLength - 1)

(* All but monthly rules, in a steady zone *)
RegularRule(s) ==
    /\ ValidSchedule(s) /\ Steady(s.zone)
    /\ s.type \in {"once", "interval", "daily_at", "weekly_at"}
    /\ s.type \in {"daily_at", "weekly_at"} => s.clock \in Clocks
    /\ s.interval \in Int

(* A monthly rule on a day that every month has, which rolls no day on *)
InEveryMonth(monthDay) == \A m \in Months : monthDay <= MonthLengths[m]

MonthlyRule(s) ==
    /\ ValidSchedule(s) /\ Steady(s.zone) /\ s.type = "monthly_at" /\ s.clock \in Clocks
    /\ InEveryMonth(s.monthDay) /\ s.policy # "roll_forward"

(* A month of the calendar follows the day's. *)
MonthFollows(day) == day \in 0..LastDay /\ MonthOf(day) + 1 \in Months

(* Started within the epoch *)
Regular(s) ==
    /\ RegularRule(s) /\ s.at \in Nat /\ LocalDay(s.zone, s.at) >= 0
    /\ s.type = "once" => s.at # ZeroTime

(* No occurrence is on its way from a closed day to an open one: what a   *)
(* weekly rule has named so far has found its working day.                 *)
NonePending(s, now) ==
    s.policy = "roll_forward" /\ s.type = "weekly_at" =>
        LET today == LocalDay(s.zone, now)
        IN  \A d \in 0..today : OnRule(s, d) /\ OccurrenceOn(s, d) <= now =>
                \E e \in d..today : WorkingDay(s.calendar, e) /\ OccurrenceOn(s, e) <= now
=============================================================================
