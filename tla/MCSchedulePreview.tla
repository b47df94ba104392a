--------------------------- MODULE MCSchedulePreview ---------------------------
(***************************************************************************)
(* Days of four units, the months of fourteen months from January 2026 on  *)
(* (day 0 is a Thursday), and the schedules of each run.                   *)
(***************************************************************************)
EXTENDS SchedulePreview

Calendar2026 == <<31, 28, 31, 30, 31, 30, 31, 31, 30, 31, 30, 31, 31, 28>>

Fixed(offset) == [transition |-> 1, before |-> offset, after |-> offset]
\* The clocks go forward by one unit on day 5, at local clock 1.
Spring == [transition |-> 23, before |-> -2, after |-> -1]
\* The clocks go back by one unit on day 5, at local clock 2.
Autumn == [transition |-> 23, before |-> -1, after |-> -2]

Schedule(type, zone, clock, weekday, monthDay, interval, policy, calendar) ==
    [type |-> type, zone |-> zone, clock |-> clock, weekday |-> weekday,
     monthDay |-> monthDay, interval |-> interval, at |-> 0,
     policy |-> policy, calendar |-> calendar]

Daily(zone, clock) == Schedule("daily_at", zone, clock, 0, 0, 0, "", NoCalendar)
Weekly(zone, clock, weekday) ==
    Schedule("weekly_at", zone, clock, weekday, 0, 0, "", NoCalendar)
MonthlyOn(zone, clock, monthDay) ==
    Schedule("monthly_at", zone, clock, 0, monthDay, 0, "", NoCalendar)
Every(interval) == Schedule("interval", Fixed(0), 0, 0, 0, interval, "", NoCalendar)
WithCalendar(s, policy, calendar) ==
    [s EXCEPT !.policy = policy, !.calendar = calendar]

\* Monday to Friday; Monday the 5th is a holiday and Saturday the 10th open.
WorkWeek == [weekly |-> 1..5, holidays |-> {4}, open |-> {9}, closed |-> {7}]
\* Weekdays, and one Saturday
OneSaturday == [weekly |-> 1..5, holidays |-> {}, open |-> {2}, closed |-> {}]
\* Wednesdays only, and every one of the first two months a holiday
WednesdayHolidays == [weekly |-> {3}, holidays |-> {d \in 0..58 : Weekday(d) = 3},
                      open |-> {}, closed |-> {}]

EverydaySchedules ==
    {Daily(Fixed(z), c) : z \in {-2, 0, 3}, c \in {0, 3}}
    \cup {Weekly(Fixed(z), c, w) : z \in {-2, 0, 3}, c \in {0, 3}, w \in {0, 3, 6}}
    \cup {MonthlyOn(Fixed(z), c, d) : z \in {-2, 0, 3}, c \in {0, 3}, d \in {1, 28}}
    \cup {Every(i) : i \in {1, 3, 4}}
    \cup {Daily(Autumn, c) : c \in 0..3}
    \cup {Daily(Spring, c) : c \in {0, 2, 3}}
    \cup {Weekly(Autumn, c, w) : c \in 0..3, w \in {1, 2, 6}}
    \cup {Weekly(Spring, c, w) : c \in {0, 2, 3}, w \in {1, 2, 6}}

SaturdayOnce == {WithCalendar(Weekly(Fixed(0), 1, 6), "skip", OneSaturday)}
NoWorkInReach == {WithCalendar(Daily(Fixed(0), 1), "roll_forward", WednesdayHolidays)}

CalendarSchedules ==
    {WithCalendar(Daily(Fixed(z), c), p, WorkWeek) :
        z \in {-2, 3}, c \in {0, 3}, p \in {"skip", "roll_forward"}}
    \cup {WithCalendar(Weekly(Fixed(z), 1, w), "skip", WorkWeek) :
        z \in {-2, 3}, w \in {1, 6}}
    \cup SaturdayOnce \cup NoWorkInReach

PlainSchedules == EverydaySchedules \cup CalendarSchedules

\* What the proofs of previews are about: the plain schedules but for those
\* whose clocks change, the monthly ones from days that every month has.
ASSUME SteadyRulesAreRegular ==
    \A s \in PlainSchedules : Steady(s.zone) =>
        IF s.type = "monthly_at" THEN MonthlyRule(s) ELSE RegularRule(s)

\* East of UTC, and at midnight: the change leaves out clock 1, or 0, of day 5.
SpringEast == [transition |-> 20, before |-> 1, after |-> 2]
Midnight == [transition |-> 22, before |-> -2, after |-> -1]

\* Clocks that the change leaves out on day 5, a Tuesday
GapSchedules ==
    {Daily(Spring, 1), Daily(SpringEast, 1), Daily(Midnight, 0)}
    \cup {Weekly(Spring, 1, 2)} \cup {Weekly(Midnight, 0, w) : w \in 1..3}

\* A closure of two weeks, so that the occurrences of both roll to one day
TwoWeeksClosed == [weekly |-> 1..5, holidays |-> {}, open |-> {}, closed |-> 8..21]
RollingSchedules ==
    {WithCalendar(Weekly(Fixed(0), 1, w), "roll_forward", c) :
        w \in {1, 6}, c \in {WorkWeek, TwoWeeksClosed}}

MonthEndSchedules == {MonthlyOn(Fixed(0), 1, d) : d \in {1, 31}}

EverySchedule == PlainSchedules \cup GapSchedules \cup RollingSchedules \cup MonthEndSchedules

\* All of January; and its last days, from which nextMonthly may leave out
\* the month after it
MonthOfStarts == 4..127
LateStarts == 108..127
=============================================================================
