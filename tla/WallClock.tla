------------------------------ MODULE WallClock ------------------------------
(***************************************************************************)
(* Civil time as Go's time package computes it, for one time zone with at  *)
(* most one change of its UTC offset.  An instant is a number of units     *)
(* since an epoch, 0 the zero time; a day has DayLength units, counted     *)
(* from the epoch; the calendar is the sequence of its months' lengths.    *)
(* A zone is a record [transition, before, after]: the instant at which    *)
(* its offset changes and the two offsets.                                 *)
(***************************************************************************)
EXTENDS Integers, Sequences

CONSTANTS DayLength,      \* units of a day
          MonthLengths,   \* days of each month from the epoch on
          FirstWeekday    \* weekday of day 0, 0 for Sunday

ASSUME WallClockAssumption ==
    /\ DayLength \in Nat \ {0}
    /\ MonthLengths \in Seq(Nat \ {0})
    /\ FirstWeekday \in 0..6

ZeroTime == 0

Months == 1..Len(MonthLengths)
MonthStart[m \in 1..(Len(MonthLengths) + 1)] ==
    IF m = 1 THEN 0 ELSE MonthStart[m - 1] + MonthLengths[m - 1]
LastDay == MonthStart[Len(MonthLengths) + 1] - 1

MonthOf(day) == CHOOSE m \in Months : MonthStart[m] <= day /\ day < MonthStart[m + 1]
MonthDay(day) == day - MonthStart[MonthOf(day)] + 1
Weekday(day) == (day + FirstWeekday) % 7

(* Location.lookup *)
Offset(zone, t) == IF t < zone.transition THEN zone.before ELSE zone.after

(* Time.In, Time.Date and Time.Clock *)
LocalDay(zone, t) == (t + Offset(zone, t)) \div DayLength
LocalClock(zone, t) == (t + Offset(zone, t)) % DayLength

(* time.Date: the offset is looked up at the wall clock taken for UTC, and *)
(* once more when the instant found is on the other side of the change.    *)
(* A wall clock the change skips is moved by the width of the gap, one way *)
(* or the other; one that occurs twice is taken once.                      *)
Date(zone, day, clock) ==
    LET wall == day * DayLength + clock
        guess == Offset(zone, wall)
        utc == wall - guess
        sameSide == (utc < zone.transition) <=> (wall < zone.transition)
    IN  IF guess = 0 \/ sameSide THEN utc ELSE wall - Offset(zone, utc)

(* Time.AddDate by days, and by months: the month's day may overflow into  *)
(* the month after it.                                                     *)
AddDays(zone, t, n) == Date(zone, LocalDay(zone, t) + n, LocalClock(zone, t))
AddMonths(zone, t, n) ==
    LET day == LocalDay(zone, t)
    IN  Date(zone, MonthStart[MonthOf(day) + n] + MonthDay(day) - 1, LocalClock(zone, t))

(* The wall clock exists on that local day. *)
ClockExists(zone, day, clock) ==
    \E offset \in {zone.before, zone.after} :
        LET t == day * DayLength + clock - offset IN Offset(zone, t) = offset
=============================================================================
