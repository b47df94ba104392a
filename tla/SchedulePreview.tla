---------------------------- MODULE SchedulePreview ----------------------------
(***************************************************************************)
(* PreviewSchedule: the walk from an instant over the next occurrences of  *)
(* a schedule, one attempt at a time, until enough executable ones are     *)
(* found or the attempts are used up.                                      *)
(***************************************************************************)
EXTENDS Misfire, SequencesExt

CONSTANTS Schedules,      \* the schedules previewed
          Starts,         \* the instants previewed from
          Requests,       \* the counts asked for
          PreviewLimit    \* maximumPreviewCount

ASSUME PreviewAssumption ==
    /\ PreviewLimit \in Nat \ {0} /\ SearchDays \in Nat \ {0}
    /\ Requests \subseteq Int /\ Starts \subseteq Nat
    /\ \A s \in Schedules : ValidSchedule(s)

VARIABLES schedule, after, count, cursor, attempts, result, status
vars == <<schedule, after, count, cursor, attempts, result, status>>

Clamped(request) ==
    CASE request < 1 -> 1 [] request > PreviewLimit -> PreviewLimit [] OTHER -> request

Init ==
    /\ schedule \in Schedules /\ after \in Starts
    /\ count \in {Clamped(request) : request \in Requests}
    /\ cursor = after /\ attempts = 0 /\ result = <<>> /\ status = "searching"

Searching == status = "searching" /\ Len(result) < count /\ attempts < SearchDays

(* One turn of the loop; no next occurrence ends it. *)
Attempt ==
    LET next == NextSchedule(schedule, cursor) IN
    /\ Searching /\ next # ZeroTime
    /\ cursor' = next /\ attempts' = attempts + 1
    /\ result' = IF SkipsOccurrence(schedule, next) THEN result ELSE Append(result, next)
    /\ UNCHANGED <<schedule, after, count, status>>

(* Too few occurrences are an error, whatever was found. *)
Return ==
    /\ status = "searching"
    /\ ~Searching \/ NextSchedule(schedule, cursor) = ZeroTime
    /\ status' = IF Len(result) < count THEN "failed" ELSE "returned"
    /\ UNCHANGED <<schedule, after, count, cursor, attempts, result>>

Step == Attempt \/ Return
PreviewSpec == Init /\ [][Step]_vars

-----------------------------------------------------------------------------

(* Nothing is lost or moved on the way from the start: a monthly rule and  *)
(* its start are on days that every month has; of others no occurrence is  *)
(* pending, every day has the schedule's clock, and is reached from the    *)
(* start.  NextIsFirstUnlessLost says what happens otherwise.              *)
Unbroken ==
    LET zone == schedule.zone
        today == LocalDay(zone, after)
    IN  IF schedule.type = "monthly_at"
        THEN InEveryMonth(schedule.monthDay) /\ InEveryMonth(MonthDay(today))
        ELSE /\ NonePending(schedule, after)
             /\ \A d \in today..(LocalDay(zone, cursor) + 1) :
                    /\ ClockExists(zone, d, schedule.clock)
                    /\ LocalDay(zone, AddDays(zone, after, d - today)) = d

(* Such a preview leaves out no executable occurrence, invents none and    *)
(* gives each once: it is the schedule's occurrences after the start in    *)
(* order, without those on days without work.                              *)
PreviewIsExact ==
    Unbroken /\ schedule.type # "interval" =>
        /\ \A i \in 1..(Len(result) - 1) : result[i] < result[i + 1]
        /\ ToSet(result) = {t \in OccurrencesBetween(schedule, after, cursor) :
                               WorkingDay(schedule.calendar, LocalDay(schedule.zone, t))}

(* A weekly rule that rolls forward may have two occurrences in a window.  *)
RollsIntoNoWindow == schedule.policy = "roll_forward" => schedule.type = "daily_at"

(* Two occurrences of such a preview are never in one window: a run store  *)
(* that keys runs by WindowSuffix runs each of them.                       *)
OneOccurrencePerWindow ==
    Unbroken /\ RollsIntoNoWindow =>
        \A i, j \in 1..Len(result) :
            WindowKey(schedule, result[i]) = WindowKey(schedule, result[j]) => i = j

(* The occurrence computed from a cursor is the first aligned one after    *)
(* it: NextAfter, asked at its own cursor, skips none.                     *)
NextIsFirst(next) == OccurrencesBetween(schedule, cursor, next) = {next}

NextIsFirstAligned ==
    LET next == NextAfter(schedule, cursor, cursor)
    IN  status = "searching" /\ next # ZeroTime => NextIsFirst(next)

(* The rule names the day n days ahead, and its occurrence is to come.     *)
Ahead(s, t, n) ==
    LET day == LocalDay(s.zone, t) + n
    IN  /\ OnRule(s, day) /\ OccurrenceOn(s, day) > t
        /\ LocalDay(s.zone, OccurrenceOn(s, day)) = day

(* The first named day ahead is n days from now, and AddDate counts so far. *)
FirstAhead(s, t, n) ==
    /\ Ahead(s, t, n) /\ \A m \in 0..(n - 1) : ~Ahead(s, t, m)
    /\ LocalDay(s.zone, AddDays(s.zone, t, n)) = LocalDay(s.zone, t) + n

(* The code arrives at the day of the next occurrence: it is today; or     *)
(* tomorrow, and today's occurrence, which it is counted from, has kept    *)
(* its clock; or the first of the coming seven that the rule names, and    *)
(* now's clock exists on it; or in the month that AddDate(0, 1, 0) is in.  *)
ReachesNext(s, t) ==
    LET today == LocalDay(s.zone, t)
    IN  \/ /\ s.type = "daily_at"
           /\ \/ Ahead(s, t, 0)
              \/ Ahead(s, t, 1) /\ LocalClock(s.zone, OccurrenceOn(s, today)) = s.clock
        \/ s.type = "weekly_at" /\ \E n \in 0..7 : FirstAhead(s, t, n)
        \/ /\ s.type = "monthly_at"
           /\ \/ \E n \in 0..(MonthStart[MonthOf(today) + 1] - today - 1) : Ahead(s, t, n)
              \/ MonthOf(LocalDay(s.zone, AddMonths(s.zone, t, 1))) = MonthOf(today) + 1

(* An occurrence that is on its way to an open day comes no earlier.       *)
ForgetsNoRoll(s, t, next) ==
    \/ NonePending(s, t)
    \/ \A d \in LocalDay(s.zone, t)..(LocalDay(s.zone, next) - 1) :
           WorkingDay(s.calendar, d) => OccurrenceOn(s, d) <= t

(* An occurrence is lost, moved or repeated exactly in these cases: after  *)
(* a clock that a change of the clocks skips (time.Date moves it, and the  *)
(* days counted from it keep the moved clock or fall short), in the last   *)
(* days of a month before a shorter one, and while an occurrence is on its *)
(* way to an open day.  In every other the next one is the first aligned.  *)
NextIsFirstUnlessLost ==
    LET next == NextAfter(schedule, cursor, cursor)
    IN  status = "searching" /\ next # ZeroTime /\ schedule.type # "interval" =>
            (NextIsFirst(next) <=>
                 ReachesNext(schedule, cursor) /\ ForgetsNoRoll(schedule, cursor, next))

(* The previews of which these are proved: of a regular rule, from an      *)
(* instant of the epoch at which no occurrence is on its way to an open    *)
(* day.                                                                    *)
RegularPreview ==
    /\ RegularRule(schedule) /\ schedule.type # "once"
    /\ NonePending(schedule, after) /\ LocalDay(schedule.zone, after) >= 0

(* Monthly ones: of a day of every month, from such a day, and with months *)
(* left in the calendar to search.                                         *)
MonthlyPreview ==
    /\ MonthlyRule(schedule) /\ LocalDay(schedule.zone, after) \in 0..LastDay
    /\ InEveryMonth(MonthDay(LocalDay(schedule.zone, after)))

WithinCalendar ==
    schedule.type = "monthly_at" /\ status = "searching"
        => MonthFollows(LocalDay(schedule.zone, cursor))
=============================================================================
