-------------------------- MODULE PreviewAndPlanProofs --------------------------
(***************************************************************************)
(* Proofs about the two users of the recurrence rules next to the clock.   *)
(* SchedulePreview, for every set of schedules, starts and counts: a       *)
(* preview of a regular rule, from any instant, is exact.  PlanValidation, *)
(* for every plan a product may write and every bound: an accepted plan    *)
(* runs as it is meant and never stays due.                                *)
(***************************************************************************)
EXTENDS SchedulePreview, PlanValidation, RecurrenceProofs

-----------------------------------------------------------------------------
(* Previews *)

(* How far two occurrences of the schedule are apart                       *)
Gap == IF schedule.type = "interval" THEN schedule.interval ELSE 1

(* What has been found are the working ones of the occurrences up to the   *)
(* cursor, in order.                                                       *)
Found ==
    /\ \A i \in 1..Len(result) : IsOccurrence(schedule, result[i]) /\ Working(schedule, result[i])
                                    /\ after < result[i]
    /\ \A t \in Int :
        after < t /\ t <= cursor /\ IsOccurrence(schedule, t) /\ Working(schedule, t)
            => \E i \in 1..Len(result) : t = result[i]

OnADayOfEveryMonth(t) ==
    LET day == LocalDay(schedule.zone, t)
    IN  day \in 0..LastDay /\ InEveryMonth(MonthDay(day))

PreviewInvariant ==
    /\ schedule \in Schedules /\ after \in Nat /\ cursor \in Nat /\ after <= cursor
    /\ result \in Seq(Int)
    /\ \A i, j \in 1..Len(result) : i < j => result[i] + Gap <= result[j]
    /\ \A i \in 1..Len(result) : result[i] <= cursor
    /\ NonePending(schedule, cursor)
    /\ schedule.type # "interval" => Found
    /\ schedule.type = "monthly_at" => OnADayOfEveryMonth(cursor)

Previewed == RegularPreview \/ MonthlyPreview

LEMMA PreviewedRules ==
    ASSUME Previewed, schedule \in Schedules
    PROVE  /\ ValidSchedule(schedule) /\ SearchDays \in Nat /\ Steady(schedule.zone)
           /\ schedule.type # "interval" => schedule.clock \in Clocks
           /\ schedule.type \in {"interval", "daily_at", "weekly_at", "monthly_at"}
           /\ schedule.type # "once" /\ Gap \in Nat \ {0}
           /\ RegularPreview => RegularRule(schedule) /\ schedule.type # "monthly_at"
           /\ MonthlyPreview => MonthlyRule(schedule) /\ schedule.type = "monthly_at"
<1>1. /\ RegularPreview => RegularRule(schedule) /\ schedule.type # "once"
      /\ MonthlyPreview => MonthlyRule(schedule)
  BY DEF RegularPreview, MonthlyPreview
<1>2. /\ ValidSchedule(schedule) /\ Steady(schedule.zone)
      /\ schedule.type # "interval" => schedule.clock \in Clocks
      /\ schedule.type \in {"interval", "daily_at", "weekly_at", "monthly_at"}
      /\ schedule.type = "interval" => schedule.interval \in Int
      /\ RegularPreview => schedule.type # "monthly_at"
      /\ MonthlyPreview => schedule.type = "monthly_at"
  BY <1>1 DEF RegularRule, MonthlyRule, Previewed
<1>3. Gap \in Nat \ {0}
  BY <1>2, ValidSchedules DEF Gap
<1> QED BY <1>1, <1>2, <1>3, PreviewAssumption

(* One turn of the loop goes to the next occurrence.                       *)
LEMMA NextIsReached ==
    ASSUME Previewed, PreviewInvariant, WithinCalendar, status = "searching",
           NextSchedule(schedule, cursor) # ZeroTime
    PROVE  LET next == NextSchedule(schedule, cursor)
           IN  /\ next \in Nat /\ cursor + Gap <= next /\ NonePending(schedule, next)
               /\ schedule.type = "monthly_at" => OnADayOfEveryMonth(next)
               /\ schedule.type # "interval" =>
                    /\ IsOccurrence(schedule, next)
                    /\ \A t \in Int : cursor < t /\ t < next => ~IsOccurrence(schedule, t)
<1> DEFINE next == NextSchedule(schedule, cursor)
<1>0. /\ schedule \in Schedules /\ after \in Nat /\ cursor \in Nat /\ after <= cursor
      /\ NonePending(schedule, cursor)
  BY DEF PreviewInvariant
<1>1. /\ ValidSchedule(schedule) /\ SearchDays \in Nat /\ Steady(schedule.zone)
      /\ schedule.type \in {"interval", "daily_at", "weekly_at", "monthly_at"}
      /\ Gap \in Nat \ {0}
      /\ schedule.type # "monthly_at" => RegularPreview /\ RegularRule(schedule)
      /\ schedule.type = "monthly_at" => MonthlyRule(schedule)
  BY <1>0, PreviewedRules DEF Previewed
<1>2. CASE schedule.type = "interval"
  <2>1. schedule.calendar = NoCalendar
    BY <1>1, <1>2, ValidSchedules
  <2>2. next = cursor + schedule.interval
    BY <1>2, <2>1 DEF NextSchedule, Next
  <2>3. Gap = schedule.interval
    BY <1>2 DEF Gap
  <2>4. NonePending(schedule, next)
    BY <1>2 DEF NonePending
  <2> QED BY <1>0, <1>1, <1>2, <2>2, <2>3, <2>4
<1>3. CASE schedule.type \in {"daily_at", "weekly_at"}
  <2>1. LocalDay(schedule.zone, cursor) \in Nat
    BY <1>0, <1>1, <1>3, DaysOfTheEpoch DEF RegularPreview
  <2>2. /\ next \in Int /\ next > cursor /\ IsOccurrence(schedule, next)
        /\ \A t \in Int : cursor < t /\ t < next => ~IsOccurrence(schedule, t)
    BY <1>0, <1>1, <1>3, <2>1, NextOnTheClock
  <2>3. Gap = 1
    BY <1>3 DEF Gap
  <2>4. NonePending(schedule, next)
    BY <1>1, <1>3, <2>2, NothingPending
  <2> QED BY <1>0, <1>3, <2>2, <2>3, <2>4
<1>4. CASE schedule.type = "monthly_at"
  <2>1. MonthFollows(LocalDay(schedule.zone, cursor))
    BY <1>4 DEF WithinCalendar
  <2>2. InEveryMonth(MonthDay(LocalDay(schedule.zone, cursor)))
    BY <1>4 DEF PreviewInvariant, OnADayOfEveryMonth
  <2>3. /\ next \in Int /\ next > cursor /\ IsOccurrence(schedule, next)
        /\ LocalDay(schedule.zone, next) \in 0..LastDay
        /\ MonthDay(LocalDay(schedule.zone, next)) = schedule.monthDay
        /\ \A t \in Int : cursor < t /\ t < next => ~IsOccurrence(schedule, t)
    BY <1>0, <1>1, <1>4, <2>1, <2>2, NextOfAMonth
  <2> HIDE DEF next
  <2>4. OnADayOfEveryMonth(next)
    BY <1>1, <1>4, <2>3 DEF OnADayOfEveryMonth, MonthlyRule
  <2>5. Gap = 1 /\ NonePending(schedule, next)
    BY <1>4 DEF Gap, NonePending
  <2>6. next \in Nat /\ cursor + Gap <= next
    BY <1>0, <2>3, <2>5
  <2> QED BY <2>3, <2>4, <2>5, <2>6 DEF next
<1> QED BY <1>1, <1>2, <1>3, <1>4

LEMMA InitIsPreview == Init /\ Previewed => PreviewInvariant
<1> SUFFICES ASSUME Init, Previewed PROVE PreviewInvariant
  OBVIOUS
<1>1. schedule \in Schedules /\ after \in Nat /\ cursor = after /\ result = <<>>
  BY PreviewAssumption DEF Init
<1>2. result \in Seq(Int) /\ 1..Len(result) = {}
  BY <1>1
<1>3. Found
  BY <1>1, <1>2 DEF Found
<1>4. NonePending(schedule, cursor)
  <2>1. CASE RegularPreview
    BY <1>1, <2>1 DEF RegularPreview
  <2>2. CASE MonthlyPreview
    BY <2>2 DEF MonthlyPreview, MonthlyRule, NonePending
  <2> QED BY <2>1, <2>2 DEF Previewed
<1>5. schedule.type = "monthly_at" => OnADayOfEveryMonth(cursor)
  BY <1>1, PreviewedRules DEF Previewed, MonthlyPreview, OnADayOfEveryMonth
<1> QED BY <1>1, <1>2, <1>3, <1>4, <1>5 DEF PreviewInvariant

LEMMA AttemptKeepsPreview ==
    ASSUME Previewed, WithinCalendar, PreviewInvariant, Attempt
    PROVE  PreviewInvariant'
<1> DEFINE next == NextSchedule(schedule, cursor)
           found == IF SkipsOccurrence(schedule, next) THEN result ELSE Append(result, next)
<1>0. /\ schedule \in Schedules /\ after \in Nat /\ cursor \in Nat /\ after <= cursor
      /\ result \in Seq(Int)
      /\ \A i, j \in 1..Len(result) : i < j => result[i] + Gap <= result[j]
      /\ \A i \in 1..Len(result) : result[i] <= cursor
      /\ schedule.type # "interval" => Found
  BY DEF PreviewInvariant
<1>1. /\ schedule' = schedule /\ after' = after /\ next # ZeroTime
      /\ cursor' = next /\ result' = found /\ status = "searching"
  BY DEF Attempt, Searching
<1>2. /\ next \in Nat /\ cursor + Gap <= next /\ Gap \in Nat \ {0}
      /\ NonePending(schedule, next)
      /\ schedule.type = "monthly_at" => OnADayOfEveryMonth(next)
      /\ schedule.type # "interval" =>
           /\ IsOccurrence(schedule, next)
           /\ \A t \in Int : cursor < t /\ t < next => ~IsOccurrence(schedule, t)
  BY <1>0, <1>1, NextIsReached, PreviewedRules
<1>3. Gap' = Gap
  BY <1>1 DEF Gap
<1>4. SkipsOccurrence(schedule, next) <=> ~Working(schedule, next)
  <2>1. ValidSchedule(schedule) /\ SearchDays \in Nat
    BY <1>0, PreviewedRules
  <2>2. Rolled(schedule, next)
    BY <2>1, NextIsRolled
  <2>3. SkipsOccurrence(schedule, next) => ~Working(schedule, next)
    BY <1>1, <2>1, NonWorkingOccurrences DEF SkipsOccurrence, Working
  <2> HIDE DEF next
  <2> QED BY <1>1, <2>1, <2>2, <2>3, UnskippedIsWorking
<1> HIDE DEF next
<1>5. schedule'.type = "monthly_at" => OnADayOfEveryMonth(cursor)'
  BY <1>1, <1>2 DEF OnADayOfEveryMonth
<1>6. CASE SkipsOccurrence(schedule, next)
  <2>1. result' = result
    BY <1>1, <1>6
  <2>2. ASSUME schedule.type # "interval", Found PROVE Found'
    BY <1>0, <1>1, <1>2, <1>4, <1>6, <2>1, <2>2 DEF Found, Working
  <2>3. \A i \in 1..Len(result) : result[i] <= next
    BY <1>0, <1>2
  <2> QED BY <1>0, <1>1, <1>2, <1>3, <1>5, <2>1, <2>2, <2>3 DEF PreviewInvariant
<1>7. CASE ~SkipsOccurrence(schedule, next)
  <2>1. result' = Append(result, next)
    BY <1>1, <1>7
  <2>2. /\ result' \in Seq(Int) /\ Len(result') = Len(result) + 1 /\ Len(result) \in Nat
        /\ \A i \in 1..Len(result) : result'[i] = result[i] /\ result[i] \in Int
        /\ result'[Len(result) + 1] = next
    BY <1>0, <1>2, <2>1
  <2>3. ASSUME schedule.type # "interval", Found PROVE Found'
    <3>1. ASSUME NEW i \in 1..Len(result')
          PROVE  IsOccurrence(schedule, result'[i]) /\ Working(schedule, result'[i])
                    /\ after < result'[i]
      <4>1. CASE i \in 1..Len(result)
        BY <2>2, <2>3, <4>1 DEF Found
      <4>2. CASE i = Len(result) + 1
        BY <1>0, <1>2, <1>4, <1>7, <2>2, <2>3, <4>2
      <4> QED BY <2>2, <3>1, <4>1, <4>2
    <3>2. ASSUME NEW t \in Int, after < t, t <= next, IsOccurrence(schedule, t),
                 Working(schedule, t)
          PROVE  \E i \in 1..Len(result') : t = result'[i]
      <4>1. CASE t <= cursor
        <5>1. PICK i \in 1..Len(result) : t = result[i]
          BY <2>3, <3>2, <4>1 DEF Found
        <5> QED BY <2>2, <5>1
      <4>2. CASE t = next
        BY <2>2, <4>2
      <4>3. CASE cursor < t /\ t < next
        BY <1>2, <2>3, <3>2, <4>3
      <4> QED BY <1>0, <1>2, <3>2, <4>1, <4>2, <4>3
    <3> QED BY <1>1, <3>1, <3>2 DEF Found, Working
  <2>4. ASSUME NEW i \in 1..Len(result'), NEW j \in 1..Len(result'), i < j
        PROVE  result'[i] + Gap <= result'[j]
    <3>1. i \in 1..Len(result)
      BY <2>2, <2>4
    <3>2. CASE j \in 1..Len(result)
      BY <1>0, <2>2, <2>4, <3>1, <3>2
    <3>3. CASE j = Len(result) + 1
      <4>1. result'[i] <= cursor /\ result'[i] \in Int /\ result'[j] = next
        BY <1>0, <2>2, <3>1, <3>3
      <4> QED BY <1>0, <1>2, <4>1
    <3> QED BY <2>2, <2>4, <3>2, <3>3
  <2>5. ASSUME NEW i \in 1..Len(result') PROVE result'[i] <= next
    <3>1. CASE i \in 1..Len(result)
      <4>1. result'[i] <= cursor /\ result'[i] \in Int
        BY <1>0, <2>2, <3>1
      <4> QED BY <1>0, <1>2, <4>1
    <3>2. CASE i = Len(result) + 1
      BY <1>2, <2>2, <3>2
    <3> QED BY <2>2, <2>5, <3>1, <3>2
  <2>6. after <= next
    BY <1>0, <1>2
  <2> QED BY <1>0, <1>1, <1>2, <1>3, <1>5, <2>2, <2>3, <2>4, <2>5, <2>6 DEF PreviewInvariant
<1> QED BY <1>6, <1>7

LEMMA StepKeepsPreview ==
    ASSUME Previewed, WithinCalendar, PreviewInvariant, [Step]_vars
    PROVE  PreviewInvariant'
<1>1. ASSUME UNCHANGED <<schedule, after, cursor, result>> PROVE PreviewInvariant'
  BY <1>1 DEF PreviewInvariant, Found, Gap, Working, OnADayOfEveryMonth
<1>2. CASE Attempt
  BY <1>2, AttemptKeepsPreview
<1>3. CASE Return
  BY <1>1, <1>3 DEF Return
<1>4. CASE UNCHANGED vars
  BY <1>1, <1>4 DEF vars
<1> QED BY <1>2, <1>3, <1>4 DEF Step

(* A preview keeps its schedule and its start.                             *)
LEMMA PreviewsStay ==
    ASSUME [Step]_vars
    PROVE  (RegularPreview' <=> RegularPreview) /\ (MonthlyPreview' <=> MonthlyPreview)
<1>1. schedule' = schedule /\ after' = after
  BY DEF Step, Attempt, Return, vars
<1> QED BY <1>1 DEF RegularPreview, MonthlyPreview

LEMMA PreviewsAreInvariant == PreviewSpec => [](RegularPreview => PreviewInvariant)
<1>1. Init => (RegularPreview => PreviewInvariant)
  BY InitIsPreview DEF Previewed
<1>2. (RegularPreview => PreviewInvariant) /\ [Step]_vars
        => (RegularPreview => PreviewInvariant)'
  <2> SUFFICES ASSUME RegularPreview => PreviewInvariant, [Step]_vars, RegularPreview'
               PROVE  PreviewInvariant'
    OBVIOUS
  <2>1. RegularPreview
    BY PreviewsStay
  <2>2. WithinCalendar
    BY <2>1 DEF WithinCalendar, RegularPreview, RegularRule
  <2> QED BY <2>1, <2>2, StepKeepsPreview DEF Previewed
<1> QED BY <1>1, <1>2, PTL DEF PreviewSpec

LEMMA MonthlyPreviewsAreInvariant ==
    PreviewSpec /\ []WithinCalendar => [](MonthlyPreview => PreviewInvariant)
<1>1. Init => (MonthlyPreview => PreviewInvariant)
  BY InitIsPreview DEF Previewed
<1>2. (MonthlyPreview => PreviewInvariant) /\ WithinCalendar /\ [Step]_vars
        => (MonthlyPreview => PreviewInvariant)'
  BY PreviewsStay, StepKeepsPreview DEF Previewed
<1> QED BY <1>1, <1>2, PTL DEF PreviewSpec

-----------------------------------------------------------------------------

LEMMA InvariantIsExact == Previewed /\ PreviewInvariant => PreviewIsExact
<1> SUFFICES ASSUME Previewed, PreviewInvariant, schedule.type # "interval"
             PROVE  /\ \A i \in 1..(Len(result) - 1) : result[i] < result[i + 1]
                    /\ ToSet(result) = {t \in OccurrencesBetween(schedule, after, cursor) :
                           WorkingDay(schedule.calendar, LocalDay(schedule.zone, t))}
  BY DEF PreviewIsExact
<1>0. /\ schedule \in Schedules /\ after \in Nat /\ cursor \in Nat
      /\ result \in Seq(Int) /\ Found
      /\ \A i, j \in 1..Len(result) : i < j => result[i] + Gap <= result[j]
      /\ \A i \in 1..Len(result) : result[i] <= cursor
  BY DEF PreviewInvariant
<1>1. Steady(schedule.zone) /\ schedule.clock \in Clocks /\ Gap \in Nat \ {0}
  BY <1>0, PreviewedRules
<1>2. Len(result) \in Nat /\ DOMAIN result = 1..Len(result)
      /\ \A i \in 1..Len(result) : result[i] \in Int
  BY <1>0
<1>3. ASSUME NEW i \in 1..(Len(result) - 1) PROVE result[i] < result[i + 1]
  <2>1. i \in 1..Len(result) /\ i + 1 \in 1..Len(result) /\ i < i + 1
    BY <1>2
  <2>2. result[i] + Gap <= result[i + 1] /\ result[i] \in Int /\ result[i + 1] \in Int
    BY <1>0, <1>2, <2>1
  <2> QED BY <1>1, <2>2
<1>4. OccurrencesBetween(schedule, after, cursor)
        = {t \in (after + 1)..cursor : IsOccurrence(schedule, t)}
  BY <1>0, <1>1, OccurrencesAre
<1>5. ASSUME NEW t
      PROVE  t \in ToSet(result) <=> /\ t \in (after + 1)..cursor /\ IsOccurrence(schedule, t)
                                     /\ Working(schedule, t)
  <2>1. t \in ToSet(result) <=> \E i \in 1..Len(result) : t = result[i]
    BY <1>2 DEF ToSet
  <2>2. ASSUME NEW i \in 1..Len(result), t = result[i]
        PROVE  /\ t \in (after + 1)..cursor /\ IsOccurrence(schedule, t)
               /\ Working(schedule, t)
    BY <1>0, <1>2, <2>2 DEF Found
  <2>3. ASSUME t \in (after + 1)..cursor, IsOccurrence(schedule, t), Working(schedule, t)
        PROVE  \E i \in 1..Len(result) : t = result[i]
    <3>1. t \in Int /\ after < t /\ t <= cursor
      BY <1>0, <2>3
    <3> QED BY <1>0, <2>3, <3>1 DEF Found
  <2> QED BY <2>1, <2>2, <2>3
<1>6. ToSet(result) = {t \in OccurrencesBetween(schedule, after, cursor) :
                          WorkingDay(schedule.calendar, LocalDay(schedule.zone, t))}
  BY <1>4, <1>5 DEF Working
<1> QED BY <1>3, <1>6

(* Occurrences of one rule in one window are one: a day has one of a daily *)
(* rule, a week one of a weekly rule, an interval is as long as a window.  *)
LEMMA WindowsAreApart ==
    ASSUME Previewed, RollsIntoNoWindow, schedule \in Schedules,
           NEW t \in Int, NEW u \in Int, t + Gap <= u,
           schedule.type = "monthly_at" => /\ LocalDay(schedule.zone, t) \in 0..LastDay
                                           /\ LocalDay(schedule.zone, u) \in 0..LastDay,
           schedule.type # "interval" =>
               IsOccurrence(schedule, t) /\ IsOccurrence(schedule, u)
    PROVE  WindowKey(schedule, t) # WindowKey(schedule, u)
<1>0. /\ ValidSchedule(schedule) /\ Steady(schedule.zone)
      /\ schedule.type # "interval" => schedule.clock \in Clocks
      /\ schedule.type \in {"interval", "daily_at", "weekly_at", "monthly_at"}
      /\ Gap \in Nat \ {0}
      /\ schedule.policy = "roll_forward" => schedule.type = "daily_at"
      /\ schedule.type = "monthly_at" => MonthlyRule(schedule)
  BY PreviewedRules DEF RollsIntoNoWindow, Previewed
<1>1. CASE schedule.type = "interval"
  <2> DEFINE n == schedule.interval
  <2>1. Gap = n
    BY <1>1 DEF Gap
  <2>2. n \in Nat \ {0} /\ t + n <= u
    BY <1>0, <2>1
  <2>3. WindowKey(schedule, t) = t \div n /\ WindowKey(schedule, u) = u \div n
    BY <1>1 DEF WindowKey
  <2> HIDE DEF n
  <2>4. t \div n \in Int /\ t % n \in 0..(n - 1) /\ t = (t \div n) * n + (t % n)
        /\ u \div n \in Int /\ u % n \in 0..(n - 1) /\ u = (u \div n) * n + (u % n)
    BY <2>2, Division
  <2>5. SUFFICES ASSUME t \div n = u \div n PROVE FALSE
    BY <2>3
  <2>6. (t \div n) * n \in Int /\ (t \div n) * n = (u \div n) * n
    BY <2>2, <2>4, <2>5
  <2> QED BY <2>2, <2>4, <2>6
<1>2. CASE schedule.type \in {"daily_at", "weekly_at", "monthly_at"}
  <2>1. PICK d \in Int : OccursOn(schedule, d) /\ t = OccurrenceOn(schedule, d)
    BY <1>2 DEF IsOccurrence
  <2>2. PICK e \in Int : OccursOn(schedule, e) /\ u = OccurrenceOn(schedule, e)
    BY <1>2 DEF IsOccurrence
  <2>3. LocalDay(schedule.zone, t) = d /\ LocalDay(schedule.zone, u) = e
    BY <1>0, <1>2, <2>1, <2>2, SteadyDate DEF OccurrenceOn
  <2>4. d < e
    <3>1. t < u
      BY <1>0
    <3> QED BY <1>0, <1>2, <2>1, <2>2, <3>1, DaysInOrder DEF OccurrenceOn
  <2>5. CASE schedule.type = "daily_at"
    <3>1. WindowKey(schedule, t) = d /\ WindowKey(schedule, u) = e
      BY <2>3, <2>5 DEF WindowKey
    <3> QED BY <2>4, <3>1
  <2>6. CASE schedule.type = "weekly_at"
    <3>1. Weekday(d) = schedule.weekday /\ Weekday(e) = schedule.weekday
      BY <1>0, <2>1, <2>2, <2>6 DEF OccursOn, OnRule
    <3>2. (d + FirstWeekday) % 7 = (e + FirstWeekday) % 7 /\ FirstWeekday \in Int
      BY <3>1, WallClockAssumption DEF Weekday
    <3>3. d + 7 <= e
      BY <2>4, <3>2
    <3>4. WindowKey(schedule, t) = (d + FirstWeekday - 1) \div 7
          /\ WindowKey(schedule, u) = (e + FirstWeekday - 1) \div 7
      BY <2>3, <2>6 DEF WindowKey
    <3> QED BY <3>2, <3>3, <3>4
  <2>7. CASE schedule.type = "monthly_at"
    <3>1. MonthlyRule(schedule) /\ OnRule(schedule, d) /\ OnRule(schedule, e)
          /\ d \in 0..LastDay /\ e \in 0..LastDay
      BY <1>0, <2>1, <2>2, <2>3, <2>7 DEF OccursOn
    <3>2. WindowKey(schedule, t) = MonthOf(d) /\ WindowKey(schedule, u) = MonthOf(e)
      BY <2>3, <2>7 DEF WindowKey
    <3>3. d = RuleDay(schedule, MonthOf(d)) /\ e = RuleDay(schedule, MonthOf(e))
      BY <3>1, RuleDays
    <3> QED BY <2>4, <3>2, <3>3
  <2> QED BY <1>2, <2>5, <2>6, <2>7
<1> QED BY <1>0, <1>1, <1>2

LEMMA InvariantHasWindows ==
    Previewed /\ PreviewInvariant => OneOccurrencePerWindow
<1> SUFFICES ASSUME Previewed, RollsIntoNoWindow, PreviewInvariant,
                    NEW i \in 1..Len(result), NEW j \in 1..Len(result), i # j
             PROVE  WindowKey(schedule, result[i]) # WindowKey(schedule, result[j])
  BY DEF OneOccurrencePerWindow
<1>1. /\ schedule \in Schedules /\ result \in Seq(Int)
      /\ \A k, l \in 1..Len(result) : k < l => result[k] + Gap <= result[l]
      /\ schedule.type # "interval" =>
            \A k \in 1..Len(result) : IsOccurrence(schedule, result[k])
  BY DEF PreviewInvariant, Found
<1>2. result[i] \in Int /\ result[j] \in Int
  BY <1>1
<1>3. ASSUME schedule.type = "monthly_at", NEW k \in 1..Len(result)
      PROVE  LocalDay(schedule.zone, result[k]) \in 0..LastDay
  <2>1. /\ after \in Nat /\ cursor \in Nat /\ after < result[k] /\ result[k] <= cursor
        /\ result[k] \in Int /\ LocalDay(schedule.zone, cursor) \in 0..LastDay
    BY <1>1, <1>3 DEF PreviewInvariant, Found, OnADayOfEveryMonth
  <2>2. Steady(schedule.zone) /\ LocalDay(schedule.zone, after) \in 0..LastDay
    BY <1>1, <1>3, PreviewedRules DEF Previewed, MonthlyPreview
  <2>3. LocalDay(schedule.zone, after) <= LocalDay(schedule.zone, result[k])
        /\ LocalDay(schedule.zone, result[k]) <= LocalDay(schedule.zone, cursor)
        /\ LocalDay(schedule.zone, result[k]) \in Int
    BY <2>1, <2>2, LaterDays
  <2> QED BY <2>1, <2>2, <2>3, LastDayIsOne
<1>4. CASE i < j
  BY <1>1, <1>2, <1>3, <1>4, WindowsAreApart
<1>5. CASE j < i
  BY <1>1, <1>2, <1>3, <1>5, WindowsAreApart
<1> QED BY <1>4, <1>5

LEMMA InvariantIsAligned ==
    Previewed /\ WithinCalendar /\ PreviewInvariant
        => (schedule.type # "interval" => NextIsFirstAligned)
<1> DEFINE next == NextSchedule(schedule, cursor)
<1> SUFFICES ASSUME Previewed, WithinCalendar, PreviewInvariant, status = "searching",
                    schedule.type # "interval", NextAfter(schedule, cursor, cursor) # ZeroTime
             PROVE  OccurrencesBetween(schedule, cursor, NextAfter(schedule, cursor, cursor))
                      = {NextAfter(schedule, cursor, cursor)}
  BY DEF NextIsFirstAligned, NextIsFirst
<1>1. schedule \in Schedules /\ cursor \in Nat
  BY DEF PreviewInvariant
<1>2. /\ Steady(schedule.zone) /\ schedule.clock \in Clocks /\ schedule.type # "once"
      /\ Gap \in Nat \ {0}
  BY <1>1, PreviewedRules
<1>3. NextAfter(schedule, cursor, cursor) = next
  BY <1>2 DEF NextAfter
<1>4. /\ next \in Nat /\ cursor + Gap <= next /\ IsOccurrence(schedule, next)
      /\ \A t \in Int : cursor < t /\ t < next => ~IsOccurrence(schedule, t)
  BY <1>3, NextIsReached
<1> HIDE DEF next
<1>5. OccurrencesBetween(schedule, cursor, next)
        = {t \in (cursor + 1)..next : IsOccurrence(schedule, t)}
  BY <1>1, <1>2, <1>4, OccurrencesAre
<1>6. OccurrencesBetween(schedule, cursor, next) = {next}
  BY <1>1, <1>2, <1>4, <1>5
<1> QED BY <1>3, <1>6

(* Nothing is lost on the way in a steady zone.                            *)
LEMMA PreviewIsUnbroken == Previewed /\ PreviewInvariant => Unbroken
<1> SUFFICES ASSUME Previewed, PreviewInvariant PROVE Unbroken
  OBVIOUS
<1>1. schedule \in Schedules /\ after \in Nat /\ cursor \in Nat
  BY DEF PreviewInvariant
<1>2. Steady(schedule.zone)
  BY <1>1, PreviewedRules
<1>3. CASE MonthlyPreview
  <2>1. schedule.type = "monthly_at"
    BY <1>1, <1>3, PreviewedRules
  <2> QED BY <1>3, <2>1 DEF Unbroken, MonthlyPreview, MonthlyRule
<1>4. CASE RegularPreview
  <2> DEFINE today == LocalDay(schedule.zone, after)
             last == LocalDay(schedule.zone, cursor) + 1
  <2>1. schedule.type # "monthly_at" /\ NonePending(schedule, after)
    BY <1>1, <1>4, PreviewedRules DEF RegularPreview
  <2>2. today \in Int /\ last \in Int
    BY <1>1, <1>2, SteadyLocal
  <2>3. \A d \in today..last : ClockExists(schedule.zone, d, schedule.clock)
    BY <1>2, Zenon DEF ClockExists, Offset, Steady
  <2>4. ASSUME NEW d \in today..last
        PROVE  LocalDay(schedule.zone, AddDays(schedule.zone, after, d - today)) = d
    <3>1. d - today \in Int /\ today + (d - today) = d
      BY <2>2
    <3>2. LocalDay(schedule.zone, AddDays(schedule.zone, after, d - today)) = today + (d - today)
      BY <1>1, <1>2, <3>1, SteadyAddDays
    <3> QED BY <3>1, <3>2
  <2> QED BY <2>1, <2>3, <2>4 DEF Unbroken
<1> QED BY <1>3, <1>4 DEF Previewed

(* In a steady zone the code arrives at the day of the next occurrence.    *)
LEMMA NextIsReachable ==
    ASSUME RegularPreview, PreviewInvariant, schedule.type # "interval"
    PROVE  ReachesNext(schedule, cursor)
<1> DEFINE zone == schedule.zone
           today == LocalDay(zone, cursor)
<1>1. schedule \in Schedules /\ cursor \in Nat
  BY DEF PreviewInvariant
<1>2. /\ Steady(zone) /\ schedule.clock \in Clocks /\ ValidSchedule(schedule)
      /\ schedule.type \in {"daily_at", "weekly_at"}
  BY <1>1, PreviewedRules DEF Previewed
<1>3. today \in Int
  BY <1>1, <1>2, SteadyLocal
<1>4. ASSUME NEW d \in Int
      PROVE  /\ LocalDay(zone, OccurrenceOn(schedule, d)) = d
             /\ LocalClock(zone, OccurrenceOn(schedule, d)) = schedule.clock
             /\ d > today => OccurrenceOn(schedule, d) > cursor
             /\ OccurrenceOn(schedule, d) > cursor => d >= today
  BY <1>1, <1>2, SteadyDate, DaysAround DEF OccurrenceOn
<1>5. CASE schedule.type = "daily_at"
  <2>1. LocalClock(zone, OccurrenceOn(schedule, today)) = schedule.clock
    BY <1>3, <1>4
  <2>2. OnRule(schedule, today + 1)
    BY <1>5 DEF OnRule
  <2>3. today + 1 \in Int /\ today + 1 > today
    BY <1>3
  <2>4. Ahead(schedule, cursor, 1)
    BY <1>4, <2>2, <2>3 DEF Ahead
  <2> QED BY <1>5, <2>1, <2>4 DEF ReachesNext
<1>6. CASE schedule.type = "weekly_at"
  <2>0. \A d : OnRule(schedule, d) <=> Weekday(d) = schedule.weekday
    BY <1>6 DEF OnRule
  <2>1. PICK d \in Int : /\ OnRule(schedule, d) /\ OccurrenceOn(schedule, d) > cursor
                         /\ \A e \in Int : OnRule(schedule, e)
                               /\ OccurrenceOn(schedule, e) > cursor => d <= e
    <3>1. OnADay(schedule) /\ schedule.weekday \in 0..6 /\ cursor \in Int
      BY <1>1, <1>2, <1>6 DEF OnADay, ValidSchedule
    <3>2. \E d \in Int : /\ Weekday(d) = schedule.weekday
                         /\ OccurrenceOn(schedule, d) > cursor
                         /\ \A e \in Int : Weekday(e) = schedule.weekday
                               /\ OccurrenceOn(schedule, e) > cursor => d <= e
      BY <1>6, <3>1, NextWeeklyIsFirst
    <3> QED BY <2>0, <3>2
  <2> DEFINE n == d - today
  <2>2. n \in Int /\ today + n = d
    BY <1>3
  <2>3. n \in 0..7
    <3>1. schedule.weekday \in 0..6
      BY <1>2, <1>6 DEF ValidSchedule
    <3>2. PICK k \in 0..6 : Weekday(today + k) = schedule.weekday
      BY <1>3, <3>1, WeekdaysReturn
    <3>3. k = 0 => Weekday(today + 7) = schedule.weekday
      BY <1>3, <3>1, <3>2, WeekdaysReturn
    <3>4. PICK l \in 1..7 : OnRule(schedule, today + l)
      BY <2>0, <3>2, <3>3
    <3>5. today + l \in Int /\ today + l > today
      BY <1>3
    <3>6. d <= today + l
      BY <1>4, <2>1, <3>4, <3>5
    <3>7. d >= today
      BY <1>4, <2>1
    <3> QED BY <1>3, <2>2, <3>6, <3>7
  <2> HIDE DEF n
  <2>4. Ahead(schedule, cursor, n)
    BY <1>4, <2>1, <2>2 DEF Ahead
  <2>5. ASSUME NEW m \in 0..(n - 1) PROVE ~Ahead(schedule, cursor, m)
    <3>1. today + m \in Int /\ today + m < d
      BY <1>3, <2>2
    <3> QED BY <2>1, <3>1 DEF Ahead
  <2>6. LocalDay(zone, AddDays(zone, cursor, n)) = today + n
    BY <1>1, <1>2, <2>2, SteadyAddDays
  <2>7. FirstAhead(schedule, cursor, n)
    BY <2>4, <2>5, <2>6 DEF FirstAhead
  <2> QED BY <1>6, <2>3, <2>7 DEF ReachesNext
<1> QED BY <1>2, <1>5, <1>6

(* A preview of a regular rule leaves out no executable occurrence,        *)
(* invents none and gives each once, whatever it is asked from and for     *)
(* (PreviewSchedule).                                                      *)
THEOREM PreviewsAreExact ==
    PreviewSpec => [](RegularPreview => Unbroken /\ PreviewIsExact)
<1>1. RegularPreview /\ PreviewInvariant => Unbroken /\ PreviewIsExact
  BY InvariantIsExact, PreviewIsUnbroken DEF Previewed
<1> QED BY <1>1, PreviewsAreInvariant, PTL

(* Two occurrences of such a preview are never in one window of            *)
(* WindowSuffix, but for a weekly rule that rolls forward.                 *)
THEOREM WindowsAreSingle ==
    PreviewSpec => [](RegularPreview => Unbroken /\ OneOccurrencePerWindow)
<1>1. RegularPreview /\ PreviewInvariant => Unbroken /\ OneOccurrencePerWindow
  BY InvariantHasWindows, PreviewIsUnbroken DEF Previewed
<1> QED BY <1>1, PreviewsAreInvariant, PTL

(* NextAfter keeps the promise of its comment, the first aligned           *)
(* occurrence after now, for daily and weekly rules in a steady zone, when *)
(* no weekly occurrence is on its way to an open day at the start: none of *)
(* the cases in which one is lost can arise.                               *)
THEOREM RegularRulesAreAligned ==
    PreviewSpec => [](RegularPreview => /\ NextIsFirstUnlessLost
                                        /\ schedule.type # "interval" => NextIsFirstAligned)
<1>1. RegularPreview /\ PreviewInvariant => (schedule.type # "interval" => NextIsFirstAligned)
  <2>1. RegularPreview => WithinCalendar
    BY DEF WithinCalendar, RegularPreview, RegularRule
  <2> QED BY <2>1, InvariantIsAligned DEF Previewed
<1>2. RegularPreview /\ PreviewInvariant => NextIsFirstUnlessLost
  <2> SUFFICES ASSUME RegularPreview, PreviewInvariant, schedule.type # "interval",
                      status = "searching", NextAfter(schedule, cursor, cursor) # ZeroTime
               PROVE  /\ NextIsFirst(NextAfter(schedule, cursor, cursor))
                      /\ ReachesNext(schedule, cursor)
                      /\ ForgetsNoRoll(schedule, cursor, NextAfter(schedule, cursor, cursor))
    BY DEF NextIsFirstUnlessLost
  <2>1. NextIsFirst(NextAfter(schedule, cursor, cursor))
    BY <1>1 DEF NextIsFirstAligned
  <2>2. ForgetsNoRoll(schedule, cursor, NextAfter(schedule, cursor, cursor))
    BY DEF ForgetsNoRoll, PreviewInvariant
  <2> QED BY <2>1, <2>2, NextIsReachable
<1> QED BY <1>1, <1>2, PreviewsAreInvariant, PTL

(* The preview of a monthly rule is exact too, if the day of the rule and  *)
(* that of the start are in every month: what preview_month_end leaves out *)
(* it leaves out after a day that some month does not have.                *)
THEOREM MonthlyPreviewsAreExact ==
    PreviewSpec /\ []WithinCalendar
        => [](MonthlyPreview => Unbroken /\ PreviewIsExact /\ OneOccurrencePerWindow)
<1>1. MonthlyPreview /\ PreviewInvariant
          => Unbroken /\ PreviewIsExact /\ OneOccurrencePerWindow
  BY InvariantIsExact, InvariantHasWindows, PreviewIsUnbroken DEF Previewed
<1> QED BY <1>1, MonthlyPreviewsAreInvariant, PTL

(* NextAfter leaves out no month of such a rule, while the calendar has    *)
(* a month to follow.                                                      *)
THEOREM MonthlyRulesAreAligned ==
    PreviewSpec /\ []WithinCalendar => [](MonthlyPreview => NextIsFirstAligned)
<1>1. MonthlyPreview /\ WithinCalendar /\ PreviewInvariant => NextIsFirstAligned
  <2>1. MonthlyPreview => schedule.type # "interval"
    BY DEF MonthlyPreview, MonthlyRule
  <2> QED BY <2>1, InvariantIsAligned DEF Previewed
<1> QED BY <1>1, MonthlyPreviewsAreInvariant, PTL
-----------------------------------------------------------------------------
(* Plans: what validation makes sure of *)

LEMMA Texts ==
    /\ NoPolicy # "skip" /\ NoPolicy # "roll_forward" /\ NoPolicy # "catch_up_one"
    /\ NoPolicy # "catch_up_bounded"
BY Zenon DEF NoPolicy

(* What validation makes sure of, field by field                           *)
LEMMA AcceptedFields ==
    ASSUME NEW p, IsPlan(p), Accepts(p)
    PROVE  /\ Trim(p.timezone) \in DOMAIN Locations
           /\ p.type = "none" => p.at \in Nat \ {0}
           /\ p.type # "none" => /\ p.type \in {"once", "interval", "daily_at", "weekly_at"}
                                 /\ RuleZone(p) = Trim(p.timezone) /\ ValidClosedDays(p)
           /\ p.type = "once" => p.instant \in Nat
           /\ p.interval \in Int
           /\ p.type = "interval" => p.interval > 0
           /\ p.type \in {"daily_at", "weekly_at"} => p.clock \in Clocks
           /\ p.type = "weekly_at" => p.weekday \in 0..6
<1>1. ValidZone(p) /\ ValidTrigger(p)
  BY DEF Accepts
<1>2. /\ p.at \in Nat \cup {Nil} /\ p.instant \in Nat \cup {Nil} /\ p.interval \in Int
      /\ p.clock \in Clocks \cup {Nil}
  <2>1. /\ p.at \in FieldValues.at /\ p.instant \in FieldValues.instant
        /\ p.interval \in FieldValues.interval /\ p.clock \in FieldValues.clock
    BY PlansAssumption DEF IsPlan
  <2> QED BY <2>1, PlansAssumption
<1>3. CASE p.type = "none"
  <2>1. p.at \notin {Nil, ZeroTime}
    BY <1>1, <1>3 DEF ValidTrigger
  <2> QED BY <1>1, <1>2, <1>3, <2>1 DEF ZeroTime, ValidZone
<1>4. CASE p.type # "none"
  <2>1. RuleZone(p) = Trim(p.timezone) /\ ValidWhen(p) /\ ValidClosedDays(p)
    BY <1>1, <1>4 DEF ValidTrigger
  <2> QED BY <1>1, <1>2, <1>4, <2>1 DEF ValidWhen, ValidZone
<1> QED BY <1>3, <1>4

LEMMA AcceptedPolicy ==
    ASSUME NEW p, IsPlan(p), Accepts(p)
    PROVE  /\ PolicyType(PolicyOf(p)) /\ PolicyOf(p).misfire # NoPolicy
           /\ Grace(PolicyOf(p)) \in Nat /\ Grace(PolicyOf(p)) <= SearchDays * DayLength
<1>1. ValidPolicy(p)
  BY DEF Accepts
<1>2. p.misfire \in {NoPolicy, "skip", "catch_up_one", "catch_up_bounded"}
      /\ p.max_catchup \in Nat /\ p.grace \in 0..LongestDuration
  BY <1>1, PlansAssumption DEF ValidPolicy
<1>3. /\ PolicyOf(p).grace = p.grace /\ PolicyOf(p).maxCatchup = p.max_catchup
      /\ PolicyOf(p).misfire = IF p.misfire # NoPolicy THEN p.misfire
                               ELSE IF Trim(p.trigger) = "once" THEN "catch_up_one" ELSE "skip"
  BY DEF PolicyOf
<1>4. PolicyType(PolicyOf(p)) /\ PolicyOf(p).misfire # NoPolicy
  BY <1>2, <1>3, Texts DEF PolicyType, MisfirePolicies
<1>5. Grace(PolicyOf(p)) = IF p.grace <= 0 THEN DefaultGrace ELSE p.grace
  BY <1>3 DEF Grace
<1>6. SearchDays * DayLength \in Nat
  BY PlansAssumption, DaysHaveLength
<1> QED BY <1>2, <1>4, <1>5, <1>6, PlansAssumption

LEMMA RuleFields ==
    ASSUME NEW p, NEW zone, NEW closedDays, NEW calendar
    PROVE  LET s == Rule(p, zone, closedDays, calendar)
           IN  /\ s.type = p.type /\ s.zone = zone /\ s.clock = p.clock /\ s.weekday = p.weekday
               /\ s.interval = p.interval /\ s.policy = closedDays /\ s.calendar = calendar
               /\ s.at = IF p.type = "once" THEN p.instant ELSE Start
BY DEF Rule

LEMMA OneTimeFields ==
    ASSUME NEW p
    PROVE  /\ OneTime(p).type = "once" /\ OneTime(p).zone = Locations[Trim(p.timezone)]
           /\ OneTime(p).at = p.at /\ OneTime(p).policy = NoPolicy
           /\ OneTime(p).calendar = NoCalendar /\ OneTime(p).interval = 0
BY DEF OneTime

(* However it is read, an accepted plan goes on in time.                   *)
LEMMA AcceptedIsTimely ==
    ASSUME NEW p, IsPlan(p), Accepts(p), SteadyPlans
    PROVE  Timely(AsRead(p)) /\ AsRead(p).at \in Nat
<1>1. CASE p.type = "none"
  <2>1. AsRead(p) = OneTime(p)
    BY <1>1 DEF AsRead
  <2> QED BY <1>1, <2>1, AcceptedFields, OneTimeFields DEF Timely
<1>2. CASE p.type # "none"
  <2> DEFINE closedDays == IF p.closed_days \in {"skip", "roll_forward"} THEN p.closed_days
                           ELSE NoPolicy
             calendar == IF p.calendar = "none" THEN NoCalendar
                         ELSE IF Calendars[p.calendar].zone \in DOMAIN Locations
                              THEN Calendars[p.calendar].days ELSE Unloadable
             s == Rule(p, Locations[RuleZone(p)], closedDays, calendar)
  <2>1. AsRead(p) = s
    BY <1>2 DEF AsRead
  <2>2. /\ s.type = p.type /\ s.zone = Locations[RuleZone(p)] /\ s.clock = p.clock
        /\ s.weekday = p.weekday /\ s.interval = p.interval /\ s.calendar = calendar
        /\ s.at = IF p.type = "once" THEN p.instant ELSE Start
    BY RuleFields
  <2>3. p.type \in {"once", "interval"} => calendar = NoCalendar
    BY <1>2, AcceptedFields DEF ValidClosedDays
  <2> HIDE DEF s, calendar, closedDays
  <2>4. Steady(s.zone)
    <3>1. RuleZone(p) \in DOMAIN Locations
      BY <1>2, AcceptedFields
    <3> QED BY <2>2, <3>1 DEF SteadyPlans
  <2>5. s.at \in Nat
    BY <2>2, AcceptedFields, PlansAssumption
  <2>6. Timely(s)
    BY <1>2, <2>2, <2>3, <2>4, AcceptedFields DEF Timely, OnADay
  <2> QED BY <2>1, <2>5, <2>6
<1> QED BY <1>1, <1>2

(* Written without spaces it is read as it is meant.                       *)
LEMMA AcceptedIsMeant ==
    ASSUME NEW p, IsPlan(p), Accepts(p), WrittenPlainly(p)
    PROVE  AsRead(p) = Meant(p) /\ (p.type # "none" => ValidSchedule(Meant(p)))
<1>1. CASE p.type = "none"
  BY <1>1 DEF AsRead, Meant
<1>2. CASE p.type # "none"
  <2> DEFINE zone == Locations[Trim(p.timezone)]
             calendar == IF p.calendar = "none" THEN NoCalendar ELSE Calendars[p.calendar].days
             s == Rule(p, zone, p.closed_days, calendar)
  <2>1. Trim(p.closed_days) = p.closed_days
    BY DEF WrittenPlainly, Trim
  <2>2. Meant(p) = s
    BY <1>2, <2>1 DEF Meant
  <2>3. RuleZone(p) = Trim(p.timezone) /\ ValidClosedDays(p) /\ Trim(p.timezone) \in DOMAIN Locations
    BY <1>2, AcceptedFields
  <2>4. /\ s.type = p.type /\ s.weekday = p.weekday /\ s.interval = p.interval
        /\ s.policy = p.closed_days /\ s.calendar = calendar
    BY RuleFields
  <2>5. CASE p.calendar = "none"
    <3>1. p.closed_days = NoPolicy
      BY <2>1, <2>3, <2>5 DEF ValidClosedDays
    <3>2. AsRead(p) = s
      BY <1>2, <2>3, <2>5, <3>1, Texts DEF AsRead
    <3>3. ValidSchedule(s)
      <4> HIDE DEF s
      <4> QED BY <1>2, <2>4, <2>5, <3>1, AcceptedFields DEF ValidSchedule
    <3> QED BY <2>2, <3>2, <3>3
  <2>6. CASE p.calendar # "none"
    <3> DEFINE c == Calendars[p.calendar]
    <3>1. /\ p.type \notin {"once", "interval"} /\ ValidCalendar(c.days)
          /\ Trim(c.zone) = Trim(RuleZone(p)) /\ p.closed_days \in {"skip", "roll_forward"}
      BY <2>1, <2>3, <2>6 DEF ValidClosedDays
    <3>2. Trim(c.zone) = c.zone
      BY <2>6 DEF WrittenPlainly, Trim
    <3>3. Trim(Trim(p.timezone)) = Trim(p.timezone)
      BY PlansAssumption DEF Trim
    <3>4. c.zone \in DOMAIN Locations
      BY <2>3, <3>1, <3>2, <3>3
    <3>5. AsRead(p) = s
      BY <1>2, <2>3, <2>6, <3>1, <3>4 DEF AsRead
    <3>6. calendar # NoCalendar
      <4>1. c.days.weekly # {}
        BY <3>1 DEF ValidCalendar
      <4>2. NoCalendar.weekly = {}
        BY DEF NoCalendar
      <4> QED BY <2>6, <4>1, <4>2
    <3>7. ValidSchedule(s)
      <4> HIDE DEF s
      <4> QED BY <1>2, <2>4, <2>6, <3>1, <3>6, AcceptedFields DEF ValidSchedule
    <3> QED BY <2>2, <3>5, <3>7
  <2> QED BY <2>5, <2>6
<1> QED BY <1>1, <1>2

-----------------------------------------------------------------------------
(* Polls of a plan go on in time *)

PlanInvariant ==
    /\ TypeOK
    /\ answer = "none" => windows = {} /\ now = Start
    /\ answer = "accepted" => Accepts(draft) /\ (ended \/ dueAt # 0)

LEMMA InitIsPlan == PlanInit => PlanInvariant
<1> SUFFICES ASSUME PlanInit PROVE PlanInvariant
  OBVIOUS
<1>1. IsPlan(draft) /\ now \in Start..LastNow
  BY PlansAssumption DEF PlanInit
<1>2. answer = "none" /\ edits \in 0..MaxEdits /\ dueAt \in Nat /\ windows = {} /\ ended = FALSE
      /\ now = Start
  BY PlansAssumption DEF PlanInit, ZeroTime
<1> QED BY <1>1, <1>2 DEF PlanInvariant, TypeOK

(* A poll, with its resolution                                             *)
LEMMA PollResolves ==
    ASSUME NEW time, Poll(time)
    PROVE  LET s == AsRead(draft)
               r == ResolveMisfire(s, PolicyOf(draft), dueAt, time, Limit)
           IN  /\ answer = "accepted" /\ ~ended /\ dueAt <= time /\ now <= time
               /\ windows' = {r.windows[i] : i \in DOMAIN r.windows}
               /\ MoveCursor(GoesOnTo(s, r.windows, r.cursorAfter))
               /\ now' = time /\ draft' = draft /\ answer' = answer /\ edits' = edits
BY DEF Poll, GoesOnTo

(* The next window of a poll is later, whatever the plan.                  *)
LEMMA PollMovesOn ==
    ASSUME PlanInvariant, SteadyPlans, NEW time \in Start..LastNow, Poll(time)
    PROVE  /\ ended' \in BOOLEAN /\ windows' \subseteq Nat
           /\ dueAt' \in Nat /\ (ended' \/ dueAt' > dueAt)
<1> DEFINE s == AsRead(draft)
           policy == PolicyOf(draft)
           r == ResolveMisfire(s, policy, dueAt, time, Limit)
<1>1. /\ answer = "accepted" /\ ~ended /\ dueAt <= time
      /\ windows' = {r.windows[i] : i \in DOMAIN r.windows}
      /\ MoveCursor(GoesOnTo(s, r.windows, r.cursorAfter))
  BY PollResolves
<1>2. IsPlan(draft) /\ Accepts(draft) /\ dueAt \in Nat \ {0} /\ time \in Nat
      /\ Limit \in Nat \ {0} /\ SearchDays \in Nat
  BY <1>1, PlansAssumption DEF PlanInvariant, TypeOK
<1>3. Timely(s) /\ PolicyType(policy)
  BY <1>2, AcceptedIsTimely, AcceptedPolicy
<1> HIDE DEF s, policy
<1>4. Advances(s, dueAt, time, r)
  BY <1>1, <1>2, <1>3, ResolutionsAdvance
<1> HIDE DEF r
<1>5. PICK runs, rest : Yields(r, runs, rest) /\ GoesOn(s, dueAt, time, runs, rest)
  BY <1>4 DEF Advances
<1>6. r.windows = runs /\ r.cursorAfter = rest
  BY <1>5, YieldedFields
<1> DEFINE next == GoesOnTo(s, runs, rest)
<1>7. runs \in Seq(Nat) /\ Later(dueAt, next)
  BY <1>5 DEF GoesOn
<1>8. windows' \subseteq Nat
  BY <1>1, <1>6, <1>7
<1>9. MoveCursor(next)
  BY <1>1, <1>6
<1> HIDE DEF next
<1> QED BY <1>2, <1>7, <1>8, <1>9 DEF MoveCursor, Later

LEMMA SubmitIsPlan ==
    ASSUME PlanInvariant, SteadyPlans, Submit
    PROVE  PlanInvariant'
<1>1. IsPlan(draft) /\ answer = "none" /\ edits \in 0..MaxEdits /\ now \in Start..LastNow
      /\ dueAt \in Nat /\ windows = {} /\ ended \in BOOLEAN
  BY DEF PlanInvariant, TypeOK, Submit
<1>2. draft' = draft /\ edits' = edits /\ now' = now /\ windows' = windows
  BY DEF Submit
<1>3. CASE ~Accepts(draft) /\ answer' = "refused" /\ UNCHANGED <<dueAt, ended>>
  BY <1>1, <1>2, <1>3 DEF PlanInvariant, TypeOK
<1>4. CASE Accepts(draft) /\ answer' = "accepted" /\ MoveCursor(FirstWindow(AsRead(draft)))
  <2> DEFINE s == AsRead(draft)
             next == FirstWindow(s)
  <2>1. Timely(s) /\ s.at \in Nat
    BY <1>1, <1>4, AcceptedIsTimely
  <2> HIDE DEF s
  <2>2. next \in Nat
    <3>1. s.type # "once" => Later(Start, NextSchedule(s, Start))
      BY <2>1, NextIsLater, PlansAssumption
    <3> QED BY <2>1, <3>1 DEF FirstWindow, Later, ZeroTime
  <2>3. MoveCursor(next)
    BY <1>4 DEF s
  <2> HIDE DEF next
  <2>4. ended' \in BOOLEAN /\ dueAt' \in Nat /\ (ended' \/ dueAt' # 0)
    BY <1>1, <2>2, <2>3 DEF MoveCursor, ZeroTime
  <2>5. Accepts(draft)'
    BY <1>2, <1>4
  <2> QED BY <1>1, <1>2, <1>4, <2>4, <2>5 DEF PlanInvariant, TypeOK
<1> QED BY <1>3, <1>4 DEF Submit

LEMMA EditIsPlan ==
    ASSUME PlanInvariant, NEW f \in Fields, Edit(f)
    PROVE  PlanInvariant'
<1>1. IsPlan(draft) /\ answer = "none" /\ edits \in 0..MaxEdits
  BY DEF PlanInvariant, TypeOK, Edit
<1>2. PICK value \in FieldValues[f] : draft' = [draft EXCEPT ![f] = value]
  BY DEF Edit
<1>3. IsPlan(draft')
  BY <1>1, <1>2 DEF IsPlan
<1>4. edits' \in 0..MaxEdits
  BY <1>1, PlansAssumption DEF Edit
<1>5. answer' = answer /\ now' = now /\ dueAt' = dueAt /\ windows' = windows /\ ended' = ended
  BY DEF Edit
<1>6. IsPlan(draft)'
  BY <1>3
<1> QED BY <1>1, <1>4, <1>5, <1>6 DEF PlanInvariant, TypeOK

LEMMA StepKeepsPlan ==
    ASSUME PlanInvariant, SteadyPlans, [PlanNext]_planVars
    PROVE  PlanInvariant'
<1>1. ASSUME NEW time \in Start..LastNow, Poll(time) PROVE PlanInvariant'
  <2>1. /\ draft' = draft /\ answer' = answer /\ edits' = edits /\ now' = time
        /\ answer = "accepted"
    BY <1>1, PollResolves
  <2>2. /\ ended' \in BOOLEAN /\ windows' \subseteq Nat
        /\ dueAt' \in Nat /\ (ended' \/ dueAt' > dueAt) /\ dueAt \in Nat
    BY <1>1, PollMovesOn DEF PlanInvariant, TypeOK
  <2>3. ended' \/ dueAt' # 0
    BY <2>2
  <2> QED BY <2>1, <2>2, <2>3 DEF PlanInvariant, TypeOK
<1>2. CASE UNCHANGED planVars
  BY <1>2 DEF planVars, PlanInvariant, TypeOK
<1> QED BY <1>1, <1>2, SubmitIsPlan, EditIsPlan DEF PlanNext

LEMMA PlansAreTyped == SteadyPlans => (PlanSpec => []PlanInvariant)
<1> SUFFICES ASSUME SteadyPlans PROVE PlanSpec => []PlanInvariant
  OBVIOUS
<1>1. PlanInvariant /\ [PlanNext]_planVars => PlanInvariant'
  BY StepKeepsPlan
<1> QED BY <1>1, InitIsPlan, PTL DEF PlanSpec

(* Every variable of the model of plans keeps its type: in steady zones    *)
(* polls give windows in time, whatever the plan (TypeOK).                 *)
THEOREM PlansTypeCorrect == SteadyPlans => (PlanSpec => []TypeOK)
<1>1. PlanInvariant => TypeOK
  BY DEF PlanInvariant
<1> QED BY <1>1, PlansAreTyped, PTL

(* No accepted plan stays due at one instant, whatever its calendar, its   *)
(* policy and the spaces in its texts: every poll moves its cursor on or   *)
(* ends it (PollsMoveOn).                                                  *)
THEOREM PlansMoveOn == SteadyPlans => (PlanSpec => PollsMoveOn)
<1> SUFFICES ASSUME SteadyPlans PROVE PlanSpec => PollsMoveOn
  OBVIOUS
<1>1. PlanInvariant /\ [PlanNext]_planVars
        => [answer = "accepted" => dueAt' > dueAt \/ ended']_planVars
  <2> SUFFICES ASSUME PlanInvariant, PlanNext, answer = "accepted"
               PROVE  dueAt' > dueAt \/ ended'
    OBVIOUS
  <2>1. PICK time \in Start..LastNow : Poll(time)
    BY DEF PlanNext, Submit, Edit
  <2> QED BY <2>1, PollMovesOn
<1>2. PlanSpec => []PlanInvariant
  BY PlansAreTyped
<1> QED BY <1>1, <1>2, PTL DEF PlanSpec, PollsMoveOn

-----------------------------------------------------------------------------
(* Polls of a plan run what is meant *)

(* What a plan runs is for its own schedule, as it is meant.               *)
RunsMeant(p) ==
    /\ AsRead(p) = Meant(p) /\ Meant(p).at \in Nat
    /\ IF Meant(p).type = "once" THEN Meant(p).calendar = NoCalendar
       ELSE Recurs(Meant(p)) /\ Meant(p).at = Start

LEMMA PlainPlans ==
    ASSUME NEW p, SteadyPlans, IsPlan(p), Accepts(p), WrittenPlainly(p),
           LocalDay(Meant(p).zone, Start) >= 0, NonePending(Meant(p), Start)
    PROVE  RunsMeant(p)
<1>1. AsRead(p) = Meant(p) /\ (p.type # "none" => ValidSchedule(Meant(p))) /\ Meant(p).at \in Nat
  BY AcceptedIsMeant, AcceptedIsTimely
<1>2. CASE p.type = "none"
  BY <1>1, <1>2, OneTimeFields DEF Meant, RunsMeant
<1>3. CASE p.type # "none"
  <2> DEFINE zone == Locations[Trim(p.timezone)]
             calendar == IF p.calendar = "none" THEN NoCalendar ELSE Calendars[p.calendar].days
             s == Rule(p, zone, Trim(p.closed_days), calendar)
  <2>1. Meant(p) = s
    BY <1>3 DEF Meant
  <2>2. /\ s.type = p.type /\ s.zone = zone /\ s.clock = p.clock /\ s.interval = p.interval
        /\ s.calendar = calendar /\ s.at = IF p.type = "once" THEN p.instant ELSE Start
    BY RuleFields
  <2>3. p.type = "once" => calendar = NoCalendar
    BY <1>3, AcceptedFields DEF ValidClosedDays
  <2>4. Steady(zone)
    BY AcceptedFields DEF SteadyPlans
  <2> HIDE DEF s, zone, calendar
  <2>5. CASE p.type = "once"
    BY <1>1, <2>1, <2>2, <2>3, <2>5 DEF RunsMeant
  <2>6. CASE p.type # "once"
    <3>1. p.type \in {"interval", "daily_at", "weekly_at"}
      BY <1>3, <2>6, AcceptedFields
    <3>2. RegularRule(s)
      <4>1. p.interval \in Int /\ (p.type \in {"daily_at", "weekly_at"} => p.clock \in Clocks)
        BY AcceptedFields
      <4> QED BY <1>1, <1>3, <2>1, <2>2, <2>4, <3>1, <4>1 DEF RegularRule
    <3>3. Regular(s)
      BY <1>1, <2>1, <2>2, <2>6, <3>2 DEF Regular
    <3>4. s.at = Start /\ Recurs(s)
      BY <2>1, <2>2, <2>6, <3>3 DEF Recurs
    <3> QED BY <1>1, <2>1, <2>2, <2>6, <3>4 DEF RunsMeant
  <2> QED BY <2>5, <2>6
<1> QED BY <1>2, <1>3

LEMMA MeantBetweenAre ==
    ASSUME NEW p, RunsMeant(p), Meant(p).type # "once", NEW first \in Int, NEW last \in Int
    PROVE  \A t : t \in MeantBetween(p, first, last)
                    <=> /\ t \in first..last /\ IsOccurrence(Meant(p), t)
                        /\ Working(Meant(p), t)
<1> DEFINE s == Meant(p)
<1>1. /\ Steady(s.zone) /\ (s.type # "interval" => s.clock \in Clocks)
      /\ first - 1 \in Int /\ (first - 1) + 1 = first
  BY RecurringSchedules DEF RunsMeant
<1>2. s.type # "once"
  OBVIOUS
<1> HIDE DEF s
<1>3. OccurrencesBetween(s, first - 1, last) = {t \in ((first - 1) + 1)..last : IsOccurrence(s, t)}
  BY <1>1, OccurrencesAre
<1>4. MeantBetween(p, first, last)
        = {t \in OccurrencesBetween(s, first - 1, last) :
              WorkingDay(s.calendar, LocalDay(s.zone, t))}
  BY <1>2 DEF MeantBetween, s
<1>5. \A t : t \in MeantBetween(p, first, last)
               <=> t \in first..last /\ IsOccurrence(s, t) /\ Working(s, t)
  BY <1>1, <1>3, <1>4 DEF Working
<1> QED BY <1>5 DEF s

MeantInvariant ==
    answer = "accepted" /\ ~ended /\ WrittenPlainly(draft) =>
        /\ RunsMeant(draft)
        /\ IF Meant(draft).type = "once" THEN dueAt = Meant(draft).at
           ELSE Occurs(Meant(draft), dueAt) /\ Rolled(Meant(draft), dueAt)

(* A plan that is accepted begins at its first occurrence.                 *)
LEMMA SubmitIsMeant ==
    ASSUME SteadyPlans, PlanInvariant, Submit, RegularPlans'
    PROVE  StepAsMeant /\ MeantInvariant'
<1>1. /\ draft' = draft /\ answer = "none" /\ windows' = {} /\ now' = Start
      /\ IsPlan(draft) /\ Start \in Nat \ {0} /\ SearchDays \in Nat
  BY PlansAssumption DEF Submit, PlanInvariant, TypeOK
<1>2. SUFFICES ASSUME answer' = "accepted", WrittenPlainly(draft)
               PROVE  StepAsMeant /\ MeantInvariant'
  BY <1>1 DEF StepAsMeant, MeantInvariant
<1> DEFINE s == Meant(draft)
           next == FirstWindow(s)
           last == IF next = ZeroTime THEN Start ELSE next - 1
<1>3. Accepts(draft) /\ MoveCursor(FirstWindow(AsRead(draft)))
  BY <1>2 DEF Submit
<1>4. RunsMeant(draft)
  <2>1. LocalDay(Meant(draft).zone, Start) >= 0 /\ NonePending(Meant(draft), Start)
    BY <1>1, <1>2 DEF RegularPlans
  <2> QED BY <1>1, <1>2, <1>3, <2>1, PlainPlans
<1>5. MoveCursor(next) /\ s.at \in Nat
  BY <1>3, <1>4 DEF RunsMeant
<1>6. /\ next \in Nat /\ MeantBetween(draft, Start + 1, last) = {}
      /\ next # ZeroTime => IF s.type = "once" THEN next = s.at
                            ELSE Occurs(s, next) /\ Rolled(s, next)
  <2>1. CASE s.type = "once"
    <3>1. next = s.at
      BY <2>1 DEF FirstWindow
    <3>2. MeantBetween(draft, Start + 1, last) = {s.at} \cap ((Start + 1)..last)
      BY <2>1 DEF MeantBetween
    <3> HIDE DEF s, next
    <3> QED BY <1>1, <1>5, <2>1, <3>1, <3>2
  <2>2. CASE s.type # "once"
    <3>1. Recurs(s) /\ s.at = Start /\ ValidSchedule(s)
      BY <1>4, <2>2, RecurringSchedules DEF RunsMeant
    <3>2. next = NextSchedule(s, Start)
      BY <2>2 DEF FirstWindow
    <3> HIDE DEF next
    <3>3. ASSUME next # ZeroTime
          PROVE  /\ Occurs(s, next) /\ Rolled(s, next) /\ next \in Nat
                 /\ \A u \in Int : Start < u /\ u < next => ~IsOccurrence(s, u)
      <4> HIDE DEF s
      <4>1. Occurs(s, next) /\ \A u \in Int : Start < u /\ u < next => ~IsOccurrence(s, u)
        BY <1>1, <3>1, <3>2, <3>3, NextIsNextOccurrence
      <4>2. Rolled(s, next)
        BY <1>1, <3>1, <3>2, NextIsRolled
      <4> QED BY <3>1, <4>1, <4>2, OccursInTime
    <3>4. next \in Nat
      BY <3>3 DEF ZeroTime
    <3>5. last \in Int /\ Start + 1 \in Int
      BY <1>1, <3>4
    <3>6. \A t : t \in MeantBetween(draft, Start + 1, last)
                   => t \in (Start + 1)..last /\ IsOccurrence(s, t)
      <4> HIDE DEF last
      <4> QED BY <1>4, <2>2, <3>5, MeantBetweenAre
    <3>7. \A t \in (Start + 1)..last : ~IsOccurrence(s, t)
      <4> HIDE DEF s
      <4> TAKE t \in (Start + 1)..last
      <4>1. next # ZeroTime /\ t \in Int /\ Start < t /\ t < next
        BY <1>1, <3>4
      <4> QED BY <3>3, <4>1
    <3> HIDE DEF s, last
    <3> QED BY <2>2, <3>3, <3>4, <3>6, <3>7
  <2> QED BY <2>1, <2>2
<1> HIDE DEF next
<1>7. last = IF ended' THEN now' ELSE dueAt' - 1
  BY <1>1, <1>5 DEF MoveCursor
<1>8. StepAsMeant
  <2> HIDE DEF last
  <2> QED BY <1>1, <1>6, <1>7 DEF StepAsMeant
<1>9. ASSUME ~ended' PROVE IF s.type = "once" THEN dueAt' = s.at
                           ELSE Occurs(s, dueAt') /\ Rolled(s, dueAt')
  <2>1. next # ZeroTime /\ dueAt' = next
    BY <1>5, <1>9 DEF MoveCursor
  <2> HIDE DEF s
  <2> QED BY <1>6, <2>1
<1>10. MeantInvariant'
  BY <1>1, <1>4, <1>9 DEF MeantInvariant
<1> QED BY <1>8, <1>10

(* A poll runs the occurrences that are due, and goes on at the next one.  *)
LEMMA PollIsMeant ==
    ASSUME SteadyPlans, PlanInvariant, MeantInvariant, NEW time \in Start..LastNow, Poll(time)
    PROVE  StepAsMeant /\ MeantInvariant'
<1> DEFINE s == Meant(draft)
           policy == PolicyOf(draft)
           r == ResolveMisfire(s, policy, dueAt, time, Limit)
           late == Missed(policy, dueAt, time)
<1>1. SUFFICES ASSUME WrittenPlainly(draft) PROVE StepAsMeant /\ MeantInvariant'
  <2>1. draft' = draft
    BY PollResolves
  <2> QED BY <2>1 DEF StepAsMeant, MeantInvariant
<1>2. /\ answer = "accepted" /\ answer' = "accepted" /\ ~ended /\ draft' = draft /\ now' = time
      /\ dueAt <= time /\ RunsMeant(draft)
      /\ IF s.type = "once" THEN dueAt = s.at ELSE Occurs(s, dueAt) /\ Rolled(s, dueAt)
  BY <1>1, PollResolves DEF MeantInvariant
<1>3. /\ windows' = {r.windows[i] : i \in DOMAIN r.windows}
      /\ MoveCursor(GoesOnTo(s, r.windows, r.cursorAfter))
  BY <1>2, PollResolves DEF RunsMeant
<1>4. /\ dueAt \in Nat \ {0} /\ time \in Nat /\ Limit \in Nat \ {0} /\ SearchDays \in Nat
      /\ PolicyType(policy) /\ policy.misfire # NoPolicy /\ Grace(policy) \in Nat
      /\ Grace(policy) <= SearchDays * DayLength
  BY <1>2, PlansAssumption, AcceptedPolicy DEF PlanInvariant, TypeOK
<1>5. late => time > dueAt + Grace(policy)
  BY DEF Missed
<1> HIDE DEF s, r, late
(* It is enough that what runs is meant, all of it unless it is late.      *)
<1>6. ASSUME NEW runs, NEW rest, Yields(r, runs, rest),
             LET next == GoesOnTo(s, runs, rest)
                 last == IF next = ZeroTime THEN time ELSE next - 1
             IN  /\ next # ZeroTime => /\ s.type # "once"
                                       /\ Occurs(s, next) /\ Rolled(s, next)
                 /\ \A i \in DOMAIN runs : runs[i] \in MeantBetween(draft, dueAt, last)
                 /\ ~late => \A t \in MeantBetween(draft, dueAt, last) :
                                  \E i \in DOMAIN runs : t = runs[i]
      PROVE  StepAsMeant /\ MeantInvariant'
  <2> DEFINE next == GoesOnTo(s, runs, rest)
             last == IF next = ZeroTime THEN time ELSE next - 1
             meant == MeantBetween(draft, dueAt, last)
  <2>1. /\ next # ZeroTime => s.type # "once" /\ Occurs(s, next) /\ Rolled(s, next)
        /\ \A i \in DOMAIN runs : runs[i] \in meant
        /\ ~late => \A t \in meant : \E i \in DOMAIN runs : t = runs[i]
    BY <1>6
  <2>2. windows' = {runs[i] : i \in DOMAIN runs} /\ MoveCursor(next)
    BY <1>3, <1>6, YieldedFields
  <2> HIDE DEF next
  <2>3. last = IF ended' THEN now' ELSE dueAt' - 1
    BY <1>2, <2>2 DEF MoveCursor
  <2> HIDE DEF last
  <2>4. windows' \subseteq meant /\ (~late => meant \subseteq windows')
    BY <2>1, <2>2
  <2>5. StepAsMeant
    <3>1. meant = MeantBetween(draft, IF answer = "none" THEN Start + 1 ELSE dueAt,
                               IF ended' THEN now' ELSE dueAt' - 1)
      BY <1>2, <2>3
    <3> HIDE DEF meant, policy
    <3>2. meant # windows' => now' > dueAt + Grace(policy)
      BY <1>2, <1>5, <2>4
    <3> QED BY <1>2, <2>4, <3>1, <3>2 DEF StepAsMeant, policy
  <2>6. ASSUME ~ended' PROVE s.type # "once" /\ Occurs(s, dueAt') /\ Rolled(s, dueAt')
    <3>1. next # ZeroTime /\ dueAt' = next
      BY <2>2, <2>6 DEF MoveCursor
    <3> QED BY <2>1, <3>1
  <2>7. MeantInvariant'
    BY <1>2, <2>6 DEF MeantInvariant, s
  <2> QED BY <2>5, <2>7
<1>7. CASE s.type = "once"
  <2>1. s.calendar = NoCalendar /\ dueAt = s.at
    BY <1>2, <1>7 DEF RunsMeant, s
  <2>2. Yields(r, <<dueAt>>, ZeroTime) \/ (late /\ Yields(r, <<>>, ZeroTime))
    BY <1>2, <1>4, <1>7, <2>1, OneTimeWindow DEF r, late
  <2>3. MeantBetween(draft, dueAt, time) = {dueAt}
    <3>1. MeantBetween(draft, dueAt, time) = {s.at} \cap (dueAt..time)
      BY <1>7 DEF MeantBetween, s
    <3> QED BY <1>2, <1>4, <2>1, <3>1
  <2>4. ASSUME NEW runs, runs = <<dueAt>> \/ (late /\ runs = <<>>)
        PROVE  /\ GoesOnTo(s, runs, ZeroTime) = ZeroTime
               /\ \A i \in DOMAIN runs : runs[i] = dueAt
               /\ ~late => \E i \in DOMAIN runs : dueAt = runs[i]
    <3>1. GoesOnTo(s, runs, ZeroTime) = ZeroTime
      BY <1>7 DEF GoesOnTo, NextFromCursor
    <3>2. CASE runs = <<dueAt>>
      <4>1. DOMAIN runs = {1} /\ runs[1] = dueAt
        BY <3>2
      <4> QED BY <3>1, <4>1
    <3>3. CASE late /\ runs = <<>>
      <4>1. DOMAIN runs = {}
        BY <3>3
      <4> QED BY <3>1, <3>3, <4>1
    <3> QED BY <2>4, <3>2, <3>3
  <2>5. ASSUME NEW runs, Yields(r, runs, ZeroTime), runs = <<dueAt>> \/ (late /\ runs = <<>>)
        PROVE  StepAsMeant /\ MeantInvariant'
    BY <1>6, <2>3, <2>4, <2>5
  <2> QED BY <2>2, <2>5
<1>8. CASE s.type # "once"
  <2>1. Recurs(s) /\ Occurs(s, dueAt) /\ Rolled(s, dueAt)
    BY <1>2, <1>8 DEF RunsMeant, s
  <2>2. PICK runs, rest : /\ Yields(r, runs, rest)
                           /\ RunsWhatIsMeant(s, dueAt, time, runs, rest, late)
    <3> HIDE DEF policy
    <3> QED BY <1>2, <1>4, <2>1, RecurringRuns DEF r, late
  <2> DEFINE next == GoesOnTo(s, runs, rest)
             last == IF next = ZeroTime THEN time ELSE next - 1
  <2>3. /\ next = ZeroTime \/ (Occurs(s, next) /\ Rolled(s, next) /\ next > dueAt)
        /\ \A i \in DOMAIN runs : Runs(s, dueAt, time, runs, next, runs[i])
        /\ ~late => \A t \in Int : Runs(s, dueAt, time, runs, next, t) =>
                        \E i \in DOMAIN runs : t = runs[i]
    BY <2>2 DEF RunsWhatIsMeant
  <2> HIDE DEF next
  <2>4. last \in Int
    BY <1>4, <2>3 DEF Occurs
  <2>5. \A t : Runs(s, dueAt, time, runs, next, t)
                 <=> t \in dueAt..last /\ IsOccurrence(s, t) /\ Working(s, t)
    BY DEF Runs
  <2>6. \A t : t \in MeantBetween(draft, dueAt, last)
                 <=> t \in dueAt..last /\ IsOccurrence(s, t) /\ Working(s, t)
    <3> HIDE DEF last
    <3> QED BY <1>2, <1>4, <1>8, <2>4, MeantBetweenAre DEF s
  <2>7. \A t \in MeantBetween(draft, dueAt, last) : t \in Int
    <3> HIDE DEF last
    <3> QED BY <1>4, <2>4, <2>6
  <2>8. /\ next # ZeroTime => s.type # "once" /\ Occurs(s, next) /\ Rolled(s, next)
        /\ \A i \in DOMAIN runs : runs[i] \in MeantBetween(draft, dueAt, last)
        /\ ~late => \A t \in MeantBetween(draft, dueAt, last) :
                        \E i \in DOMAIN runs : t = runs[i]
    <3> HIDE DEF last
    <3> QED BY <1>8, <2>3, <2>5, <2>6, <2>7
  <2> QED BY <1>6, <2>2, <2>8 DEF next
<1> QED BY <1>7, <1>8

(* An accepted plan that is written without spaces, in a steady zone and   *)
(* made while none of its occurrences waits for an open day, runs as it is *)
(* meant: what the clock gives it are its own occurrences on working days, *)
(* and all of them unless a poll finds its cursor late (RunsAsMeant).      *)
THEOREM PlansRunAsMeant == SteadyPlans => (PlanSpec /\ []RegularPlans => RunsAsMeant)
<1> SUFFICES ASSUME SteadyPlans PROVE PlanSpec /\ []RegularPlans => RunsAsMeant
  OBVIOUS
<1>1. PlanInit => MeantInvariant
  BY DEF PlanInit, MeantInvariant
<1>2. PlanInvariant /\ MeantInvariant /\ RegularPlans' /\ [PlanNext]_planVars
        => MeantInvariant' /\ [StepAsMeant]_planVars
  <2> SUFFICES ASSUME PlanInvariant, MeantInvariant, RegularPlans', [PlanNext]_planVars
               PROVE  MeantInvariant' /\ [StepAsMeant]_planVars
    OBVIOUS
  <2>1. CASE UNCHANGED planVars
    BY <2>1 DEF planVars, MeantInvariant
  <2>2. CASE Submit
    BY <2>2, SubmitIsMeant
  <2>3. ASSUME NEW f \in Fields, Edit(f) PROVE MeantInvariant' /\ StepAsMeant
    BY <2>3 DEF Edit, MeantInvariant, StepAsMeant
  <2>4. ASSUME NEW time \in Start..LastNow, Poll(time) PROVE MeantInvariant' /\ StepAsMeant
    BY <2>4, PollIsMeant
  <2> QED BY <2>1, <2>2, <2>3, <2>4 DEF PlanNext
<1>3. PlanSpec => []PlanInvariant
  BY PlansAreTyped
<1> QED BY <1>1, <1>2, <1>3, PTL DEF PlanSpec, RunsAsMeant
=============================================================================
