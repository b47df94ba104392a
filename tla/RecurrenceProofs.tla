---------------------------- MODULE RecurrenceProofs ----------------------------
(***************************************************************************)
(* Facts about Recurrence and Misfire for every calendar, length of a day  *)
(* and search: the windows of a clock, and the occurrences of a schedule   *)
(* in a zone whose offset does not change.                                 *)
(***************************************************************************)
EXTENDS Misfire, WellFoundedInduction, TLAPS

(* A set of naturals has a least member, and Earliest finds it.            *)
LEMMA EarliestIsLeast ==
    ASSUME NEW S \in SUBSET Nat, S # {}
    PROVE  Earliest(S) \in S /\ \A n \in S : Earliest(S) <= n
<1> DEFINE R == OpToRel(<, Nat)
<1>1. IsWellFoundedOn(R, Nat)
  BY NatLessThanWellFounded
<1>2. \A x, y \in Nat : x < y => <<x, y>> \in R
  BY DEF OpToRel
<1> HIDE DEF R
<1>3. PICK x \in S : \A y \in S : ~(<<y, x>> \in R)
  BY <1>1, WFMin
<1>4. \A y \in S : ~(y < x)
  BY <1>2, <1>3, Zenon
<1>5. \A y \in S : x <= y
  BY <1>4
<1> QED BY <1>5 DEF Earliest

-----------------------------------------------------------------------------
(* The windows from a cursor on are given by a recursion, which has a      *)
(* solution: the initial pieces of it agree, and each can be extended.     *)

NextWindow(s, before) == IF before = ZeroTime THEN ZeroTime ELSE NextFromCursor(s, before)

(* The first n + 1 windows *)
FirstWindows(s, cursor, n, w) ==
    w = [i \in 0..n |-> IF i = 0 THEN cursor ELSE NextWindow(s, w[i - 1])]

LEMMA FirstWindowsAgree ==
    ASSUME NEW s, NEW cursor, NEW m \in Nat, NEW n \in Nat, NEW v, NEW w,
           FirstWindows(s, cursor, m, v), FirstWindows(s, cursor, n, w),
           NEW k \in Nat, k <= m, k <= n
    PROVE  v[k] = w[k]
<1> DEFINE Differ == {i \in 0..k : v[i] # w[i]}
<1>1. ASSUME Differ # {} PROVE FALSE
  <2>1. Differ \in SUBSET Nat
    OBVIOUS
  <2>2. PICK i \in Differ : \A j \in Differ : i <= j
    <3> HIDE DEF Differ
    <3> QED BY <1>1, <2>1, EarliestIsLeast
  <2>3. i \in 0..m /\ i \in 0..n
    OBVIOUS
  <2>4. v[i] = IF i = 0 THEN cursor ELSE NextWindow(s, v[i - 1])
    BY <2>3 DEF FirstWindows
  <2>5. w[i] = IF i = 0 THEN cursor ELSE NextWindow(s, w[i - 1])
    BY <2>3 DEF FirstWindows
  <2>6. i # 0
    BY <2>4, <2>5
  <2>7. i - 1 \in 0..k /\ i - 1 \notin Differ
    BY <2>2, <2>6
  <2>8. v[i - 1] = w[i - 1]
    BY <2>7
  <2> QED BY <2>4, <2>5, <2>6, <2>8
<1>2. k \in 0..k
  OBVIOUS
<1> QED BY <1>1, <1>2

LEMMA FirstWindowsExist ==
    ASSUME NEW s, NEW cursor, NEW n \in Nat
    PROVE  \E w : FirstWindows(s, cursor, n, w)
<1> DEFINE None == {i \in Nat : ~ \E w : FirstWindows(s, cursor, i, w)}
<1>1. ASSUME None # {} PROVE FALSE
  <2>1. PICK i \in None : \A j \in None : i <= j
    <3>1. None \in SUBSET Nat
      OBVIOUS
    <3> HIDE DEF None
    <3> QED BY <1>1, <3>1, EarliestIsLeast
  <2>2. i \in Nat /\ ~ \E w : FirstWindows(s, cursor, i, w)
    OBVIOUS
  <2>3. CASE i = 0
    <3> DEFINE w == [j \in 0..0 |-> cursor]
    <3>1. FirstWindows(s, cursor, 0, w)
      BY DEF FirstWindows
    <3> QED BY <2>2, <2>3, <3>1
  <2>4. CASE i # 0
    <3>1. i - 1 \in Nat /\ i - 1 \notin None
      BY <2>1, <2>2, <2>4
    <3>2. PICK v : FirstWindows(s, cursor, i - 1, v)
      BY <3>1
    <3> DEFINE w == [j \in 0..i |-> IF j = 0 THEN cursor ELSE NextWindow(s, v[j - 1])]
    <3>3. \A j \in 0..(i - 1) : w[j] = v[j]
      BY <2>2, <3>2 DEF FirstWindows
    <3>4. \A j \in 0..i : w[j] = IF j = 0 THEN cursor ELSE NextWindow(s, v[j - 1])
      OBVIOUS
    <3>5. \A j \in 0..i : j # 0 => j - 1 \in 0..(i - 1)
      BY <2>2
    <3>6. w = [j \in 0..i |-> w[j]]
      OBVIOUS
    <3> HIDE DEF w
    <3>7. \A j \in 0..i : w[j] = IF j = 0 THEN cursor ELSE NextWindow(s, w[j - 1])
      BY <3>3, <3>4, <3>5
    <3>8. FirstWindows(s, cursor, i, w)
      BY <3>6, <3>7 DEF FirstWindows
    <3> QED BY <2>2, <3>8
  <2> QED BY <2>3, <2>4
<1> QED BY <1>1

(* What the windows from a cursor on are.                                  *)
LEMMA WindowsFollow ==
    ASSUME NEW s, NEW cursor
    PROVE  /\ WindowsFrom(s, cursor)[0] = cursor
           /\ \A i \in Nat : WindowsFrom(s, cursor)[i + 1]
                                = NextWindow(s, WindowsFrom(s, cursor)[i])
<1> DEFINE first(n) == CHOOSE w : FirstWindows(s, cursor, n, w)
           all == [i \in Nat |-> first(i)[i]]
<1>1. \A n \in Nat : FirstWindows(s, cursor, n, first(n))
  BY FirstWindowsExist, Zenon
<1>2. all[0] = cursor
  <2>1. all[0] = first(0)[0] /\ 0 \in 0..0
    OBVIOUS
  <2>2. first(0) = [i \in 0..0 |-> IF i = 0 THEN cursor ELSE NextWindow(s, first(0)[i - 1])]
    BY <1>1 DEF FirstWindows
  <2> HIDE DEF all, first
  <2> QED BY <2>1, <2>2
<1>3. ASSUME NEW i \in Nat PROVE all[i + 1] = NextWindow(s, all[i])
  <2>1. all[i + 1] = first(i + 1)[i + 1] /\ all[i] = first(i)[i]
    OBVIOUS
  <2>2. FirstWindows(s, cursor, i + 1, first(i + 1)) /\ FirstWindows(s, cursor, i, first(i))
    BY <1>1
  <2> HIDE DEF all, first
  <2>3. first(i + 1)[i] = first(i)[i]
    BY <2>2, FirstWindowsAgree
  <2>4. first(i + 1)[i + 1] = NextWindow(s, first(i + 1)[i])
    <3>1. i + 1 \in 0..(i + 1) /\ i + 1 # 0 /\ (i + 1) - 1 = i
      OBVIOUS
    <3> QED BY <2>2, <3>1 DEF FirstWindows
  <2> QED BY <2>1, <2>3, <2>4
<1>4. all = [i \in Nat |-> IF i = 0 THEN cursor ELSE NextWindow(s, all[i - 1])]
  <2>1. all = [i \in Nat |-> all[i]]
    OBVIOUS
  <2> HIDE DEF all
  <2>2. ASSUME NEW i \in Nat, i # 0 PROVE all[i] = NextWindow(s, all[i - 1])
    <3>1. i - 1 \in Nat /\ (i - 1) + 1 = i
      BY <2>2
    <3> QED BY <1>3, <3>1
  <2> QED BY <1>2, <2>1, <2>2
<1> DEFINE Solves(w) == w = [i \in Nat |-> IF i = 0 THEN cursor ELSE NextWindow(s, w[i - 1])]
<1>5. WindowsFrom(s, cursor) = CHOOSE w : Solves(w)
  BY Zenon DEF WindowsFrom, NextWindow
<1>6. Solves(WindowsFrom(s, cursor))
  <2>1. Solves(all)
    BY <1>4
  <2> HIDE DEF all, Solves
  <2> QED BY <1>5, <2>1
<1> DEFINE W == WindowsFrom(s, cursor)
<1>7. W = [i \in Nat |-> IF i = 0 THEN cursor ELSE NextWindow(s, W[i - 1])]
  BY <1>6
<1> HIDE DEF W
<1>8. W[0] = cursor
  BY <1>7
<1>9. ASSUME NEW i \in Nat PROVE W[i + 1] = NextWindow(s, W[i])
  <2>1. i + 1 \in Nat /\ i + 1 # 0 /\ (i + 1) - 1 = i
    OBVIOUS
  <2> QED BY <1>7, <2>1
<1> QED BY <1>8, <1>9 DEF W
-----------------------------------------------------------------------------
(* Days and instants in a zone of one offset *)

LEMMA DaysHaveLength == DayLength \in Nat /\ DayLength > 0
BY WallClockAssumption

LEMMA DivideDays ==
    ASSUME NEW x \in Int
    PROVE  /\ x \div DayLength \in Int /\ (x % DayLength) \in Clocks
           /\ x = (x \div DayLength) * DayLength + (x % DayLength)
BY DaysHaveLength DEF Clocks

LEMMA DaysDivide ==
    ASSUME NEW day \in Int, NEW clock \in Clocks
    PROVE  /\ (day * DayLength + clock) \div DayLength = day
           /\ (day * DayLength + clock) % DayLength = clock
BY DaysHaveLength DEF Clocks

LEMMA DaysMultiply ==
    ASSUME NEW d \in Int, NEW e \in Int, d < e
    PROVE  d * DayLength \in Int /\ e * DayLength \in Int
           /\ d * DayLength + DayLength <= e * DayLength
BY DaysHaveLength

LEMMA SteadyDate ==
    ASSUME NEW zone, Steady(zone), NEW day \in Int, NEW clock \in Clocks
    PROVE  /\ Date(zone, day, clock) = day * DayLength + clock - zone.before
           /\ Date(zone, day, clock) \in Int
           /\ LocalDay(zone, Date(zone, day, clock)) = day
           /\ LocalClock(zone, Date(zone, day, clock)) = clock
<1>1. \A t : Offset(zone, t) = zone.before
  BY DEF Offset, Steady
<1>2. day * DayLength \in Int /\ clock \in Int /\ zone.before \in Int
  BY DaysHaveLength DEF Clocks, Steady
<1>3. Date(zone, day, clock) = day * DayLength + clock - zone.before
  BY <1>1, <1>2 DEF Date
<1>4. Date(zone, day, clock) + zone.before = day * DayLength + clock
  BY <1>2, <1>3
<1> QED BY <1>1, <1>2, <1>3, <1>4, DaysDivide DEF LocalDay, LocalClock

LEMMA SteadyLocal ==
    ASSUME NEW zone, Steady(zone), NEW t \in Int
    PROVE  /\ LocalDay(zone, t) \in Int /\ LocalClock(zone, t) \in Clocks
           /\ Date(zone, LocalDay(zone, t), LocalClock(zone, t)) = t
<1>1. Offset(zone, t) = zone.before /\ zone.before \in Int /\ t + zone.before \in Int
  BY DEF Offset, Steady
<1>2. LocalDay(zone, t) = (t + zone.before) \div DayLength
      /\ LocalClock(zone, t) = (t + zone.before) % DayLength
  BY <1>1 DEF LocalDay, LocalClock
<1>3. LocalDay(zone, t) \in Int /\ LocalClock(zone, t) \in Clocks
      /\ t + zone.before = LocalDay(zone, t) * DayLength + LocalClock(zone, t)
  BY <1>1, <1>2, DivideDays
<1>4. LocalDay(zone, t) * DayLength \in Int /\ LocalClock(zone, t) \in Int
  BY <1>3, DaysHaveLength DEF Clocks
<1> QED BY <1>1, <1>3, <1>4, SteadyDate

LEMMA SteadyAddDays ==
    ASSUME NEW zone, Steady(zone), NEW t \in Int, NEW n \in Int
    PROVE  /\ AddDays(zone, t, n) \in Int
           /\ AddDays(zone, t, n) = Date(zone, LocalDay(zone, t) + n, LocalClock(zone, t))
           /\ LocalDay(zone, AddDays(zone, t, n)) = LocalDay(zone, t) + n
           /\ LocalClock(zone, AddDays(zone, t, n)) = LocalClock(zone, t)
<1>1. LocalDay(zone, t) + n \in Int /\ LocalClock(zone, t) \in Clocks
  BY SteadyLocal
<1> QED BY <1>1, SteadyDate DEF AddDays

(* The same wall clock comes later on a later day.                         *)
LEMMA DaysInOrder ==
    ASSUME NEW zone, Steady(zone), NEW clock \in Clocks, NEW d \in Int, NEW e \in Int
    PROVE  /\ d < e <=> Date(zone, d, clock) < Date(zone, e, clock)
           /\ d = e <=> Date(zone, d, clock) = Date(zone, e, clock)
           /\ d <= e <=> Date(zone, d, clock) <= Date(zone, e, clock)
<1>1. \A x, y \in Int : x < y => Date(zone, x, clock) < Date(zone, y, clock)
  <2> TAKE x, y \in Int
  <2> HAVE x < y
  <2>1. x * DayLength \in Int /\ y * DayLength \in Int
        /\ x * DayLength + DayLength <= y * DayLength
    BY DaysMultiply
  <2>2. zone.before \in Int /\ clock \in Int
    BY DEF Steady, Clocks
  <2> QED BY <2>1, <2>2, SteadyDate, DaysHaveLength
<1>2. Date(zone, d, clock) \in Int /\ Date(zone, e, clock) \in Int
  BY SteadyDate
<1> QED BY <1>1, <1>2

(* A wall clock on a later day is later, on an earlier day earlier.        *)
LEMMA DaysAround ==
    ASSUME NEW zone, Steady(zone), NEW clock \in Clocks, NEW d \in Int, NEW t \in Int
    PROVE  /\ d > LocalDay(zone, t) => Date(zone, d, clock) > t
           /\ d < LocalDay(zone, t) => Date(zone, d, clock) < t
           /\ Date(zone, d, clock) > t => d >= LocalDay(zone, t)
           /\ Date(zone, d, clock) <= t => d <= LocalDay(zone, t)
<1> DEFINE day == LocalDay(zone, t)
           c == LocalClock(zone, t)
<1>1. day \in Int /\ c \in Clocks /\ t = Date(zone, day, c)
  BY SteadyLocal
<1>2. Date(zone, d, clock) = d * DayLength + clock - zone.before
      /\ Date(zone, d, clock) \in Int
  BY SteadyDate
<1> HIDE DEF day, c
<1>3. t = day * DayLength + c - zone.before
  BY <1>1, SteadyDate
<1>4. zone.before \in Int /\ clock \in 0..(DayLength - 1) /\ c \in 0..(DayLength - 1)
  BY <1>1 DEF Steady, Clocks
<1>5. day < d => Date(zone, d, clock) > t
  <2> HAVE day < d
  <2>1. day * DayLength \in Int /\ d * DayLength \in Int
        /\ day * DayLength + DayLength <= d * DayLength
    BY <1>1, DaysMultiply
  <2> QED BY <1>2, <1>3, <1>4, <2>1, DaysHaveLength
<1>6. d < day => Date(zone, d, clock) < t
  <2> HAVE d < day
  <2>1. day * DayLength \in Int /\ d * DayLength \in Int
        /\ d * DayLength + DayLength <= day * DayLength
    BY <1>1, DaysMultiply
  <2> QED BY <1>2, <1>3, <1>4, <2>1, DaysHaveLength
<1> QED BY <1>1, <1>2, <1>5, <1>6 DEF day
-----------------------------------------------------------------------------
(* Daily and weekly rules *)

OnADay(s) == s.type \in {"daily_at", "weekly_at"} /\ Steady(s.zone) /\ s.clock \in Clocks

LEMMA WeekdaysReturn ==
    ASSUME NEW day \in Int, NEW weekday \in 0..6
    PROVE  /\ \E offset \in 0..6 : Weekday(day + offset) = weekday
           /\ Weekday(day + 7) = Weekday(day)
<1>1. FirstWeekday \in Int
  BY WallClockAssumption
<1> DEFINE a == day + FirstWeekday
           offset == (weekday - a) % 7
<1>2. a \in Int /\ \A n \in Int : Weekday(day + n) = (a + n) % 7
  BY <1>1 DEF Weekday
<1> HIDE DEF a
<1>3. offset \in 0..6 /\ (a + offset) % 7 = weekday
  BY <1>2
<1> HIDE DEF offset
<1>4. Weekday(day + offset) = weekday
  BY <1>2, <1>3
<1>5. Weekday(day + 7) = Weekday(day + 0)
  BY <1>2
<1> QED BY <1>3, <1>4, <1>5

LEMMA NextDailyIsFirst ==
    ASSUME NEW s, OnADay(s), s.type = "daily_at", NEW now \in Int
    PROVE  \E d \in Int : /\ NextDaily(s.zone, now, s.clock) = OccurrenceOn(s, d)
                          /\ OccurrenceOn(s, d) > now
                          /\ \A e \in Int : OccurrenceOn(s, e) > now => d <= e
<1> DEFINE day == LocalDay(s.zone, now)
           today == Date(s.zone, day, s.clock)
<1>0. Steady(s.zone) /\ s.clock \in Clocks
  BY DEF OnADay
<1>1. day \in Int /\ day + 1 \in Int
  BY <1>0, SteadyLocal
<1> HIDE DEF day
<1>2. today \in Int /\ LocalDay(s.zone, today) = day /\ LocalClock(s.zone, today) = s.clock
  BY <1>0, <1>1, SteadyDate
<1>3. AddDays(s.zone, today, 1) = OccurrenceOn(s, day + 1)
  BY <1>0, <1>2, SteadyAddDays DEF OccurrenceOn
<1>4. today = OccurrenceOn(s, day)
  BY DEF OccurrenceOn
<1>5. NextDaily(s.zone, now, s.clock)
        = IF today > now THEN OccurrenceOn(s, day) ELSE OccurrenceOn(s, day + 1)
  BY <1>3, <1>4 DEF NextDaily, day
<1>6. \A e \in Int : OccurrenceOn(s, e) > now => day <= e
  BY <1>0, <1>1, DaysAround DEF OccurrenceOn, day
<1>7. OccurrenceOn(s, day + 1) > now
  <2>1. day + 1 > LocalDay(s.zone, now)
    BY <1>1 DEF day
  <2> QED BY <1>0, <1>1, <2>1, DaysAround DEF OccurrenceOn
<1>8. ASSUME today <= now, NEW e \in Int, OccurrenceOn(s, e) > now PROVE day + 1 <= e
  <2>1. e # day
    BY <1>2, <1>4, <1>8
  <2> QED BY <1>1, <1>6, <1>8, <2>1
<1>9. CASE today > now
  BY <1>1, <1>4, <1>5, <1>6, <1>9
<1>10. CASE today <= now
  BY <1>1, <1>2, <1>5, <1>7, <1>8, <1>10
<1> QED BY <1>2, <1>9, <1>10

LEMMA NextWeeklyIsFirst ==
    ASSUME NEW s, OnADay(s), s.type = "weekly_at", s.weekday \in 0..6, NEW now \in Int
    PROVE  \E d \in Int : /\ Weekday(d) = s.weekday
                          /\ NextWeekly(s.zone, now, s.weekday, s.clock) = OccurrenceOn(s, d)
                          /\ OccurrenceOn(s, d) > now
                          /\ \A e \in Int : Weekday(e) = s.weekday /\ OccurrenceOn(s, e) > now
                                                => d <= e
<1> DEFINE today == LocalDay(s.zone, now)
           matching == {n \in 0..7 : /\ Weekday(today + n) = s.weekday
                                     /\ OccurrenceOn(s, today + n) > now}
           least == Earliest(matching)
<1>0. Steady(s.zone) /\ s.clock \in Clocks
  BY DEF OnADay
<1>1. today \in Int
  BY <1>0, SteadyLocal
<1>2. \A n \in Int : LocalDay(s.zone, AddDays(s.zone, now, n)) = today + n
  BY <1>0, SteadyAddDays
<1>3. NextWeekly(s.zone, now, s.weekday, s.clock)
        = IF matching # {} THEN OccurrenceOn(s, today + least) ELSE OccurrenceOn(s, today + 7)
  <2>1. \A n \in 0..7 : n \in Int
    OBVIOUS
  <2>2. {n \in 0..7 : /\ Weekday(LocalDay(s.zone, AddDays(s.zone, now, n))) = s.weekday
                      /\ Date(s.zone, LocalDay(s.zone, AddDays(s.zone, now, n)), s.clock) > now}
          = matching
    BY <1>2, <2>1 DEF OccurrenceOn
  <2>3. CASE matching # {}
    <3>1. matching \in SUBSET Nat
      OBVIOUS
    <3>2. least \in matching
      <4> HIDE DEF matching
      <4> QED BY <2>3, <3>1, EarliestIsLeast
    <3>3. least \in Int
      BY <3>2
    <3> QED BY <1>2, <2>2, <2>3, <3>3 DEF NextWeekly, OccurrenceOn
  <2>4. CASE matching = {}
    BY <1>2, <2>2, <2>4 DEF NextWeekly, OccurrenceOn
  <2> QED BY <2>3, <2>4
<1>4. \A n \in Int : n > 0 => OccurrenceOn(s, today + n) > now
  <2> TAKE n \in Int
  <2> HAVE n > 0
  <2>1. today + n \in Int /\ today + n > LocalDay(s.zone, now)
    BY <1>1
  <2> QED BY <1>0, <2>1, DaysAround DEF OccurrenceOn
<1>5. PICK n \in 0..6 : Weekday(today + n) = s.weekday
  BY <1>1, WeekdaysReturn
<1>6. matching # {}
  <2>1. CASE n > 0
    <3>1. n \in matching
      BY <1>4, <1>5, <2>1
    <3> QED BY <3>1
  <2>2. CASE n = 0
    <3>1. Weekday(today + 7) = s.weekday
      BY <1>1, <1>5, <2>2, WeekdaysReturn
    <3>2. 7 \in matching
      BY <1>4, <3>1
    <3> QED BY <3>2
  <2> QED BY <2>1, <2>2
<1>7. least \in matching /\ \A m \in matching : least <= m
  <2>1. matching \in SUBSET Nat
    OBVIOUS
  <2> HIDE DEF matching
  <2> QED BY <1>6, <2>1, EarliestIsLeast
<1> HIDE DEF least
<1>8. ASSUME NEW e \in Int, Weekday(e) = s.weekday, OccurrenceOn(s, e) > now
      PROVE  today + least <= e
  <2>1. today <= e
    BY <1>0, <1>1, <1>8, DaysAround DEF OccurrenceOn
  <2>2. CASE e - today > 7
    BY <1>1, <1>7, <2>2
  <2>3. CASE e - today <= 7
    <3>1. e - today \in 0..7 /\ today + (e - today) = e
      BY <1>1, <2>1, <2>3
    <3>2. e - today \in matching
      BY <1>8, <3>1
    <3>3. least <= e - today
      BY <1>7, <3>2
    <3> QED BY <1>1, <1>7, <3>3
  <2> QED BY <1>1, <2>2, <2>3
<1>9. today + least \in Int /\ Weekday(today + least) = s.weekday
      /\ OccurrenceOn(s, today + least) > now
  BY <1>1, <1>7
<1> QED BY <1>3, <1>6, <1>8, <1>9
-----------------------------------------------------------------------------
(* Working days, in any zone *)

LEMMA ValidSchedules ==
    ASSUME NEW s, ValidSchedule(s)
    PROVE  /\ s.type = "interval" => s.interval > 0
           /\ s.type = "weekly_at" => s.weekday \in 0..6
           /\ s.calendar = NoCalendar => s.policy # "skip" /\ s.policy # "roll_forward"
           /\ s.calendar # NoCalendar => /\ s.type \notin {"once", "interval"}
                                         /\ ValidCalendar(s.calendar)
                                         /\ s.policy \in {"skip", "roll_forward"}
<1>1. NoPolicy # "skip" /\ NoPolicy # "roll_forward"
  BY Zenon DEF NoPolicy
<1> QED BY <1>1 DEF ValidSchedule

LEMMA ClosedMeansNoWork ==
    ASSUME NEW s, ValidSchedule(s), NEW day
    PROVE  s.calendar # NoCalendar => (ClosedDay(s.calendar, day) <=> ~WorkingDay(s.calendar, day))
<1> SUFFICES ASSUME s.calendar # NoCalendar
             PROVE  ClosedDay(s.calendar, day) <=> ~WorkingDay(s.calendar, day)
  OBVIOUS
<1>1. s.calendar.open \cap s.calendar.closed = {}
  BY ValidSchedules DEF ValidCalendar
<1> QED BY <1>1 DEF ClosedDay, WorkingDay

LEMMA NonWorkingOccurrences ==
    ASSUME NEW s, ValidSchedule(s), NEW t, t # ZeroTime
    PROVE  IsNonWorkingOccurrence(s, t) <=> ~WorkingDay(s.calendar, LocalDay(s.zone, t))
<1>1. CASE s.calendar = NoCalendar
  BY <1>1 DEF IsNonWorkingOccurrence, WorkingDay
<1>2. CASE s.calendar # NoCalendar
  BY <1>2, ClosedMeansNoWork DEF IsNonWorkingOccurrence
<1> QED BY <1>1, <1>2

(* What a schedule that rolls forward finds is on a working day.           *)
LEMMA RolledIsWorking ==
    ASSUME NEW s, ValidSchedule(s), SearchDays \in Nat, NEW now, s.policy = "roll_forward",
           NextSchedule(s, now) # ZeroTime
    PROVE  WorkingDay(s.calendar, LocalDay(s.zone, NextSchedule(s, now)))
<1> DEFINE t == Next(s, now)
           candidate(n) == Date(s.zone, LocalDay(s.zone, AddDays(s.zone, t, n)), LocalClock(s.zone, t))
           open == {n \in 1..SearchDays : ~IsNonWorkingOccurrence(s, candidate(n))}
<1>1. s.calendar # NoCalendar
  BY ValidSchedules
<1>2. NextSchedule(s, now) = RollForward(s, t)
  BY <1>1 DEF NextSchedule
<1>3. RollForward(s, t) = IF ~IsNonWorkingOccurrence(s, t) THEN t
                          ELSE IF open # {} THEN candidate(Earliest(open)) ELSE ZeroTime
  BY DEF RollForward
<1>4. ASSUME open # {} PROVE ~IsNonWorkingOccurrence(s, candidate(Earliest(open)))
  <2>1. open \in SUBSET Nat
    OBVIOUS
  <2>2. Earliest(open) \in open
    <3> HIDE DEF open
    <3> QED BY <1>4, <2>1, EarliestIsLeast
  <2> QED BY <2>2
<1> HIDE DEF t, candidate, open
<1>5. ~IsNonWorkingOccurrence(s, NextSchedule(s, now))
  <2>1. CASE ~IsNonWorkingOccurrence(s, t)
    BY <1>2, <1>3, <2>1
  <2>2. CASE IsNonWorkingOccurrence(s, t) /\ open # {}
    BY <1>2, <1>3, <1>4, <2>2
  <2>3. CASE IsNonWorkingOccurrence(s, t) /\ open = {}
    BY <1>2, <1>3, <2>3
  <2> QED BY <2>1, <2>2, <2>3
<1> QED BY <1>5, NonWorkingOccurrences

-----------------------------------------------------------------------------
(* Occurrences *)

(* An occurrence of a schedule that is not a one-time one *)
IsOccurrence(s, t) ==
    IF s.type = "interval" THEN t > s.at /\ (t - s.at) % s.interval = 0
    ELSE \E day \in Int : OccursOn(s, day) /\ t = OccurrenceOn(s, day)

LEMMA OccurrencesAre ==
    ASSUME NEW s, Steady(s.zone), s.type # "interval" => s.clock \in Clocks,
           NEW from \in Int, NEW to \in Int
    PROVE  OccurrencesBetween(s, from, to) = {t \in (from + 1)..to : IsOccurrence(s, t)}
<1>1. CASE s.type = "interval"
  BY <1>1 DEF OccurrencesBetween, IsOccurrence
<1>2. CASE s.type # "interval"
  <2>0. Steady(s.zone) /\ s.clock \in Clocks
    BY <1>2 DEF RegularRule
  <2>1. LocalDay(s.zone, from) \in Int /\ LocalDay(s.zone, to) \in Int
    BY <2>0, SteadyLocal
  <2>2. OccurrencesBetween(s, from, to)
          = {OccurrenceOn(s, day) :
                day \in {d \in LocalDay(s.zone, from)..LocalDay(s.zone, to) :
                            OccursOn(s, d) /\ OccurrenceOn(s, d) \in (from + 1)..to}}
    BY <1>2 DEF OccurrencesBetween
  <2>3. ASSUME NEW t \in (from + 1)..to, IsOccurrence(s, t)
        PROVE  t \in OccurrencesBetween(s, from, to)
    <3>1. PICK day \in Int : OccursOn(s, day) /\ t = OccurrenceOn(s, day)
      BY <1>2, <2>3 DEF IsOccurrence
    <3>2. t > from /\ t <= to
      OBVIOUS
    <3>3. day >= LocalDay(s.zone, from) /\ day <= LocalDay(s.zone, to)
      BY <2>0, <3>1, <3>2, DaysAround DEF OccurrenceOn
    <3>4. day \in LocalDay(s.zone, from)..LocalDay(s.zone, to)
      BY <2>1, <3>3
    <3> QED BY <2>2, <3>1, <3>4
  <2>4. ASSUME NEW t \in OccurrencesBetween(s, from, to)
        PROVE  t \in (from + 1)..to /\ IsOccurrence(s, t)
    <3>1. PICK day \in LocalDay(s.zone, from)..LocalDay(s.zone, to) :
              OccursOn(s, day) /\ OccurrenceOn(s, day) \in (from + 1)..to
              /\ t = OccurrenceOn(s, day)
      BY <2>2, <2>4
    <3>2. day \in Int
      BY <2>1
    <3> QED BY <1>2, <3>1, <3>2 DEF IsOccurrence
  <2> QED BY <2>3, <2>4
<1> QED BY <1>1, <1>2

LEMMA NextOnRule ==
    ASSUME NEW s, RegularRule(s), s.type \in {"daily_at", "weekly_at"}, NEW now \in Int
    PROVE  \E d \in Int : /\ OnRule(s, d) /\ Next(s, now) = OccurrenceOn(s, d)
                          /\ OccurrenceOn(s, d) > now
                          /\ \A e \in Int : OnRule(s, e) /\ OccurrenceOn(s, e) > now => d <= e
<1>0. OnADay(s)
  BY DEF RegularRule, OnADay
<1>1. CASE s.type = "daily_at"
  <2>1. \A d : OnRule(s, d)
    BY <1>1 DEF OnRule
  <2>2. Next(s, now) = NextDaily(s.zone, now, s.clock)
    BY <1>1 DEF Next
  <2> QED BY <1>0, <1>1, <2>1, <2>2, NextDailyIsFirst
<1>2. CASE s.type = "weekly_at"
  <2>1. \A d : OnRule(s, d) <=> Weekday(d) = s.weekday
    BY <1>2 DEF OnRule
  <2>2. Next(s, now) = NextWeekly(s.zone, now, s.weekday, s.clock)
    BY <1>2 DEF Next
  <2>3. s.weekday \in 0..6
    BY <1>2, ValidSchedules DEF RegularRule
  <2> QED BY <1>0, <1>2, <2>1, <2>2, <2>3, NextWeeklyIsFirst
<1> QED BY <1>1, <1>2

(* Rolling forward goes by days.                                           *)
LEMMA RollsByDays ==
    ASSUME NEW s, RegularRule(s), SearchDays \in Nat, s.type \in {"daily_at", "weekly_at"},
           NEW d \in Int, OccurrenceOn(s, d) > 0
    PROVE  LET open == {n \in 1..SearchDays : WorkingDay(s.calendar, d + n)}
           IN  RollForward(s, OccurrenceOn(s, d))
                 = IF WorkingDay(s.calendar, d) THEN OccurrenceOn(s, d)
                   ELSE IF open # {} THEN OccurrenceOn(s, d + Earliest(open)) ELSE ZeroTime
<1> DEFINE t == OccurrenceOn(s, d)
           candidate(n) == Date(s.zone, LocalDay(s.zone, AddDays(s.zone, t, n)), LocalClock(s.zone, t))
           open == {n \in 1..SearchDays : ~IsNonWorkingOccurrence(s, candidate(n))}
           least == Earliest(open)
<1>0. Steady(s.zone) /\ s.clock \in Clocks /\ ValidSchedule(s)
  BY DEF RegularRule
<1>1. t \in Int /\ LocalDay(s.zone, t) = d /\ LocalClock(s.zone, t) = s.clock
  BY <1>0, SteadyDate DEF OccurrenceOn
<1>2. \A n \in Int : candidate(n) = OccurrenceOn(s, d + n)
  BY <1>0, <1>1, SteadyAddDays DEF OccurrenceOn
<1>3. \A n \in Nat : OccurrenceOn(s, d + n) > 0 /\ OccurrenceOn(s, d + n) # ZeroTime
  <2> TAKE n \in Nat
  <2>1. d + n \in Int /\ d <= d + n
    OBVIOUS
  <2>2. OccurrenceOn(s, d) <= OccurrenceOn(s, d + n)
    BY <1>0, <2>1, DaysInOrder DEF OccurrenceOn
  <2>3. OccurrenceOn(s, d + n) \in Int
    BY <1>0, <2>1, SteadyDate DEF OccurrenceOn
  <2> QED BY <1>1, <2>2, <2>3 DEF ZeroTime
<1>4. \A n \in Nat : IsNonWorkingOccurrence(s, OccurrenceOn(s, d + n))
                        <=> ~WorkingDay(s.calendar, d + n)
  <2> TAKE n \in Nat
  <2>0. d + n \in Int
    OBVIOUS
  <2> HIDE DEF t, candidate, open, least
  <2>1. LocalDay(s.zone, OccurrenceOn(s, d + n)) = d + n
    BY <1>0, <2>0, SteadyDate DEF OccurrenceOn
  <2> QED BY <1>0, <1>3, <2>1, NonWorkingOccurrences
<1>5. IsNonWorkingOccurrence(s, t) <=> ~WorkingDay(s.calendar, d)
  <2>1. d + 0 = d /\ 0 \in Nat
    OBVIOUS
  <2> QED BY <1>4, <2>1
<1>6. RollForward(s, t) = IF ~IsNonWorkingOccurrence(s, t) THEN t
                          ELSE IF open # {} THEN candidate(least) ELSE ZeroTime
  BY DEF RollForward
<1>7. open = {n \in 1..SearchDays : WorkingDay(s.calendar, d + n)}
  <2>1. ASSUME NEW n \in 1..SearchDays
        PROVE  ~IsNonWorkingOccurrence(s, candidate(n)) <=> WorkingDay(s.calendar, d + n)
    <3>1. n \in Nat /\ candidate(n) = OccurrenceOn(s, d + n)
      BY <1>2
    <3> HIDE DEF candidate
    <3> QED BY <1>4, <3>1
  <2> HIDE DEF candidate
  <2> QED BY <2>1
<1>8. open # {} => candidate(least) = OccurrenceOn(s, d + least)
  <2> HAVE open # {}
  <2>1. open \in SUBSET Nat
    OBVIOUS
  <2>2. least \in open
    <3> HIDE DEF open
    <3> QED BY <2>1, EarliestIsLeast
  <2> QED BY <1>2, <2>2
<1> DEFINE working == {n \in 1..SearchDays : WorkingDay(s.calendar, d + n)}
<1> HIDE DEF candidate, open
<1>9. RollForward(s, t)
        = IF WorkingDay(s.calendar, d) THEN t
          ELSE IF working # {} THEN OccurrenceOn(s, d + Earliest(working)) ELSE ZeroTime
  <2>1. open = working
    BY <1>7
  <2> QED BY <1>5, <1>6, <1>8, <2>1
<1> QED BY <1>9

(* Rolling forward ends on the first working day, if on any.               *)
LEMMA RolledForward ==
    ASSUME NEW s, RegularRule(s), SearchDays \in Nat, s.type \in {"daily_at", "weekly_at"},
           NEW d \in Int, OccurrenceOn(s, d) > 0,
           RollForward(s, OccurrenceOn(s, d)) # ZeroTime
    PROVE  \E e \in Int : /\ d <= e /\ WorkingDay(s.calendar, e)
                          /\ RollForward(s, OccurrenceOn(s, d)) = OccurrenceOn(s, e)
                          /\ \A x \in d..(e - 1) : ~WorkingDay(s.calendar, x)
<1> DEFINE open == {n \in 1..SearchDays : WorkingDay(s.calendar, d + n)}
           least == Earliest(open)
           rolled == RollForward(s, OccurrenceOn(s, d))
<1>1. rolled = IF WorkingDay(s.calendar, d) THEN OccurrenceOn(s, d)
               ELSE IF open # {} THEN OccurrenceOn(s, d + least) ELSE ZeroTime
  BY RollsByDays
<1>2. rolled # ZeroTime
  OBVIOUS
<1> HIDE DEF rolled
<1>3. CASE WorkingDay(s.calendar, d)
  <2>1. \A x \in d..(d - 1) : FALSE
    OBVIOUS
  <2> QED BY <1>1, <1>3, <2>1 DEF rolled
<1>4. CASE ~WorkingDay(s.calendar, d)
  <2>1. open # {} /\ rolled = OccurrenceOn(s, d + least)
    BY <1>1, <1>2, <1>4
  <2>2. least \in open /\ \A n \in open : least <= n
    <3>1. open \in SUBSET Nat
      OBVIOUS
    <3> HIDE DEF open
    <3> QED BY <2>1, <3>1, EarliestIsLeast
  <2> HIDE DEF least
  <2>3. least \in 1..SearchDays /\ WorkingDay(s.calendar, d + least)
    BY <2>2
  <2>4. ASSUME NEW x \in d..(d + least - 1) PROVE ~WorkingDay(s.calendar, x)
    <3>1. CASE x = d
      BY <1>4, <3>1
    <3>2. CASE x # d
      <4>1. x - d \in 1..SearchDays /\ d + (x - d) = x /\ x - d < least
        BY <2>3, <3>2
      <4>2. x - d \notin open
        BY <2>2, <2>3, <4>1
      <4> QED BY <4>1, <4>2
    <3> QED BY <3>1, <3>2
  <2>5. d + least \in Int /\ d <= d + least
    BY <2>3
  <2> HIDE DEF open
  <2> QED BY <2>1, <2>3, <2>4, <2>5 DEF rolled
<1> QED BY <1>3, <1>4

LEMMA LaterDays ==
    ASSUME NEW zone, Steady(zone), NEW from \in Int, NEW now \in Int, from <= now
    PROVE  /\ LocalDay(zone, from) \in Int /\ LocalDay(zone, now) \in Int
           /\ LocalDay(zone, from) <= LocalDay(zone, now)
<1>1. /\ LocalDay(zone, from) \in Int /\ LocalClock(zone, from) \in Clocks
      /\ Date(zone, LocalDay(zone, from), LocalClock(zone, from)) = from
      /\ LocalDay(zone, now) \in Int
  BY SteadyLocal
<1> QED BY <1>1, DaysAround

LEMMA DaysOfTheEpoch ==
    ASSUME NEW zone, Steady(zone), NEW from \in Int, LocalDay(zone, from) >= 0,
           NEW now \in Int, from <= now
    PROVE  LocalDay(zone, now) \in Nat
BY LaterDays

(* Rolling forward, an occurrence after now is not before the next day the *)
(* rule names, if none is pending.                                         *)
LEMMA RuledBefore ==
    ASSUME NEW s, RegularRule(s), s.type \in {"daily_at", "weekly_at"},
           s.policy = "roll_forward", NEW now \in Int, NonePending(s, now),
           NEW d \in Int, \A e \in Int : OnRule(s, e) /\ OccurrenceOn(s, e) > now => d <= e,
           NEW f \in Int, OccursOn(s, f), OccurrenceOn(s, f) > now
    PROVE  d <= f
<1>0. Steady(s.zone) /\ s.clock \in Clocks
  BY DEF RegularRule
<1>1. \A e \in Int : OccurrenceOn(s, e) \in Int
  BY <1>0, SteadyDate DEF OccurrenceOn
<1>2. \A e, g \in Int : e < g <=> OccurrenceOn(s, e) < OccurrenceOn(s, g)
  BY <1>0, DaysInOrder DEF OccurrenceOn
<1>3. PICK g \in 0..f : OnRule(s, g) /\ \A x \in g..(f - 1) : ~WorkingDay(s.calendar, x)
  BY DEF OccursOn
<1>4. CASE s.type = "daily_at"
  BY <1>4 DEF OnRule
<1>5. CASE s.type = "weekly_at"
  <2>1. SUFFICES ASSUME g < d PROVE FALSE
    BY <1>3
  <2>2. OccurrenceOn(s, g) <= now
    BY <1>1, <1>3, <2>1
  <2>3. g \in 0..LocalDay(s.zone, now)
    BY <1>0, <1>3, <2>2, SteadyLocal, DaysAround DEF OccurrenceOn
  <2>4. PICK c \in g..LocalDay(s.zone, now) :
                WorkingDay(s.calendar, c) /\ OccurrenceOn(s, c) <= now
    BY <1>3, <1>5, <2>2, <2>3 DEF NonePending
  <2>5. LocalDay(s.zone, now) \in Int
    BY <1>0, SteadyLocal
  <2>6. c < f
    BY <1>1, <1>2, <2>4, <2>5
  <2>7. c \in g..(f - 1)
    BY <1>3, <2>4, <2>5, <2>6
  <2> QED BY <1>3, <2>4, <2>7
<1> QED BY <1>4, <1>5

(* The next window of a daily or weekly schedule is its next occurrence.   *)
LEMMA NextOnTheClock ==
    ASSUME NEW s, RegularRule(s), SearchDays \in Nat, s.type \in {"daily_at", "weekly_at"},
           NEW now \in Nat, LocalDay(s.zone, now) \in Nat, NextSchedule(s, now) # ZeroTime
    PROVE  /\ NextSchedule(s, now) \in Int /\ NextSchedule(s, now) > now
           /\ IsOccurrence(s, NextSchedule(s, now))
           /\ NonePending(s, now) =>
                \A t \in Int : now < t /\ t < NextSchedule(s, now) => ~IsOccurrence(s, t)
<1>0. Steady(s.zone) /\ s.clock \in Clocks /\ ValidSchedule(s)
  BY DEF RegularRule
<1>1. PICK d \in Int : /\ OnRule(s, d) /\ Next(s, now) = OccurrenceOn(s, d)
                       /\ OccurrenceOn(s, d) > now
                       /\ \A e \in Int : OnRule(s, e) /\ OccurrenceOn(s, e) > now => d <= e
  BY NextOnRule
<1>2. d \in Nat
  <2>1. LocalDay(s.zone, now) \in Nat
    OBVIOUS
  <2>2. d >= LocalDay(s.zone, now)
    BY <1>0, <1>1, DaysAround DEF OccurrenceOn
  <2> QED BY <2>1, <2>2
<1>3. \A e \in Int : OccurrenceOn(s, e) \in Int
  BY <1>0, SteadyDate DEF OccurrenceOn
<1>4. \A e, f \in Int : e < f <=> OccurrenceOn(s, e) < OccurrenceOn(s, f)
  BY <1>0, DaysInOrder DEF OccurrenceOn
<1>5. CASE s.policy # "roll_forward"
  <2>1. NextSchedule(s, now) = OccurrenceOn(s, d)
    BY <1>1, <1>5 DEF NextSchedule
  <2>2. \A e : OccursOn(s, e) <=> OnRule(s, e)
    BY <1>5 DEF OccursOn
  <2>3. IsOccurrence(s, OccurrenceOn(s, d))
    BY <1>1, <2>2 DEF IsOccurrence
  <2>4. ASSUME NEW t \in Int, now < t, t < OccurrenceOn(s, d), IsOccurrence(s, t) PROVE FALSE
    <3>1. PICK e \in Int : OnRule(s, e) /\ t = OccurrenceOn(s, e)
      BY <2>2, <2>4 DEF IsOccurrence
    <3>2. d <= e /\ e < d
      BY <1>1, <1>4, <2>4, <3>1
    <3> QED BY <3>2
  <2> QED BY <1>1, <1>3, <2>1, <2>3, <2>4
<1>6. CASE s.policy = "roll_forward"
  <2>1. NextSchedule(s, now) = RollForward(s, OccurrenceOn(s, d))
    BY <1>0, <1>1, <1>6, ValidSchedules DEF NextSchedule
  <2>2. OccurrenceOn(s, d) > 0
    BY <1>1, <1>3
  <2>3. PICK e \in Int : /\ d <= e /\ WorkingDay(s.calendar, e)
                         /\ NextSchedule(s, now) = OccurrenceOn(s, e)
                         /\ \A x \in d..(e - 1) : ~WorkingDay(s.calendar, x)
    BY <2>1, <2>2, RolledForward
  <2>4. NextSchedule(s, now) > now
    <3>1. OccurrenceOn(s, d) <= OccurrenceOn(s, e)
      BY <1>0, <2>3, DaysInOrder DEF OccurrenceOn
    <3> QED BY <1>1, <1>3, <2>3, <3>1
  <2>5. IsOccurrence(s, OccurrenceOn(s, e))
    <3>1. d \in 0..e
      BY <1>2, <2>3
    <3>2. OccursOn(s, e)
      BY <1>1, <1>6, <2>3, <3>1 DEF OccursOn
    <3> QED BY <3>2 DEF IsOccurrence
  <2>6. ASSUME NonePending(s, now), NEW t \in Int, now < t, t < OccurrenceOn(s, e),
               IsOccurrence(s, t)
        PROVE  FALSE
    <3>1. PICK f \in Int : OccursOn(s, f) /\ t = OccurrenceOn(s, f)
      BY <2>6 DEF IsOccurrence
    <3>2. f < e
      BY <1>4, <2>6, <3>1
    <3>3. WorkingDay(s.calendar, f)
      BY <1>6, <3>1 DEF OccursOn
    <3>4. d <= f
      BY <1>1, <1>6, <2>6, <3>1, RuledBefore
    <3>5. f \in d..(e - 1)
      BY <3>2, <3>4
    <3> QED BY <2>3, <3>3, <3>5
  <2> QED BY <1>3, <2>3, <2>4, <2>5, <2>6
<1> QED BY <1>5, <1>6
-----------------------------------------------------------------------------
(* Intervals *)

LEMMA Division ==
    ASSUME NEW n \in Nat \ {0}, NEW x \in Int
    PROVE  /\ x \div n \in Int /\ (x % n) \in 0..(n - 1)
           /\ x = (x \div n) * n + (x % n)
OBVIOUS

LEMMA StepsOfAnInterval ==
    ASSUME NEW n \in Nat \ {0}, NEW x \in Int, x % n = 0
    PROVE  /\ (x + n) % n = 0
           /\ \A d \in 1..(n - 1) : (x + d) % n # 0
           /\ \A k \in Int : (x + k * n) % n = 0
<1>1. PICK q \in Int : x = q * n
  <2>1. x \div n \in Int /\ x = (x \div n) * n + (x % n)
    BY Division
  <2> DEFINE q == x \div n
  <2>2. q \in Int /\ x = q * n + 0
    BY <2>1
  <2> HIDE DEF q
  <2>3. q * n \in Int
    BY <2>2
  <2> QED BY <2>2, <2>3
<1>2. \A y \in Int, d \in 0..(n - 1) : (y * n + d) % n = d
  OBVIOUS
<1>3. ASSUME NEW k \in Int PROVE (x + k * n) % n = 0
  <2>1. x + k * n = (q + k) * n + 0 /\ q + k \in Int /\ 0 \in 0..(n - 1)
    BY <1>1
  <2> QED BY <1>2, <2>1
<1>4. (x + n) % n = 0
  <2>1. x + 1 * n = x + n
    OBVIOUS
  <2> QED BY <1>3, <2>1
<1>5. \A d \in 1..(n - 1) : (x + d) % n # 0
  BY <1>1, <1>2
<1> QED BY <1>3, <1>4, <1>5

LEMMA NextOfAnInterval ==
    ASSUME NEW s, Regular(s), s.type = "interval",
           NEW now \in Int, now = s.at \/ IsOccurrence(s, now)
    PROVE  /\ NextSchedule(s, now) = now + s.interval
           /\ NextSchedule(s, now) \in Int /\ NextSchedule(s, now) > now
           /\ IsOccurrence(s, NextSchedule(s, now))
           /\ \A t \in Int : now < t /\ t < NextSchedule(s, now) => ~IsOccurrence(s, t)
<1> DEFINE x == now - s.at
<1>1. s.interval \in Nat \ {0} /\ s.at \in Int
  BY ValidSchedules DEF Regular, RegularRule
<1>2. NextSchedule(s, now) = now + s.interval
  <2>1. s.calendar = NoCalendar
    BY ValidSchedules DEF Regular, RegularRule
  <2> QED BY <2>1 DEF NextSchedule, Next
<1>3. x \in Int /\ x % s.interval = 0 /\ s.at <= now
  BY <1>1 DEF IsOccurrence
<1>4. (now + s.interval) - s.at = x + s.interval
  BY <1>1
<1>5. IsOccurrence(s, now + s.interval)
  <2>1. (x + s.interval) % s.interval = 0
    <3> HIDE DEF x
    <3> QED BY <1>1, <1>3, StepsOfAnInterval
  <2>2. ((now + s.interval) - s.at) % s.interval = 0
    BY <1>4, <2>1
  <2>3. now + s.interval > s.at
    BY <1>1, <1>3
  <2> QED BY <2>2, <2>3 DEF IsOccurrence
<1>6. ASSUME NEW t \in Int, now < t, t < now + s.interval PROVE ~IsOccurrence(s, t)
  <2>1. t - now \in 1..(s.interval - 1) /\ t - s.at = x + (t - now)
    BY <1>1, <1>6
  <2>2. (x + (t - now)) % s.interval # 0
    BY <1>1, <1>3, <2>1, StepsOfAnInterval
  <2> QED BY <2>1, <2>2 DEF IsOccurrence
<1> QED BY <1>1, <1>2, <1>5, <1>6

(* The phase of an interval is kept.                                       *)
LEMMA NextAfterInterval ==
    ASSUME NEW s, Regular(s), s.type = "interval",
           NEW cursor \in Int, IsOccurrence(s, cursor), NEW now \in Int, cursor <= now
    PROVE  /\ NextAfter(s, cursor, now) \in Int /\ NextAfter(s, cursor, now) > now
           /\ IsOccurrence(s, NextAfter(s, cursor, now))
<1> DEFINE n == s.interval
           steps == (now - cursor) \div n + 1
<1>1. n \in Nat \ {0} /\ s.at \in Int
  BY ValidSchedules DEF Regular, RegularRule
<1>2. NextAfter(s, cursor, now) = cursor + steps * n
  BY DEF NextAfter
<1>3. (now - cursor) \div n \in Int /\ (now - cursor) % n \in 0..(n - 1)
      /\ now - cursor = ((now - cursor) \div n) * n + ((now - cursor) % n)
  <2> now - cursor \in Int
    OBVIOUS
  <2> QED BY <1>1, Division
<1>4. steps \in Int /\ steps * n = ((now - cursor) \div n) * n + n
  <2> DEFINE quotient == (now - cursor) \div n
  <2>1. quotient \in Int /\ n \in Int
    BY <1>1, <1>3
  <2>2. steps = quotient + 1
    OBVIOUS
  <2> HIDE DEF quotient, steps, n
  <2>3. steps \in Int /\ steps * n = quotient * n + n
    BY <2>1, <2>2
  <2> QED BY <2>3 DEF quotient
<1>5. steps * n \in Int /\ cursor + steps * n > now
  BY <1>1, <1>3, <1>4
<1> HIDE DEF steps
<1>6. (cursor - s.at) % n = 0 /\ cursor > s.at
  BY DEF IsOccurrence
<1>7. ((cursor - s.at) + steps * n) % n = 0
  <2>1. cursor - s.at \in Int
    BY <1>1
  <2> HIDE DEF n
  <2> QED BY <1>1, <1>4, <1>6, <2>1, StepsOfAnInterval
<1>8. (cursor + steps * n) - s.at = (cursor - s.at) + steps * n
  BY <1>1, <1>5
<1>9. IsOccurrence(s, cursor + steps * n)
  BY <1>1, <1>5, <1>6, <1>7, <1>8 DEF IsOccurrence
<1> QED BY <1>2, <1>5, <1>9
-----------------------------------------------------------------------------
(* Windows to run, for every schedule *)

Working(s, t) == WorkingDay(s.calendar, LocalDay(s.zone, t))

(* What a schedule that rolls forward has for a cursor or a window         *)
Rolled(s, t) == s.policy = "roll_forward" => t = ZeroTime \/ Working(s, t)

LEMMA NextIsRolled ==
    ASSUME NEW s, ValidSchedule(s), SearchDays \in Nat, NEW t
    PROVE  Rolled(s, NextSchedule(s, t)) /\ Rolled(s, NextFromCursor(s, t))
           /\ Rolled(s, NextWindow(s, t))
<1>1. Rolled(s, NextSchedule(s, t))
  BY RolledIsWorking DEF Rolled, Working
<1>2. Rolled(s, ZeroTime)
  BY DEF Rolled
<1> QED BY <1>1, <1>2 DEF NextFromCursor, NextWindow

LEMMA FutureIsRolled ==
    ASSUME NEW s, ValidSchedule(s), SearchDays \in Nat, NEW cursor, NEW now
    PROVE  Rolled(s, NextAfter(s, cursor, now))
<1>1. CASE s.type = "once"
  BY <1>1 DEF NextAfter, Rolled
<1>2. CASE s.type = "interval"
  BY <1>2, ValidSchedules DEF Rolled
<1>3. CASE s.type \notin {"once", "interval"}
  <2>1. NextAfter(s, cursor, now) = NextSchedule(s, now)
    BY <1>3 DEF NextAfter
  <2> QED BY <2>1, NextIsRolled
<1> QED BY <1>1, <1>2, <1>3

(* What is not skipped is worked on.                                       *)
LEMMA UnskippedIsWorking ==
    ASSUME NEW s, ValidSchedule(s), NEW t, t # ZeroTime, Rolled(s, t), ~SkipsOccurrence(s, t)
    PROVE  Working(s, t)
<1>1. CASE s.calendar = NoCalendar
  BY <1>1 DEF Working, WorkingDay
<1>2. CASE s.calendar # NoCalendar /\ s.policy = "roll_forward"
  BY <1>2 DEF Rolled
<1>3. CASE s.calendar # NoCalendar /\ s.policy = "skip"
  BY <1>3, NonWorkingOccurrences DEF SkipsOccurrence, Working
<1> QED BY <1>1, <1>2, <1>3, ValidSchedules

(* A resolution has these windows and this cursor after them.              *)
Yields(r, windows, after) ==
    r = Resolution(windows, after, r.disable) /\ r.disable \in BOOLEAN

LEMMA ResolutionYields ==
    ASSUME NEW windows, NEW after, NEW disable \in BOOLEAN
    PROVE  Yields(Resolution(windows, after, disable), windows, after)
BY DEF Resolution, Yields

LEMMA YieldedFields ==
    ASSUME NEW r, NEW windows, NEW after, Yields(r, windows, after)
    PROVE  r.windows = windows /\ r.cursorAfter = after /\ r.disable \in BOOLEAN
<1>1. r = [windows |-> windows, cursorAfter |-> after, disable |-> r.disable]
  BY DEF Yields, Resolution
<1> QED BY <1>1 DEF Yields

(* The windows of a catch-up: how many are taken, and what they are.       *)
DueAt(s, cursor, now, i) ==
    WindowsFrom(s, cursor)[i] # ZeroTime /\ WindowsFrom(s, cursor)[i] <= now

RunsAt(s, cursor, now, i) ==
    DueAt(s, cursor, now, i) /\ ~SkipsOccurrence(s, WindowsFrom(s, cursor)[i])

FirstOnes(s, cursor, taken) == [i \in 1..taken |-> WindowsFrom(s, cursor)[i - 1]]

(* The cursor after so many windows                                        *)
AfterThem(s, cursor, now, count, future, taken) ==
    IF ~DueAt(s, cursor, now, taken) THEN ZeroTime
    ELSE IF taken < count THEN WindowsFrom(s, cursor)[taken] ELSE future

LEMMA TakenWindows ==
    ASSUME NEW s, NEW cursor, NEW now, NEW count \in Nat, NEW future
    PROVE  \E taken \in 0..count :
              /\ \A i \in 0..(taken - 1) : RunsAt(s, cursor, now, i)
              /\ taken < count => ~RunsAt(s, cursor, now, taken)
              /\ Yields(CatchUpBounded(s, cursor, now, count, future),
                        FirstOnes(s, cursor, taken),
                        AfterThem(s, cursor, now, count, future, taken))
<1> DEFINE ends == {i \in 0..count : i < count => ~RunsAt(s, cursor, now, i)}
           taken == Earliest(ends)
<1>1. ends \in SUBSET Nat /\ count \in ends
  OBVIOUS
<1>2. taken \in ends /\ \A i \in ends : taken <= i
  <2> HIDE DEF ends
  <2> QED BY <1>1, EarliestIsLeast
<1>3. CatchUpBounded(s, cursor, now, count, future)
        = Resolution(FirstOnes(s, cursor, taken),
                     CASE ~DueAt(s, cursor, now, taken) -> ZeroTime
                       [] DueAt(s, cursor, now, taken) /\ taken < count
                            -> WindowsFrom(s, cursor)[taken]
                       [] DueAt(s, cursor, now, taken) /\ taken = count -> future,
                     FALSE)
  BY DEF CatchUpBounded, DueAt, RunsAt, FirstOnes
<1> HIDE DEF taken
<1>4. taken \in 0..count /\ (taken < count => ~RunsAt(s, cursor, now, taken))
  BY <1>2
<1>5. ASSUME NEW i \in 0..(taken - 1) PROVE RunsAt(s, cursor, now, i)
  <2>1. i \in 0..count /\ i < count /\ i < taken
    BY <1>4
  <2>2. i \notin ends
    BY <1>2, <1>4, <2>1
  <2> QED BY <2>1, <2>2
<1> HIDE DEF ends
<1>6. (CASE ~DueAt(s, cursor, now, taken) -> ZeroTime
         [] DueAt(s, cursor, now, taken) /\ taken < count -> WindowsFrom(s, cursor)[taken]
         [] DueAt(s, cursor, now, taken) /\ taken = count -> future)
       = AfterThem(s, cursor, now, count, future, taken)
  <2>1. taken = count \/ taken < count
    BY <1>4
  <2> QED BY <1>4, <2>1 DEF AfterThem
<1>7. Yields(CatchUpBounded(s, cursor, now, count, future), FirstOnes(s, cursor, taken),
             AfterThem(s, cursor, now, count, future, taken))
  <2>1. FALSE \in BOOLEAN
    OBVIOUS
  <2>2. CatchUpBounded(s, cursor, now, count, future)
          = Resolution(FirstOnes(s, cursor, taken),
                       AfterThem(s, cursor, now, count, future, taken), FALSE)
    BY <1>3, <1>6, Zenon
  <2>3. Yields(Resolution(FirstOnes(s, cursor, taken),
                          AfterThem(s, cursor, now, count, future, taken), FALSE),
               FirstOnes(s, cursor, taken), AfterThem(s, cursor, now, count, future, taken))
    BY <2>1, ResolutionYields, Zenon
  <2> QED BY <2>2, <2>3, Zenon
<1> QED BY <1>4, <1>5, <1>7

LEMMA WindowsAreRolled ==
    ASSUME NEW s, ValidSchedule(s), SearchDays \in Nat, NEW cursor, Rolled(s, cursor),
           NEW i \in Nat
    PROVE  Rolled(s, WindowsFrom(s, cursor)[i])
<1>1. CASE i = 0
  BY <1>1, WindowsFollow
<1>2. CASE i # 0
  <2>1. i - 1 \in Nat /\ (i - 1) + 1 = i
    BY <1>2
  <2>2. WindowsFrom(s, cursor)[(i - 1) + 1] = NextWindow(s, WindowsFrom(s, cursor)[i - 1])
    BY <2>1, WindowsFollow
  <2> QED BY <2>1, <2>2, NextIsRolled
<1> QED BY <1>1, <1>2

(* The policies, and what a poll makes of a due cursor.                    *)
PolicyType(policy) == policy.misfire \in MisfirePolicies /\ policy.maxCatchup \in Nat

Missed(policy, cursor, now) == policy.misfire # NoPolicy /\ now > cursor + Grace(policy)

LEMMA ResolutionForms ==
    ASSUME NEW s, NEW policy, PolicyType(policy), NEW cursor, NEW now, NEW limit \in Nat \ {0},
           cursor # ZeroTime, cursor <= now
    PROVE  LET r == ResolveMisfire(s, policy, cursor, now, limit)
               future == NextAfter(s, cursor, now)
           IN  \/ /\ SkipsOccurrence(s, cursor)
                  /\ \E after : /\ Yields(r, <<>>, after)
                                /\ r = PastClosedDays(s, cursor, now)
               \/ ~SkipsOccurrence(s, cursor) /\ Yields(r, <<cursor>>, ZeroTime)
               \/ /\ ~SkipsOccurrence(s, cursor) /\ Missed(policy, cursor, now)
                  /\ \/ Yields(r, <<>>, future)
                     \/ Yields(r, <<cursor>>, future)
                     \/ \E count \in Nat \ {0} : r = CatchUpBounded(s, cursor, now, count, future)
<1> DEFINE r == ResolveMisfire(s, policy, cursor, now, limit)
           future == NextAfter(s, cursor, now)
           count == Lesser(IF policy.maxCatchup <= 0 THEN 1 ELSE policy.maxCatchup, limit)
<1>1. limit > 0
  OBVIOUS
<1>2. count \in Nat \ {0}
  BY DEF PolicyType, Lesser
<1> HIDE DEF count
<1>3. CASE SkipsOccurrence(s, cursor)
  <2>1. r = PastClosedDays(s, cursor, now)
    BY <1>1, <1>3 DEF ResolveMisfire
  <2> DEFINE past == PastClosedDays(s, cursor, now)
  <2>2. past = Resolution(<<>>, past.cursorAfter, past.disable) /\ past.disable \in BOOLEAN
    BY DEF PastClosedDays, Resolution
  <2>3. Yields(past, <<>>, past.cursorAfter)
    BY <2>2 DEF Yields
  <2> QED BY <1>3, <2>1, <2>3
<1>4. CASE ~SkipsOccurrence(s, cursor) /\ ~Missed(policy, cursor, now)
  <2>1. r = Resolution(<<cursor>>, ZeroTime, FALSE)
    BY <1>1, <1>4 DEF ResolveMisfire, Missed
  <2>2. Yields(r, <<cursor>>, ZeroTime)
    BY <2>1 DEF Yields, Resolution
  <2> QED BY <1>4, <2>2
<1>5. CASE ~SkipsOccurrence(s, cursor) /\ Missed(policy, cursor, now)
  <2>1. policy.misfire \in {"skip", "catch_up_one", "catch_up_bounded"}
    BY <1>5 DEF PolicyType, MisfirePolicies, Missed
  <2>2. CASE policy.misfire = "skip"
    <3>1. r = Resolution(<<>>, future, future = ZeroTime)
      BY <1>1, <1>5, <2>2 DEF ResolveMisfire, Missed
    <3>2. Yields(r, <<>>, future)
      <4> HIDE DEF r, future
      <4> QED BY <3>1 DEF Yields, Resolution
    <3> QED BY <1>5, <3>2
  <2>3. CASE policy.misfire = "catch_up_one"
    <3>1. r = Resolution(<<cursor>>, future, FALSE)
      BY <1>1, <1>5, <2>3 DEF ResolveMisfire, Missed
    <3>2. Yields(r, <<cursor>>, future)
      <4> HIDE DEF r, future
      <4> QED BY <3>1 DEF Yields, Resolution
    <3> QED BY <1>5, <3>2
  <2>4. CASE policy.misfire = "catch_up_bounded"
    <3>1. r = CatchUpBounded(s, cursor, now, count, future)
      BY <1>1, <1>5, <2>4 DEF ResolveMisfire, Missed, count
    <3> QED BY <1>2, <1>5, <3>1
  <2> QED BY <2>1, <2>2, <2>3, <2>4
<1> QED BY <1>3, <1>4, <1>5

(* A poll returns windows on working days, and a cursor that is rolled.    *)
Workable(s, r) ==
    /\ Yields(r, r.windows, r.cursorAfter)
    /\ \E S : r.windows \in Seq(S) /\ \A t \in S : Working(s, t)
    /\ Rolled(s, r.cursorAfter)

LEMMA YieldsWork ==
    ASSUME NEW s, NEW S, \A t \in S : Working(s, t), NEW windows \in Seq(S),
           NEW after, Rolled(s, after), NEW r, Yields(r, windows, after)
    PROVE  Workable(s, r)
<1>1. r.windows = windows /\ r.cursorAfter = after
  BY YieldedFields
<1>2. Yields(r, r.windows, r.cursorAfter)
  BY <1>1
<1> QED BY <1>1, <1>2 DEF Workable

LEMMA CatchUpIsWork ==
    ASSUME NEW s, ValidSchedule(s), SearchDays \in Nat, NEW cursor, NEW now,
           Rolled(s, cursor), NEW count \in Nat, NEW future, Rolled(s, future)
    PROVE  Workable(s, CatchUpBounded(s, cursor, now, count, future))
<1>1. PICK taken \in 0..count :
          /\ \A i \in 0..(taken - 1) : RunsAt(s, cursor, now, i)
          /\ taken < count => ~RunsAt(s, cursor, now, taken)
          /\ Yields(CatchUpBounded(s, cursor, now, count, future), FirstOnes(s, cursor, taken),
                    AfterThem(s, cursor, now, count, future, taken))
  BY TakenWindows
<1> DEFINE S == {WindowsFrom(s, cursor)[i] : i \in 0..(taken - 1)}
<1>2. \A t \in S : Working(s, t)
  <2> TAKE t \in S
  <2>1. PICK i \in 0..(taken - 1) : t = WindowsFrom(s, cursor)[i]
    OBVIOUS
  <2>2. i \in Nat
    OBVIOUS
  <2> HIDE DEF S
  <2>3. Rolled(s, t)
    BY <2>1, <2>2, WindowsAreRolled
  <2>4. t # ZeroTime /\ ~SkipsOccurrence(s, t)
    BY <1>1, <2>1 DEF RunsAt, DueAt
  <2> QED BY <2>3, <2>4, UnskippedIsWorking
<1>3. FirstOnes(s, cursor, taken) \in Seq(S)
  <2>1. \A i \in 1..taken : i - 1 \in 0..(taken - 1)
    OBVIOUS
  <2>2. \A i \in 1..taken : WindowsFrom(s, cursor)[i - 1] \in S
    BY <2>1
  <2> HIDE DEF S
  <2> QED BY <2>2 DEF FirstOnes
<1>4. Rolled(s, AfterThem(s, cursor, now, count, future, taken))
  <2>1. taken \in Nat
    OBVIOUS
  <2>2. Rolled(s, WindowsFrom(s, cursor)[taken])
    BY <2>1, WindowsAreRolled
  <2>3. Rolled(s, ZeroTime)
    BY DEF Rolled
  <2> QED BY <2>2, <2>3 DEF AfterThem
<1> HIDE DEF S
<1> QED BY <1>1, <1>2, <1>3, <1>4, YieldsWork

LEMMA ResolutionsAreWork ==
    ASSUME NEW s, ValidSchedule(s), SearchDays \in Nat, NEW policy, PolicyType(policy),
           NEW cursor, NEW now, NEW limit \in Nat \ {0},
           cursor # ZeroTime, cursor <= now, Rolled(s, cursor)
    PROVE  Workable(s, ResolveMisfire(s, policy, cursor, now, limit))
<1> DEFINE r == ResolveMisfire(s, policy, cursor, now, limit)
           future == NextAfter(s, cursor, now)
<1>1. Rolled(s, future) /\ Rolled(s, ZeroTime)
  BY FutureIsRolled DEF Rolled
<1>2. \/ /\ SkipsOccurrence(s, cursor)
         /\ \E after : /\ Yields(r, <<>>, after)
                       /\ r = PastClosedDays(s, cursor, now)
      \/ ~SkipsOccurrence(s, cursor) /\ Yields(r, <<cursor>>, ZeroTime)
      \/ /\ ~SkipsOccurrence(s, cursor) /\ Missed(policy, cursor, now)
         /\ \/ Yields(r, <<>>, future)
            \/ Yields(r, <<cursor>>, future)
            \/ \E count \in Nat \ {0} : r = CatchUpBounded(s, cursor, now, count, future)
  BY ResolutionForms
<1> HIDE DEF r, future
<1>3. ASSUME NEW after, Rolled(s, after), Yields(r, <<>>, after) PROVE Workable(s, r)
  <2>1. <<>> \in Seq({}) /\ \A t \in {} : Working(s, t)
    OBVIOUS
  <2> QED BY <1>3, <2>1, YieldsWork
<1>4. ASSUME NEW after, Rolled(s, after), ~SkipsOccurrence(s, cursor),
             Yields(r, <<cursor>>, after)
      PROVE  Workable(s, r)
  <2>1. <<cursor>> \in Seq({cursor})
    OBVIOUS
  <2>2. \A t \in {cursor} : Working(s, t)
    BY <1>4, UnskippedIsWorking
  <2> QED BY <1>4, <2>1, <2>2, YieldsWork
<1>5. ASSUME SkipsOccurrence(s, cursor), NEW after, Yields(r, <<>>, after) PROVE Workable(s, r)
  <2>1. Rolled(s, after)
    BY <1>5 DEF SkipsOccurrence, Rolled
  <2> QED BY <1>3, <1>5, <2>1
<1>6. ASSUME NEW count \in Nat \ {0}, r = CatchUpBounded(s, cursor, now, count, future)
      PROVE  Workable(s, r)
  BY <1>1, <1>6, CatchUpIsWork
<1>7. Workable(s, r)
  BY <1>1, <1>2, <1>3, <1>4, <1>5, <1>6
<1> QED BY <1>7 DEF r
-----------------------------------------------------------------------------
(* The windows of a regular schedule are its occurrences, one by one. *)

Occurs(s, t) == t \in Int /\ t > s.at /\ IsOccurrence(s, t)

Recurs(s) == Regular(s) /\ s.type # "once" /\ NonePending(s, s.at)

LEMMA RecurringSchedules ==
    ASSUME NEW s, Recurs(s)
    PROVE  /\ Regular(s) /\ RegularRule(s) /\ ValidSchedule(s) /\ s.at \in Nat
           /\ s.type \in {"interval", "daily_at", "weekly_at"} /\ s.type # "once"
           /\ Steady(s.zone) /\ (s.type # "interval" => s.clock \in Clocks)
           /\ \A t \in Int : s.at <= t => LocalDay(s.zone, t) \in Nat
BY DaysOfTheEpoch DEF Recurs, Regular, RegularRule

LEMMA OccursInTime ==
    ASSUME NEW s, Recurs(s), NEW t, Occurs(s, t)
    PROVE  t \in Nat \ {0} /\ t # ZeroTime /\ t \in Int
BY RecurringSchedules DEF Occurs, ZeroTime

LEMMA OccurrencesAround ==
    ASSUME NEW s, Recurs(s), NEW t \in Int
    PROVE  t \in OccurrencesBetween(s, t - 1, t) <=> IsOccurrence(s, t)
<1>1. OccurrencesBetween(s, t - 1, t) = {u \in (t - 1 + 1)..t : IsOccurrence(s, u)}
  BY RecurringSchedules, OccurrencesAre
<1>2. t \in (t - 1 + 1)..t
  OBVIOUS
<1> QED BY <1>1, <1>2

(* At an occurrence none is pending.                                       *)
LEMMA NothingPending ==
    ASSUME NEW s, RegularRule(s), s.type \in {"daily_at", "weekly_at"},
           NEW t \in Int, IsOccurrence(s, t)
    PROVE  NonePending(s, t)
<1> SUFFICES ASSUME s.policy = "roll_forward",
                    NEW d \in 0..LocalDay(s.zone, t), OccurrenceOn(s, d) <= t
             PROVE  \E e \in d..LocalDay(s.zone, t) :
                        WorkingDay(s.calendar, e) /\ OccurrenceOn(s, e) <= t
  BY DEF NonePending
<1>1. Steady(s.zone) /\ s.clock \in Clocks
  BY DEF RegularRule
<1>2. PICK f \in Int : OccursOn(s, f) /\ t = OccurrenceOn(s, f)
  BY DEF IsOccurrence
<1>3. LocalDay(s.zone, t) = f
  BY <1>1, <1>2, SteadyDate DEF OccurrenceOn
<1>4. WorkingDay(s.calendar, f)
  BY <1>2 DEF OccursOn
<1> QED BY <1>2, <1>3, <1>4

(* The next window of an occurrence is the next occurrence.                *)
LEMMA NextIsNextOccurrence ==
    ASSUME NEW s, Recurs(s), SearchDays \in Nat, NEW t, t = s.at \/ Occurs(s, t),
           NextSchedule(s, t) # ZeroTime
    PROVE  /\ Occurs(s, NextSchedule(s, t)) /\ NextSchedule(s, t) > t
           /\ \A u \in Int : t < u /\ u < NextSchedule(s, t) => ~IsOccurrence(s, u)
<1>1. /\ Regular(s) /\ RegularRule(s) /\ s.at \in Nat /\ s.type # "once"
      /\ s.type \in {"interval", "daily_at", "weekly_at"}
      /\ \A u \in Int : s.at <= u => LocalDay(s.zone, u) \in Nat
  BY RecurringSchedules
<1>2. t \in Nat /\ s.at <= t /\ (t = s.at \/ IsOccurrence(s, t))
  BY <1>1 DEF Occurs
<1>3. CASE s.type = "interval"
  <2>1. /\ NextSchedule(s, t) \in Int /\ NextSchedule(s, t) > t
        /\ IsOccurrence(s, NextSchedule(s, t))
        /\ \A u \in Int : t < u /\ u < NextSchedule(s, t) => ~IsOccurrence(s, u)
    BY <1>1, <1>2, <1>3, NextOfAnInterval
  <2> QED BY <1>1, <1>2, <2>1 DEF Occurs
<1>4. CASE s.type \in {"daily_at", "weekly_at"}
  <2>1. NonePending(s, t)
    <3>1. CASE t = s.at
      BY <3>1 DEF Recurs
    <3>2. CASE IsOccurrence(s, t)
      BY <1>1, <1>2, <1>4, <3>2, NothingPending
    <3> QED BY <1>2, <3>1, <3>2
  <2>2. /\ NextSchedule(s, t) \in Int /\ NextSchedule(s, t) > t
        /\ IsOccurrence(s, NextSchedule(s, t))
        /\ \A u \in Int : t < u /\ u < NextSchedule(s, t) => ~IsOccurrence(s, u)
    <3>1. LocalDay(s.zone, t) \in Nat
      BY <1>1, <1>2
    <3> QED BY <1>1, <1>2, <1>4, <2>1, <3>1, NextOnTheClock
  <2> QED BY <1>1, <1>2, <2>2 DEF Occurs
<1> QED BY <1>1, <1>3, <1>4

(* What a policy moves the cursor to is an occurrence after now.           *)
LEMMA FutureIsLater ==
    ASSUME NEW s, Recurs(s), SearchDays \in Nat, NEW cursor, Occurs(s, cursor),
           NEW now \in Int, cursor <= now, NextAfter(s, cursor, now) # ZeroTime
    PROVE  Occurs(s, NextAfter(s, cursor, now)) /\ NextAfter(s, cursor, now) > now
<1>1. /\ Regular(s) /\ RegularRule(s) /\ s.at \in Nat /\ s.type # "once"
      /\ s.type \in {"interval", "daily_at", "weekly_at"}
      /\ \A u \in Int : s.at <= u => LocalDay(s.zone, u) \in Nat
  BY RecurringSchedules
<1>2. cursor \in Int /\ cursor > s.at /\ IsOccurrence(s, cursor) /\ now \in Nat /\ now > s.at
  BY <1>1 DEF Occurs
<1>3. CASE s.type = "interval"
  <2>1. /\ NextAfter(s, cursor, now) \in Int /\ NextAfter(s, cursor, now) > now
        /\ IsOccurrence(s, NextAfter(s, cursor, now))
    BY <1>1, <1>2, <1>3, NextAfterInterval
  <2> QED BY <1>1, <1>2, <2>1 DEF Occurs
<1>4. CASE s.type \in {"daily_at", "weekly_at"}
  <2>1. NextAfter(s, cursor, now) = NextSchedule(s, now)
    BY <1>4 DEF NextAfter
  <2>2. /\ NextSchedule(s, now) \in Int /\ NextSchedule(s, now) > now
        /\ IsOccurrence(s, NextSchedule(s, now))
    <3>1. LocalDay(s.zone, now) \in Nat /\ NextSchedule(s, now) # ZeroTime
      BY <1>1, <1>2, <2>1
    <3> QED BY <1>1, <1>2, <1>4, <3>1, NextOnTheClock
  <2> QED BY <1>1, <1>2, <2>1, <2>2 DEF Occurs
<1> QED BY <1>1, <1>3, <1>4

(* The windows from an occurrence on are occurrences in order, none left   *)
(* out, until there is no next.                                            *)
LEMMA WindowsAreOccurrences ==
    ASSUME NEW s, Recurs(s), SearchDays \in Nat, NEW cursor, Occurs(s, cursor), NEW i \in Nat
    PROVE  WindowsFrom(s, cursor)[i] # ZeroTime =>
              Occurs(s, WindowsFrom(s, cursor)[i]) /\ WindowsFrom(s, cursor)[i] >= cursor + i
<1> DEFINE w == WindowsFrom(s, cursor)
           wrong == {n \in Nat : w[n] # ZeroTime /\ ~(Occurs(s, w[n]) /\ w[n] >= cursor + n)}
<1>1. SUFFICES ASSUME wrong # {} PROVE FALSE
  OBVIOUS
<1>2. PICK n \in wrong : \A m \in wrong : n <= m
  <2>1. wrong \in SUBSET Nat
    OBVIOUS
  <2> HIDE DEF wrong
  <2> QED BY <1>1, <2>1, EarliestIsLeast
<1>3. n \in Nat /\ w[n] # ZeroTime /\ ~(Occurs(s, w[n]) /\ w[n] >= cursor + n)
  OBVIOUS
<1>4. n # 0
  <2>1. w[0] = cursor
    BY WindowsFollow
  <2> QED BY <1>3, <2>1 DEF Occurs
<1>5. n - 1 \in Nat /\ (n - 1) + 1 = n /\ n - 1 \notin wrong
  BY <1>2, <1>3, <1>4
<1>6. w[n] = NextWindow(s, w[n - 1])
  <2>1. w[(n - 1) + 1] = NextWindow(s, w[n - 1])
    BY <1>5, WindowsFollow
  <2> QED BY <1>5, <2>1
<1>7. w[n - 1] # ZeroTime /\ w[n] = NextSchedule(s, w[n - 1])
  BY <1>3, <1>6, RecurringSchedules DEF NextWindow, NextFromCursor
<1>8. Occurs(s, w[n - 1]) /\ w[n - 1] >= cursor + (n - 1)
  BY <1>5, <1>7
<1> HIDE DEF w, wrong
<1>9. Occurs(s, w[n]) /\ w[n] > w[n - 1]
  BY <1>3, <1>7, <1>8, NextIsNextOccurrence
<1> QED BY <1>3, <1>8, <1>9 DEF Occurs

LEMMA WindowsInOrder ==
    ASSUME NEW s, Recurs(s), SearchDays \in Nat, NEW cursor, Occurs(s, cursor), NEW i \in Nat,
           WindowsFrom(s, cursor)[i + 1] # ZeroTime
    PROVE  /\ WindowsFrom(s, cursor)[i] # ZeroTime
           /\ WindowsFrom(s, cursor)[i] < WindowsFrom(s, cursor)[i + 1]
           /\ \A t \in Int : WindowsFrom(s, cursor)[i] < t /\ t < WindowsFrom(s, cursor)[i + 1]
                                => ~IsOccurrence(s, t)
<1> DEFINE w == WindowsFrom(s, cursor)
<1>1. w[i + 1] = NextWindow(s, w[i])
  BY WindowsFollow
<1>2. w[i] # ZeroTime /\ w[i + 1] = NextSchedule(s, w[i])
  BY <1>1, RecurringSchedules DEF NextWindow, NextFromCursor
<1>3. Occurs(s, w[i])
  BY <1>2, WindowsAreOccurrences
<1>4. w[i + 1] # ZeroTime
  OBVIOUS
<1> HIDE DEF w
<1>5. w[i + 1] > w[i] /\ \A t \in Int : w[i] < t /\ t < w[i + 1] => ~IsOccurrence(s, t)
  BY <1>2, <1>3, <1>4, NextIsNextOccurrence
<1>6. w[i + 1] \in Int /\ w[i] \in Int
  <2>1. Occurs(s, w[i + 1])
    BY <1>2, <1>3, <1>4, NextIsNextOccurrence
  <2> QED BY <1>3, <2>1 DEF Occurs
<1>7. /\ w[i] # ZeroTime /\ w[i] < w[i + 1]
      /\ \A t \in Int : w[i] < t /\ t < w[i + 1] => ~IsOccurrence(s, t)
  BY <1>2, <1>5, <1>6
<1> QED BY <1>7 DEF w

(* A schedule that skips closed days always has a next window.             *)
LEMMA SkippingGoesOn ==
    ASSUME NEW s, Recurs(s), SearchDays \in Nat, s.policy = "skip", NEW cursor, Occurs(s, cursor),
           NEW i \in Nat
    PROVE  WindowsFrom(s, cursor)[i] # ZeroTime
<1> DEFINE w == WindowsFrom(s, cursor)
           none == {n \in Nat : w[n] = ZeroTime}
<1>1. SUFFICES ASSUME none # {} PROVE FALSE
  OBVIOUS
<1>2. PICK n \in none : \A m \in none : n <= m
  <2>1. none \in SUBSET Nat
    OBVIOUS
  <2> HIDE DEF none
  <2> QED BY <1>1, <2>1, EarliestIsLeast
<1>3. w[0] = cursor /\ cursor # ZeroTime
  BY WindowsFollow, OccursInTime
<1>4. n \in Nat /\ w[n] = ZeroTime /\ n # 0
  BY <1>2, <1>3
<1>5. n - 1 \in Nat /\ (n - 1) + 1 = n /\ n - 1 \notin none
  BY <1>2, <1>4
<1>6. w[n - 1] # ZeroTime /\ Occurs(s, w[n - 1])
  BY <1>5, WindowsAreOccurrences
<1>7. w[(n - 1) + 1] = NextWindow(s, w[n - 1])
  BY <1>5, WindowsFollow
<1> HIDE DEF w, none
<1>8. /\ RegularRule(s) /\ ValidSchedule(s) /\ s.type \in {"interval", "daily_at", "weekly_at"}
      /\ w[n - 1] \in Nat
  BY <1>6, RecurringSchedules, OccursInTime
<1>9. s.type \in {"daily_at", "weekly_at"}
  BY <1>8, ValidSchedules
<1>10. w[n] = Next(s, w[n - 1])
  BY <1>5, <1>6, <1>7, <1>9 DEF NextWindow, NextFromCursor, NextSchedule
<1>11. PICK d \in Int : Next(s, w[n - 1]) = OccurrenceOn(s, d) /\ OccurrenceOn(s, d) > w[n - 1]
  BY <1>8, <1>9, NextOnRule
<1>12. OccurrenceOn(s, d) \in Int
  BY <1>8, <1>9, SteadyDate DEF RegularRule, OccurrenceOn
<1> QED BY <1>4, <1>8, <1>10, <1>11, <1>12 DEF ZeroTime

(* Where there is no next window, there is no occurrence within the search *)
(* for an open day.                                                        *)
LEMMA NoneWithinSearch ==
    ASSUME NEW s, Recurs(s), SearchDays \in Nat, NEW t, Occurs(s, t),
           NextSchedule(s, t) = ZeroTime,
           NEW u \in Int, t < u, u <= t + SearchDays * DayLength
    PROVE  ~IsOccurrence(s, u)
<1>1. /\ Regular(s) /\ RegularRule(s) /\ ValidSchedule(s)
      /\ s.type \in {"interval", "daily_at", "weekly_at"} /\ t \in Nat
  BY RecurringSchedules, OccursInTime
<1>2. IsOccurrence(s, t)
  BY DEF Occurs
<1>3. s.type # "interval"
  <2> SUFFICES ASSUME s.type = "interval" PROVE FALSE
    OBVIOUS
  <2>1. NextSchedule(s, t) > t
    BY <1>1, <1>2, NextOfAnInterval
  <2> QED BY <1>1, <2>1 DEF ZeroTime
<1>4. Steady(s.zone) /\ s.clock \in Clocks /\ s.type \in {"daily_at", "weekly_at"}
  BY <1>1, <1>3 DEF RegularRule
<1>5. \A e \in Int : OccurrenceOn(s, e) \in Int
  BY <1>4, SteadyDate DEF OccurrenceOn
<1>6. PICK d \in Int :
          /\ Next(s, t) = OccurrenceOn(s, d) /\ OccurrenceOn(s, d) > t
          /\ \A e \in Int : OnRule(s, e) /\ OccurrenceOn(s, e) > t => d <= e
  BY <1>1, <1>4, NextOnRule
<1>7. OccurrenceOn(s, d) > 0 /\ OccurrenceOn(s, d) # ZeroTime
  BY <1>1, <1>5, <1>6 DEF ZeroTime
<1>8. s.policy = "roll_forward" /\ RollForward(s, OccurrenceOn(s, d)) = ZeroTime
  BY <1>6, <1>7 DEF NextSchedule
<1> DEFINE open == {n \in 1..SearchDays : WorkingDay(s.calendar, d + n)}
<1>9. RollForward(s, OccurrenceOn(s, d))
        = IF WorkingDay(s.calendar, d) THEN OccurrenceOn(s, d)
          ELSE IF open # {} THEN OccurrenceOn(s, d + Earliest(open)) ELSE ZeroTime
  BY <1>1, <1>4, <1>7, RollsByDays
<1>10. open = {}
  <2> SUFFICES ASSUME open # {} PROVE FALSE
    OBVIOUS
  <2>1. open \in SUBSET Nat
    OBVIOUS
  <2> HIDE DEF open
  <2>2. Earliest(open) \in Nat
    BY <2>1, EarliestIsLeast
  <2>3. d + Earliest(open) \in Int /\ d <= d + Earliest(open)
    BY <2>2
  <2>4. OccurrenceOn(s, d) <= OccurrenceOn(s, d + Earliest(open))
    BY <1>4, <2>3, DaysInOrder DEF OccurrenceOn
  <2>5. OccurrenceOn(s, d + Earliest(open)) \in Int
    BY <1>5, <2>3
  <2> QED BY <1>5, <1>7, <1>8, <1>9, <2>4, <2>5 DEF ZeroTime
<1>11. ~WorkingDay(s.calendar, d)
  BY <1>7, <1>8, <1>9
<1>12. SUFFICES ASSUME IsOccurrence(s, u) PROVE FALSE
  OBVIOUS
<1>13. PICK f \in Int : OccursOn(s, f) /\ u = OccurrenceOn(s, f)
  BY <1>4, <1>12 DEF IsOccurrence
<1>14. d <= f
  <2>1. NonePending(s, t)
    BY <1>1, <1>2, <1>4, NothingPending
  <2> QED BY <1>1, <1>4, <1>6, <1>8, <1>13, <2>1, RuledBefore
<1>15. WorkingDay(s.calendar, f)
  BY <1>8, <1>13 DEF OccursOn
<1>16. f >= d + SearchDays + 1
  <2> SUFFICES ASSUME f <= d + SearchDays PROVE FALSE
    OBVIOUS
  <2>1. f # d
    BY <1>11, <1>15
  <2>2. f - d \in 1..SearchDays /\ d + (f - d) = f
    BY <1>14, <2>1
  <2> QED BY <1>10, <1>15, <2>2
<1>17. OccurrenceOn(s, f) >= OccurrenceOn(s, d) + SearchDays * DayLength
  <2>1. /\ OccurrenceOn(s, f) = f * DayLength + s.clock - s.zone.before
        /\ OccurrenceOn(s, d) = d * DayLength + s.clock - s.zone.before
    BY <1>4, SteadyDate DEF OccurrenceOn
  <2>2. d + SearchDays \in Int /\ (d + SearchDays) * DayLength = d * DayLength + SearchDays * DayLength
    BY DaysHaveLength
  <2>3. (d + SearchDays) * DayLength + DayLength <= f * DayLength
        /\ f * DayLength \in Int
    <3>1. d + SearchDays < f
      BY <1>16
    <3> QED BY <2>2, <3>1, DaysMultiply
  <2>4. s.clock \in Int /\ s.zone.before \in Int /\ d * DayLength \in Int
        /\ SearchDays * DayLength \in Int
    BY <1>4, DaysHaveLength DEF Steady, Clocks
  <2> QED BY <2>1, <2>2, <2>3, <2>4, DaysHaveLength
<1>18. SearchDays * DayLength \in Int
  BY DaysHaveLength
<1> QED BY <1>1, <1>5, <1>6, <1>13, <1>17, <1>18
-----------------------------------------------------------------------------
(* What a poll of a regular schedule returns *)

(* Windows and a cursor after them that are occurrences, in order. A one-  *)
(* time schedule has none after its only one.                              *)
Placed(s, cursor, windows, after) ==
    /\ windows \in Seq(Nat \ {0}) /\ after \in Nat
    /\ s.type = "once" => after = ZeroTime
    /\ s.type # "once" => \A i \in DOMAIN windows : Occurs(s, windows[i])
    /\ s.type # "once" /\ after # ZeroTime => Occurs(s, after)
    /\ after # ZeroTime => after > IF windows = <<>> THEN cursor ELSE windows[Len(windows)]

(* It runs nothing, and there is no work between its cursors.              *)
ClosedBetween(s, cursor, windows, after) ==
    /\ windows = <<>> /\ after # ZeroTime /\ s.type # "once"
    /\ \A t \in Int : cursor <= t /\ t < after /\ IsOccurrence(s, t) => ~Working(s, t)

PassesOver(windows, after) == windows = <<>> \/ after # ZeroTime

LEMMA PlacedNothing ==
    ASSUME NEW s, NEW cursor
    PROVE  Placed(s, cursor, <<>>, ZeroTime)
<1>1. <<>> \in Seq(Nat \ {0}) /\ DOMAIN <<>> = {}
  OBVIOUS
<1> QED BY <1>1 DEF Placed, ZeroTime

LEMMA PlacedOne ==
    ASSUME NEW s, NEW cursor \in Nat \ {0}, s.type # "once" => Occurs(s, cursor)
    PROVE  Placed(s, cursor, <<cursor>>, ZeroTime) /\ ~PassesOver(<<cursor>>, ZeroTime)
<1>1. <<cursor>> \in Seq(Nat \ {0}) /\ DOMAIN <<cursor>> = {1} /\ <<cursor>>[1] = cursor
      /\ <<cursor>> # <<>>
  OBVIOUS
<1> QED BY <1>1 DEF Placed, PassesOver, ZeroTime

(* A cursor on a closed day is moved over closed days only.                *)
LEMMA PastClosedDaysIsPlaced ==
    ASSUME NEW s, Recurs(s), SearchDays \in Nat, NEW cursor, Occurs(s, cursor),
           NEW now \in Int, cursor <= now, SkipsOccurrence(s, cursor)
    PROVE  \E after : /\ Yields(PastClosedDays(s, cursor, now), <<>>, after)
                      /\ Placed(s, cursor, <<>>, after)
                      /\ ClosedBetween(s, cursor, <<>>, after)
<1> DEFINE w == WindowsFrom(s, cursor)
           open == {i \in 0..(now - cursor + 1) : ~(w[i] <= now /\ SkipsOccurrence(s, w[i]))}
           least == Earliest(open)
<1>0. /\ cursor \in Int /\ cursor > s.at /\ s.at \in Nat /\ s.type # "once" /\ ValidSchedule(s)
      /\ w[0] = cursor
  BY RecurringSchedules, WindowsFollow DEF Occurs
<1>1. \A i \in Nat : w[i] # ZeroTime => Occurs(s, w[i]) /\ w[i] >= cursor + i
  BY WindowsAreOccurrences
<1>2. \A i \in Nat : w[i + 1] # ZeroTime =>
          /\ w[i] # ZeroTime /\ w[i] < w[i + 1]
          /\ \A t \in Int : w[i] < t /\ t < w[i + 1] => ~IsOccurrence(s, t)
  BY WindowsInOrder
<1>3. \A t : SkipsOccurrence(s, t) => t # ZeroTime /\ ~Working(s, t)
  <2> TAKE t
  <2> HAVE SkipsOccurrence(s, t)
  <2>1. IsNonWorkingOccurrence(s, t) /\ t # ZeroTime
    BY DEF SkipsOccurrence, IsNonWorkingOccurrence
  <2> QED BY <1>0, <2>1, NonWorkingOccurrences DEF Working
<1>4. PastClosedDays(s, cursor, now) = Resolution(<<>>, w[least], w[least] = ZeroTime)
  BY DEF PastClosedDays
<1> HIDE DEF w
<1>5. open \in SUBSET Nat /\ now - cursor + 1 \in open
  <2>1. now - cursor + 1 \in Nat
    BY <1>0
  <2>2. ~(w[now - cursor + 1] <= now /\ SkipsOccurrence(s, w[now - cursor + 1]))
    <3> SUFFICES ASSUME w[now - cursor + 1] <= now, SkipsOccurrence(s, w[now - cursor + 1])
                 PROVE  FALSE
      OBVIOUS
    <3>1. w[now - cursor + 1] # ZeroTime
      BY <1>3
    <3>2. w[now - cursor + 1] \in Int /\ w[now - cursor + 1] >= cursor + (now - cursor + 1)
      BY <1>1, <2>1, <3>1 DEF Occurs
    <3> QED BY <1>0, <3>2
  <2> QED BY <2>1, <2>2
<1>6. least \in open /\ \A i \in open : least <= i
  <2> HIDE DEF open
  <2> QED BY <1>5, EarliestIsLeast
<1> HIDE DEF least
<1>7. least \in Nat /\ least # 0 /\ least <= now - cursor + 1
  BY <1>0, <1>6
<1>8. \A i \in 0..(least - 1) : SkipsOccurrence(s, w[i])
  <2> TAKE i \in 0..(least - 1)
  <2>1. i \notin open /\ i \in 0..(now - cursor + 1)
    BY <1>0, <1>6, <1>7
  <2> QED BY <2>1
<1> DEFINE after == w[least]
<1>9. Yields(PastClosedDays(s, cursor, now), <<>>, after)
  BY <1>4, ResolutionYields
<1> HIDE DEF open
<1>10. Placed(s, cursor, <<>>, after)
  <2>1. CASE after = ZeroTime
    BY <2>1, PlacedNothing
  <2>2. CASE after # ZeroTime
    <3>1. Occurs(s, after) /\ after >= cursor + least
      BY <1>1, <1>7, <2>2
    <3>2. after \in Nat
      BY <3>1, OccursInTime
    <3>3. after > cursor
      BY <1>0, <1>7, <3>1, <3>2
    <3>4. <<>> \in Seq(Nat \ {0}) /\ DOMAIN <<>> = {}
      OBVIOUS
    <3> HIDE DEF after
    <3> QED BY <1>0, <3>1, <3>2, <3>3, <3>4 DEF Placed
  <2> QED BY <2>1, <2>2
<1>11. ClosedBetween(s, cursor, <<>>, after)
  <2>1. ASSUME NEW t \in Int, cursor <= t, t < after, IsOccurrence(s, t) PROVE ~Working(s, t)
    <3>1. after # ZeroTime
      BY <1>0, <2>1 DEF ZeroTime
    <3>2. after \in Int
      BY <1>1, <1>7, <3>1 DEF Occurs
    <3> DEFINE later == {i \in 0..least : w[i] # ZeroTime /\ w[i] > t}
    <3>3. least \in later /\ later \in SUBSET Nat
      BY <1>7, <2>1, <3>1, <3>2
    <3>4. PICK m \in later : \A i \in later : m <= i
      <4> HIDE DEF later
      <4> QED BY <3>3, EarliestIsLeast
    <3>5. m \in 0..least /\ w[m] # ZeroTime /\ w[m] > t /\ m # 0
      BY <1>0, <2>1
    <3>6. m - 1 \in Nat /\ (m - 1) + 1 = m /\ m - 1 \in 0..(least - 1) /\ m - 1 \notin later
          /\ m - 1 \in 0..least
      BY <1>7, <3>4, <3>5
    <3>7. /\ w[m - 1] # ZeroTime
          /\ \A u \in Int : w[m - 1] < u /\ u < w[m] => ~IsOccurrence(s, u)
      BY <1>2, <3>5, <3>6
    <3>8. w[m - 1] \in Int /\ w[m] \in Int
      BY <1>1, <3>5, <3>6, <3>7 DEF Occurs
    <3>9. ~(w[m - 1] > t)
      BY <3>6, <3>7
    <3>10. t = w[m - 1]
      <4> SUFFICES ASSUME t # w[m - 1] PROVE FALSE
        OBVIOUS
      <4>1. w[m - 1] < t /\ t < w[m]
        BY <2>1, <3>5, <3>8, <3>9
      <4> QED BY <2>1, <3>7, <4>1
    <3> QED BY <1>3, <1>8, <3>6, <3>10
  <2>2. s.policy = "skip"
    BY DEF SkipsOccurrence
  <2>3. after # ZeroTime
    BY <1>7, <2>2, SkippingGoesOn DEF w
  <2> HIDE DEF after
  <2> QED BY <1>0, <2>1, <2>3 DEF ClosedBetween
<1> QED BY <1>9, <1>10, <1>11

LEMMA PlacedFuture ==
    ASSUME NEW s, Recurs(s), NEW cursor, Occurs(s, cursor),
           NEW windows \in Seq(Nat \ {0}), \A i \in DOMAIN windows : Occurs(s, windows[i]),
           NEW after, after # ZeroTime => Occurs(s, after) /\ after > cursor,
           \A i \in DOMAIN windows : after # ZeroTime => after > windows[i]
    PROVE  Placed(s, cursor, windows, after)
<1>1. after \in Nat
  <2>1. CASE after = ZeroTime
    BY <2>1 DEF ZeroTime
  <2>2. CASE after # ZeroTime
    BY <2>2, OccursInTime
  <2> QED BY <2>1, <2>2
<1>2. windows # <<>> => Len(windows) \in DOMAIN windows
  OBVIOUS
<1> QED BY <1>1, <1>2, RecurringSchedules DEF Placed

(* A bounded catch-up takes occurrences in order, and goes on after them.  *)
LEMMA CatchUpIsPlaced ==
    ASSUME NEW s, Recurs(s), SearchDays \in Nat, NEW cursor, Occurs(s, cursor),
           NEW now \in Int, cursor <= now, ~SkipsOccurrence(s, cursor),
           NEW count \in Nat \ {0}, NEW future,
           future # ZeroTime => Occurs(s, future) /\ future > now
    PROVE  \E windows, after : /\ Yields(CatchUpBounded(s, cursor, now, count, future), windows, after)
                               /\ Placed(s, cursor, windows, after)
<1> DEFINE w == WindowsFrom(s, cursor)
<1>0. /\ cursor \in Int /\ cursor > s.at /\ s.at \in Nat /\ s.type # "once" /\ w[0] = cursor
      /\ cursor # ZeroTime
  BY RecurringSchedules, WindowsFollow, OccursInTime DEF Occurs
<1>1. \A i \in Nat : w[i] # ZeroTime => Occurs(s, w[i]) /\ w[i] >= cursor + i
  BY WindowsAreOccurrences
<1>2. \A i \in Nat : w[i + 1] # ZeroTime => w[i] < w[i + 1]
  BY WindowsInOrder
<1>3. PICK taken \in 0..count :
          /\ \A i \in 0..(taken - 1) : RunsAt(s, cursor, now, i)
          /\ taken < count => ~RunsAt(s, cursor, now, taken)
          /\ Yields(CatchUpBounded(s, cursor, now, count, future), FirstOnes(s, cursor, taken),
                    AfterThem(s, cursor, now, count, future, taken))
  BY TakenWindows
<1>4. taken # 0
  <2>1. RunsAt(s, cursor, now, 0)
    BY <1>0 DEF RunsAt, DueAt
  <2> QED BY <1>3, <2>1
<1>5. \A i \in 0..(taken - 1) : w[i] # ZeroTime /\ w[i] <= now
  BY <1>3 DEF RunsAt, DueAt
<1> DEFINE windows == FirstOnes(s, cursor, taken)
           after == AfterThem(s, cursor, now, count, future, taken)
<1>6. DOMAIN windows = 1..taken /\ \A i \in 1..taken : windows[i] = w[i - 1]
  BY DEF FirstOnes
<1>7. \/ after = ZeroTime
      \/ after = w[taken] /\ w[taken] # ZeroTime
      \/ after = future
  BY DEF AfterThem, DueAt
<1>8. windows = [i \in 1..taken |-> w[i - 1]]
  BY DEF FirstOnes
<1> HIDE DEF w, after, windows
<1>9. \A i \in DOMAIN windows : Occurs(s, windows[i])
  BY <1>1, <1>5, <1>6
<1>10. windows \in Seq(Nat \ {0})
  <2>1. \A i \in 1..taken : w[i - 1] \in Nat \ {0}
    BY <1>6, <1>9, OccursInTime
  <2> QED BY <1>8, <2>1
<1>11. w[taken] # ZeroTime => \A i \in 0..(taken - 1) : w[taken] > w[i]
  <2> SUFFICES ASSUME w[taken] # ZeroTime, NEW i \in 0..(taken - 1), ~(w[taken] > w[i])
               PROVE  FALSE
    OBVIOUS
  <2> DEFINE notLater == {n \in Nat : i < n /\ n <= taken /\ ~(w[n] > w[i])}
  <2>1. taken \in notLater /\ notLater \in SUBSET Nat
    OBVIOUS
  <2>2. PICK n \in notLater : \A m \in notLater : n <= m
    <3> HIDE DEF notLater
    <3> QED BY <2>1, EarliestIsLeast
  <2>3. n \in Nat /\ i < n /\ n <= taken /\ ~(w[n] > w[i])
    OBVIOUS
  <2>4. n - 1 \in Nat /\ (n - 1) + 1 = n /\ n - 1 \notin notLater
    BY <2>2, <2>3
  <2>5. w[n] # ZeroTime /\ w[n - 1] # ZeroTime /\ w[i] # ZeroTime
    BY <1>5, <2>3
  <2>6. w[n - 1] < w[n] /\ w[n - 1] \in Int /\ w[n] \in Int /\ w[i] \in Int
    BY <1>1, <1>2, <2>3, <2>4, <2>5 DEF Occurs
  <2>7. w[n - 1] = w[i] \/ w[n - 1] > w[i]
    <3>1. CASE n - 1 = i
      BY <3>1
    <3>2. CASE n - 1 # i
      BY <2>3, <2>4, <3>2
    <3> QED BY <3>1, <3>2
  <2> QED BY <2>3, <2>6, <2>7
<1>12. ASSUME after # ZeroTime
       PROVE  Occurs(s, after) /\ \A i \in 0..(taken - 1) : after > w[i]
  <2>1. CASE after = w[taken] /\ w[taken] # ZeroTime
    BY <1>1, <1>11, <2>1
  <2>2. CASE after = future
    <3>1. Occurs(s, future) /\ future > now
      BY <1>12, <2>2
    <3>2. \A i \in 0..(taken - 1) : w[i] \in Int
      BY <1>1, <1>5 DEF Occurs
    <3> QED BY <1>5, <2>2, <3>1, <3>2 DEF Occurs
  <2> QED BY <1>7, <1>12, <2>1, <2>2
<1>13. Placed(s, cursor, windows, after)
  <2>1. after # ZeroTime => Occurs(s, after) /\ after > cursor
    <3>1. 0 \in 0..(taken - 1)
      BY <1>4
    <3> QED BY <1>0, <1>12, <3>1
  <2>2. \A i \in DOMAIN windows : after # ZeroTime => after > windows[i]
    <3>1. \A i \in 1..taken : i - 1 \in 0..(taken - 1)
      OBVIOUS
    <3> QED BY <1>6, <1>12, <3>1
  <2> QED BY <1>9, <1>10, <2>1, <2>2, PlacedFuture
<1> QED BY <1>3, <1>13 DEF windows, after

(* What is passed over is late, or on closed days.                         *)
Proper(s, policy, cursor, now, r) ==
    \E windows, after :
        /\ Yields(r, windows, after) /\ Placed(s, cursor, windows, after)
        /\ PassesOver(windows, after) =>
              Missed(policy, cursor, now) \/ ClosedBetween(s, cursor, windows, after)

LEMMA RecurringResolution ==
    ASSUME NEW s, Recurs(s), SearchDays \in Nat, NEW policy, PolicyType(policy),
           NEW cursor, Occurs(s, cursor), NEW now \in Int, cursor <= now,
           NEW limit \in Nat \ {0}
    PROVE  Proper(s, policy, cursor, now, ResolveMisfire(s, policy, cursor, now, limit))
<1> DEFINE r == ResolveMisfire(s, policy, cursor, now, limit)
           future == NextAfter(s, cursor, now)
<1>0. cursor \in Nat \ {0} /\ cursor # ZeroTime /\ cursor \in Int
  BY OccursInTime
<1>1. \/ /\ SkipsOccurrence(s, cursor)
         /\ \E after : /\ Yields(r, <<>>, after)
                       /\ r = PastClosedDays(s, cursor, now)
      \/ ~SkipsOccurrence(s, cursor) /\ Yields(r, <<cursor>>, ZeroTime)
      \/ /\ ~SkipsOccurrence(s, cursor) /\ Missed(policy, cursor, now)
         /\ \/ Yields(r, <<>>, future)
            \/ Yields(r, <<cursor>>, future)
            \/ \E count \in Nat \ {0} : r = CatchUpBounded(s, cursor, now, count, future)
  BY <1>0, ResolutionForms
<1>2. future # ZeroTime => Occurs(s, future) /\ future > now /\ future > cursor
  <2> HAVE future # ZeroTime
  <2>1. Occurs(s, future) /\ future > now
    BY FutureIsLater
  <2> HIDE DEF future
  <2> QED BY <1>0, <2>1 DEF Occurs
<1> HIDE DEF r, future
<1>3. ASSUME SkipsOccurrence(s, cursor) /\ r = PastClosedDays(s, cursor, now)
      PROVE  Proper(s, policy, cursor, now, r)
  <2>1. PICK after : /\ Yields(PastClosedDays(s, cursor, now), <<>>, after)
                     /\ Placed(s, cursor, <<>>, after)
                     /\ ClosedBetween(s, cursor, <<>>, after)
    BY <1>3, PastClosedDaysIsPlaced
  <2> QED BY <1>3, <2>1 DEF Proper
<1>4. ASSUME Yields(r, <<cursor>>, ZeroTime)
      PROVE  Proper(s, policy, cursor, now, r)
  BY <1>0, <1>4, PlacedOne DEF Proper
<1>5. ASSUME Missed(policy, cursor, now) /\ Yields(r, <<>>, future)
      PROVE  Proper(s, policy, cursor, now, r)
  <2> DEFINE none == <<>>
  <2>1. none \in Seq(Nat \ {0}) /\ DOMAIN none = {}
    OBVIOUS
  <2>2. Yields(r, none, future)
    BY <1>5
  <2> HIDE DEF none
  <2>3. Placed(s, cursor, none, future)
    BY <1>2, <2>1, PlacedFuture
  <2> QED BY <1>5, <2>2, <2>3 DEF Proper
<1>6. ASSUME Missed(policy, cursor, now) /\ Yields(r, <<cursor>>, future)
      PROVE  Proper(s, policy, cursor, now, r)
  <2> DEFINE one == <<cursor>>
  <2>1. one \in Seq(Nat \ {0}) /\ DOMAIN one = {1} /\ one[1] = cursor
    BY <1>0
  <2>2. Yields(r, one, future)
    BY <1>6
  <2> HIDE DEF one
  <2>3. Placed(s, cursor, one, future)
    BY <1>2, <2>1, PlacedFuture
  <2> QED BY <1>6, <2>2, <2>3 DEF Proper
<1>7. ASSUME ~SkipsOccurrence(s, cursor), Missed(policy, cursor, now), NEW count \in Nat \ {0},
             r = CatchUpBounded(s, cursor, now, count, future)
      PROVE  Proper(s, policy, cursor, now, r)
  <2>1. PICK windows, after :
            /\ Yields(CatchUpBounded(s, cursor, now, count, future), windows, after)
            /\ Placed(s, cursor, windows, after)
    BY <1>2, <1>7, CatchUpIsPlaced
  <2> QED BY <1>7, <2>1 DEF Proper
<1>8. Proper(s, policy, cursor, now, r)
  BY <1>1, <1>3, <1>4, <1>5, <1>6, <1>7
<1> QED BY <1>8 DEF r

(* A one-time schedule has its only window, however it is caught up.       *)
LEMMA OneTimeWindow ==
    ASSUME NEW s, s.type = "once", s.calendar = NoCalendar, NEW policy, PolicyType(policy),
           NEW cursor \in Nat \ {0}, NEW now \in Int, cursor <= now, NEW limit \in Nat \ {0}
    PROVE  LET r == ResolveMisfire(s, policy, cursor, now, limit)
           IN  \/ Yields(r, <<cursor>>, ZeroTime)
               \/ Missed(policy, cursor, now) /\ Yields(r, <<>>, ZeroTime)
<1> DEFINE r == ResolveMisfire(s, policy, cursor, now, limit)
<1>0. cursor # ZeroTime /\ NextAfter(s, cursor, now) = ZeroTime
  BY DEF ZeroTime, NextAfter
<1>1. ~SkipsOccurrence(s, cursor)
  BY DEF SkipsOccurrence, IsNonWorkingOccurrence
<1>2. \/ Yields(r, <<cursor>>, ZeroTime)
      \/ /\ Missed(policy, cursor, now)
         /\ \/ Yields(r, <<>>, ZeroTime)
            \/ \E count \in Nat \ {0} : r = CatchUpBounded(s, cursor, now, count, ZeroTime)
  BY <1>0, <1>1, ResolutionForms
<1> HIDE DEF r
<1>3. ASSUME NEW count \in Nat \ {0}, r = CatchUpBounded(s, cursor, now, count, ZeroTime)
      PROVE  Yields(r, <<cursor>>, ZeroTime)
  <2> DEFINE w == WindowsFrom(s, cursor)
  <2>1. PICK taken \in 0..count :
            /\ \A i \in 0..(taken - 1) : RunsAt(s, cursor, now, i)
            /\ taken < count => ~RunsAt(s, cursor, now, taken)
            /\ Yields(CatchUpBounded(s, cursor, now, count, ZeroTime), FirstOnes(s, cursor, taken),
                      AfterThem(s, cursor, now, count, ZeroTime, taken))
    BY TakenWindows
  <2>2. w[0] = cursor /\ w[0 + 1] = NextWindow(s, w[0])
    BY WindowsFollow
  <2>3. w[1] = ZeroTime
    BY <1>0, <2>2 DEF NextWindow, NextFromCursor
  <2>4. RunsAt(s, cursor, now, 0) /\ ~RunsAt(s, cursor, now, 1) /\ ~DueAt(s, cursor, now, 1)
    BY <1>0, <1>1, <2>2, <2>3 DEF RunsAt, DueAt
  <2>5. taken = 1
    <3>1. taken # 0
      BY <2>1, <2>4
    <3>2. 1 \notin 0..(taken - 1)
      BY <2>1, <2>4
    <3> QED BY <3>1, <3>2
  <2>6. AfterThem(s, cursor, now, count, ZeroTime, 1) = ZeroTime
    BY <2>4 DEF AfterThem
  <2>7. FirstOnes(s, cursor, 1) = <<cursor>>
    <3>1. FirstOnes(s, cursor, 1) = [i \in 1..1 |-> w[i - 1]]
      BY DEF FirstOnes
    <3>2. \A i \in 1..1 : w[i - 1] = cursor
      BY <2>2
    <3> HIDE DEF w
    <3> QED BY <3>1, <3>2
  <2> QED BY <1>3, <2>1, <2>5, <2>6, <2>7
<1>4. \/ Yields(r, <<cursor>>, ZeroTime)
      \/ Missed(policy, cursor, now) /\ Yields(r, <<>>, ZeroTime)
  BY <1>2, <1>3
<1> QED BY <1>4 DEF r

LEMMA OneTimeResolution ==
    ASSUME NEW s, ValidSchedule(s), s.type = "once", NEW policy, PolicyType(policy),
           NEW cursor \in Nat \ {0}, NEW now \in Int, cursor <= now, NEW limit \in Nat \ {0}
    PROVE  Proper(s, policy, cursor, now, ResolveMisfire(s, policy, cursor, now, limit))
<1> DEFINE r == ResolveMisfire(s, policy, cursor, now, limit)
<1>1. s.calendar = NoCalendar
  BY ValidSchedules
<1>2. \/ Yields(r, <<cursor>>, ZeroTime)
      \/ Missed(policy, cursor, now) /\ Yields(r, <<>>, ZeroTime)
  BY <1>1, OneTimeWindow
<1> HIDE DEF r
<1>3. ASSUME Yields(r, <<cursor>>, ZeroTime)
      PROVE  Proper(s, policy, cursor, now, r)
  BY <1>3, PlacedOne DEF Proper
<1>4. ASSUME Missed(policy, cursor, now) /\ Yields(r, <<>>, ZeroTime)
      PROVE  Proper(s, policy, cursor, now, r)
  BY <1>4, PlacedNothing DEF Proper
<1>5. Proper(s, policy, cursor, now, r)
  BY <1>2, <1>3, <1>4
<1> QED BY <1>5 DEF r
-----------------------------------------------------------------------------
(* Windows go on in time *)

(* A schedule whose windows go on in time, whatever its calendar and its   *)
(* policy are: all but monthly rules, in a steady zone                     *)
Timely(s) ==
    \/ /\ s.type \in {"once", "interval"} /\ s.calendar = NoCalendar
       /\ s.type = "interval" => s.interval \in Nat \ {0}
    \/ /\ OnADay(s)
       /\ s.type = "weekly_at" => s.weekday \in 0..6

Later(t, next) == next = ZeroTime \/ (next \in Nat /\ next > t)

LEMMA RollForwardIsLater ==
    ASSUME NEW s, Steady(s.zone), SearchDays \in Nat, NEW t \in Int
    PROVE  \/ RollForward(s, t) \in {ZeroTime, t}
           \/ RollForward(s, t) \in Int /\ RollForward(s, t) > t
<1> DEFINE candidate(n) == Date(s.zone, LocalDay(s.zone, AddDays(s.zone, t, n)), LocalClock(s.zone, t))
           open == {n \in 1..SearchDays : ~IsNonWorkingOccurrence(s, candidate(n))}
           least == Earliest(open)
<1>1. RollForward(s, t) = IF ~IsNonWorkingOccurrence(s, t) THEN t
                          ELSE IF open # {} THEN candidate(least) ELSE ZeroTime
  BY DEF RollForward
<1>2. ASSUME NEW n \in 1..SearchDays PROVE candidate(n) \in Int /\ candidate(n) > t
  <2>1. /\ LocalDay(s.zone, t) \in Int /\ LocalClock(s.zone, t) \in Clocks
        /\ Date(s.zone, LocalDay(s.zone, t), LocalClock(s.zone, t)) = t
    BY SteadyLocal
  <2>2. n \in Int /\ n > 0
    BY <1>2
  <2>3. LocalDay(s.zone, AddDays(s.zone, t, n)) = LocalDay(s.zone, t) + n
    BY <2>2, SteadyAddDays
  <2>4. LocalDay(s.zone, t) + n \in Int /\ LocalDay(s.zone, t) < LocalDay(s.zone, t) + n
    BY <2>1, <2>2
  <2> QED BY <2>1, <2>3, <2>4, DaysInOrder, SteadyDate
<1>3. ASSUME open # {} PROVE least \in 1..SearchDays
  <2>1. open \in SUBSET Nat
    OBVIOUS
  <2>2. least \in open
    <3> HIDE DEF open
    <3> QED BY <1>3, <2>1, EarliestIsLeast
  <2> QED BY <2>2
<1> HIDE DEF candidate, open, least
<1> QED BY <1>1, <1>2, <1>3

LEMMA NextIsLater ==
    ASSUME NEW s, Timely(s), s.type # "once", SearchDays \in Nat, NEW t \in Nat
    PROVE  Later(t, NextSchedule(s, t))
<1>1. CASE s.type = "interval"
  <2>1. NextSchedule(s, t) = t + s.interval /\ s.interval \in Nat \ {0}
    BY <1>1 DEF Timely, NextSchedule, Next, OnADay
  <2> QED BY <2>1 DEF Later
<1>2. CASE OnADay(s) /\ (s.type = "weekly_at" => s.weekday \in 0..6)
  <2>1. Next(s, t) \in Int /\ Next(s, t) > t
    <3>1. \A d \in Int : OccurrenceOn(s, d) \in Int
      BY <1>2, SteadyDate DEF OnADay, OccurrenceOn
    <3>2. CASE s.type = "daily_at"
      <4>1. Next(s, t) = NextDaily(s.zone, t, s.clock)
        BY <3>2 DEF Next
      <4> QED BY <1>2, <3>1, <3>2, <4>1, NextDailyIsFirst
    <3>3. CASE s.type = "weekly_at"
      <4>1. Next(s, t) = NextWeekly(s.zone, t, s.weekday, s.clock)
        BY <3>3 DEF Next
      <4> QED BY <1>2, <3>1, <3>3, <4>1, NextWeeklyIsFirst
    <3> QED BY <1>2, <3>2, <3>3 DEF OnADay
  <2>2. NextSchedule(s, t) \in {Next(s, t), RollForward(s, Next(s, t))}
    BY DEF NextSchedule
  <2> DEFINE next == Next(s, t)
  <2>3. \/ RollForward(s, next) \in {ZeroTime, next}
        \/ RollForward(s, next) \in Int /\ RollForward(s, next) > next
    BY <1>2, <2>1, RollForwardIsLater DEF OnADay
  <2> HIDE DEF next
  <2>4. next \in Int /\ next > t
    BY <2>1 DEF next
  <2>5. NextSchedule(s, t) = next \/ NextSchedule(s, t) = RollForward(s, next)
    BY <2>2 DEF next
  <2> QED BY <2>3, <2>4, <2>5 DEF Later
<1> QED BY <1>1, <1>2 DEF Timely

LEMMA NextFromCursorIsLater ==
    ASSUME NEW s, Timely(s), SearchDays \in Nat, NEW t \in Nat
    PROVE  Later(t, NextFromCursor(s, t)) /\ Later(t, NextWindow(s, t))
BY NextIsLater DEF NextFromCursor, NextWindow, Later

LEMMA NextAfterIsLater ==
    ASSUME NEW s, Timely(s), SearchDays \in Nat, NEW cursor \in Nat, NEW now \in Nat,
           cursor <= now
    PROVE  Later(now, NextAfter(s, cursor, now))
<1>1. CASE s.type = "once"
  BY <1>1 DEF NextAfter, Later
<1>2. CASE s.type = "interval"
  <2> DEFINE n == s.interval
             steps == (now - cursor) \div n + 1
  <2>1. n \in Nat \ {0} /\ now - cursor \in Int
    BY <1>2 DEF Timely, OnADay
  <2>2. NextAfter(s, cursor, now) = cursor + steps * n
    BY <1>2 DEF NextAfter
  <2>3. (now - cursor) \div n \in Int /\ (now - cursor) % n \in 0..(n - 1)
        /\ now - cursor = ((now - cursor) \div n) * n + ((now - cursor) % n)
    BY <2>1, Division
  <2>4. steps \in Int /\ steps * n = ((now - cursor) \div n) * n + n
    BY <2>1, <2>3
  <2>5. steps * n \in Int /\ cursor + steps * n > now
    BY <2>1, <2>3, <2>4
  <2> QED BY <2>2, <2>5 DEF Later
<1>3. CASE s.type \notin {"once", "interval"}
  <2>1. NextAfter(s, cursor, now) = NextSchedule(s, now)
    BY <1>3 DEF NextAfter
  <2> QED BY <1>3, <2>1, NextIsLater
<1> QED BY <1>1, <1>2, <1>3

(* The windows from a cursor on are in order, a unit apart at least, and   *)
(* there is none after the last.                                           *)
LEMMA WindowsGrow ==
    ASSUME NEW s, Timely(s), SearchDays \in Nat, NEW cursor \in Nat, NEW i \in Nat, NEW k \in Nat,
           WindowsFrom(s, cursor)[i + k] # ZeroTime
    PROVE  /\ WindowsFrom(s, cursor)[i] \in Nat \ {0} /\ WindowsFrom(s, cursor)[i + k] \in Nat \ {0}
           /\ WindowsFrom(s, cursor)[i] + k <= WindowsFrom(s, cursor)[i + k]
<1> DEFINE w == WindowsFrom(s, cursor)
           untimed == {n \in Nat : w[n] \notin Nat}
<1>1. w[0] = cursor /\ \A n \in Nat : w[n + 1] = NextWindow(s, w[n])
  BY WindowsFollow
<1> HIDE DEF w
<1>2. ASSUME untimed # {} PROVE FALSE
  <2>1. PICK n \in untimed : \A m \in untimed : n <= m
    <3>1. untimed \in SUBSET Nat
      OBVIOUS
    <3> HIDE DEF untimed
    <3> QED BY <1>2, <3>1, EarliestIsLeast
  <2>2. n \in Nat /\ w[n] \notin Nat /\ n # 0
    BY <1>1, <2>1
  <2>3. n - 1 \in Nat /\ (n - 1) + 1 = n /\ n - 1 \notin untimed
    BY <2>1, <2>2
  <2>4. w[n] = NextWindow(s, w[n - 1]) /\ w[n - 1] \in Nat
    BY <1>1, <2>3
  <2> QED BY <2>2, <2>4, NextFromCursorIsLater DEF Later, ZeroTime
<1>3. \A n \in Nat : w[n] \in Nat
  BY <1>2
<1> HIDE DEF untimed
<1>4. ASSUME NEW n \in Nat, w[n + 1] # ZeroTime PROVE w[n] # ZeroTime /\ w[n] < w[n + 1]
  <2>1. w[n + 1] = NextWindow(s, w[n]) /\ w[n] \in Nat
    BY <1>1, <1>3
  <2>2. Later(w[n], w[n + 1])
    BY <2>1, NextFromCursorIsLater
  <2> QED BY <1>4, <2>1, <2>2 DEF Later, NextWindow
<1> DEFINE wrong == {n \in Nat : w[i + n] # ZeroTime /\ ~(w[i] # ZeroTime /\ w[i] + n <= w[i + n])}
<1>5. ASSUME wrong # {} PROVE FALSE
  <2>1. PICK n \in wrong : \A m \in wrong : n <= m
    <3>1. wrong \in SUBSET Nat
      OBVIOUS
    <3> HIDE DEF wrong
    <3> QED BY <1>5, <3>1, EarliestIsLeast
  <2>2. n \in Nat /\ w[i + n] # ZeroTime /\ ~(w[i] # ZeroTime /\ w[i] + n <= w[i + n])
    BY <2>1
  <2>3. n # 0
    <3> SUFFICES ASSUME n = 0 PROVE FALSE
      OBVIOUS
    <3>1. i + n = i /\ w[i] \in Nat
      BY <1>3
    <3> QED BY <2>2, <3>1
  <2>4. n - 1 \in Nat /\ (i + (n - 1)) + 1 = i + n /\ i + (n - 1) \in Nat /\ n - 1 \notin wrong
    BY <2>1, <2>2, <2>3
  <2>5. w[i + (n - 1)] # ZeroTime /\ w[i + (n - 1)] < w[i + n]
    BY <1>4, <2>2, <2>4
  <2>6. w[i] # ZeroTime /\ w[i] + (n - 1) <= w[i + (n - 1)]
    BY <2>4, <2>5
  <2>7. w[i] \in Nat /\ w[i + (n - 1)] \in Nat /\ w[i + n] \in Nat
    BY <1>3, <2>2, <2>4
  <2> QED BY <2>2, <2>5, <2>6, <2>7
<1>6. w[i + k] # ZeroTime
  BY DEF w
<1>7. w[i] # ZeroTime /\ w[i] + k <= w[i + k]
  BY <1>5, <1>6
<1>8. i + k \in Nat
  OBVIOUS
<1>9. w[i] \in Nat \ {0} /\ w[i + k] \in Nat \ {0}
  BY <1>3, <1>6, <1>7, <1>8 DEF ZeroTime
<1> HIDE DEF wrong
<1> QED BY <1>7, <1>9 DEF w

(* Where the cursor goes with the last of the windows: on to the next of   *)
(* it when the resolution has no cursor.                                   *)
GoesOnTo(s, windows, after) ==
    IF windows # <<>> /\ after = ZeroTime THEN NextFromCursor(s, windows[Len(windows)]) ELSE after

(* The windows of a resolution are from the cursor to now, and the cursor  *)
(* goes on after all of them or ends.                                      *)
GoesOn(s, cursor, now, windows, after) ==
    /\ windows \in Seq(Nat) /\ Later(cursor, GoesOnTo(s, windows, after))
    /\ \A i \in DOMAIN windows : /\ cursor <= windows[i] /\ windows[i] <= now
                                 /\ Later(windows[i], GoesOnTo(s, windows, after))

Advances(s, cursor, now, r) ==
    \E windows, after : Yields(r, windows, after) /\ GoesOn(s, cursor, now, windows, after)

LEMMA NothingGoesOn ==
    ASSUME NEW s, NEW cursor \in Nat, NEW now, NEW after, Later(cursor, after)
    PROVE  GoesOn(s, cursor, now, <<>>, after)
<1>1. <<>> \in Seq(Nat) /\ DOMAIN <<>> = {}
  OBVIOUS
<1> QED BY <1>1 DEF GoesOn, GoesOnTo

LEMMA OneGoesOn ==
    ASSUME NEW s, Timely(s), SearchDays \in Nat, NEW cursor \in Nat, NEW now \in Nat,
           cursor <= now, NEW after, Later(cursor, after)
    PROVE  GoesOn(s, cursor, now, <<cursor>>, after)
<1> DEFINE one == <<cursor>>
<1>1. one \in Seq(Nat) /\ DOMAIN one = {1} /\ one[1] = cursor /\ Len(one) = 1 /\ one # <<>>
  OBVIOUS
<1> HIDE DEF one
<1>2. Later(cursor, GoesOnTo(s, one, after))
  BY <1>1, NextFromCursorIsLater DEF GoesOnTo
<1>3. GoesOn(s, cursor, now, one, after)
  BY <1>1, <1>2 DEF GoesOn
<1> QED BY <1>3 DEF one

LEMMA CatchUpGoesOn ==
    ASSUME NEW s, Timely(s), SearchDays \in Nat, NEW cursor \in Nat \ {0}, NEW now \in Nat,
           cursor <= now, ~SkipsOccurrence(s, cursor), NEW count \in Nat \ {0},
           NEW future, Later(now, future)
    PROVE  Advances(s, cursor, now, CatchUpBounded(s, cursor, now, count, future))
<1> DEFINE w == WindowsFrom(s, cursor)
<1>1. w[0] = cursor /\ \A n \in Nat : w[n + 1] = NextWindow(s, w[n])
  BY WindowsFollow
<1>2. \A i, k \in Nat : w[i + k] # ZeroTime =>
          w[i] \in Nat \ {0} /\ w[i + k] \in Nat \ {0} /\ w[i] + k <= w[i + k]
  BY WindowsGrow
<1>3. PICK taken \in 0..count :
          /\ \A i \in 0..(taken - 1) : RunsAt(s, cursor, now, i)
          /\ taken < count => ~RunsAt(s, cursor, now, taken)
          /\ Yields(CatchUpBounded(s, cursor, now, count, future), FirstOnes(s, cursor, taken),
                    AfterThem(s, cursor, now, count, future, taken))
  BY TakenWindows
<1>4. taken \in Nat \ {0} /\ taken - 1 \in Nat /\ (taken - 1) + 1 = taken
  <2>1. RunsAt(s, cursor, now, 0)
    BY <1>1 DEF RunsAt, DueAt, ZeroTime
  <2> QED BY <1>3, <2>1
<1> DEFINE windows == FirstOnes(s, cursor, taken)
           after == AfterThem(s, cursor, now, count, future, taken)
           last == w[taken - 1]
<1>5. \A i \in 0..(taken - 1) : w[i] # ZeroTime /\ w[i] <= now
  BY <1>3 DEF RunsAt, DueAt
<1>6. windows = [i \in 1..taken |-> w[i - 1]]
  BY DEF FirstOnes
<1>7. \/ after = ZeroTime
      \/ after = w[taken] /\ w[taken] # ZeroTime
      \/ after = future
  BY DEF AfterThem, DueAt
<1> HIDE DEF w, after, windows
<1>8. \A i \in 0..(taken - 1) : w[i] \in Nat \ {0} /\ cursor <= w[i] /\ w[i] <= last
  <2> TAKE i \in 0..(taken - 1)
  <2>1. i \in Nat /\ 0 \in Nat /\ (taken - 1) - i \in Nat /\ 0 + i = i
        /\ i + ((taken - 1) - i) = taken - 1 /\ taken - 1 \in 0..(taken - 1)
    BY <1>4
  <2>2. w[i] \in Nat \ {0} /\ w[0] + i <= w[i]
    BY <1>2, <1>5, <2>1
  <2>3. last # ZeroTime
    BY <1>5, <2>1
  <2>4. last \in Nat \ {0} /\ w[i] + ((taken - 1) - i) <= last
    BY <1>2, <2>1, <2>3
  <2> QED BY <1>1, <2>1, <2>2, <2>4
<1>9. last \in Nat /\ cursor <= last /\ last <= now
  <2>1. taken - 1 \in 0..(taken - 1)
    BY <1>4
  <2> QED BY <1>5, <1>8, <2>1
<1>10. windows \in Seq(Nat) /\ Len(windows) = taken /\ DOMAIN windows = 1..taken
       /\ windows # <<>> /\ \A i \in 1..taken : windows[i] = w[i - 1] /\ i - 1 \in 0..(taken - 1)
  <2>1. \A i \in 1..taken : i - 1 \in 0..(taken - 1) /\ w[i - 1] \in Nat
    BY <1>4, <1>8
  <2>2. windows \in Seq(Nat) /\ Len(windows) = taken
    BY <1>4, <1>6, <2>1
  <2> QED BY <1>4, <1>6, <2>1, <2>2
<1> DEFINE next == GoesOnTo(s, windows, after)
<1>11. Later(last, next)
  <2>1. CASE after = ZeroTime
    <3>1. next = NextFromCursor(s, last)
      BY <1>4, <1>10, <2>1 DEF GoesOnTo
    <3> QED BY <1>9, <3>1, NextFromCursorIsLater
  <2>2. CASE after = w[taken] /\ w[taken] # ZeroTime
    <3>1. next = w[taken]
      BY <2>2 DEF GoesOnTo
    <3>2. w[(taken - 1) + 1] # ZeroTime /\ 1 \in Nat
      BY <1>4, <2>2
    <3>3. w[taken - 1] + 1 <= w[(taken - 1) + 1] /\ w[(taken - 1) + 1] \in Nat \ {0}
      BY <1>2, <1>4, <3>2
    <3>4. last + 1 <= w[taken] /\ w[taken] \in Nat
      BY <1>4, <3>3
    <3> QED BY <1>9, <3>1, <3>4 DEF Later
  <2>3. CASE after = future /\ future # ZeroTime
    <3>1. next = future
      BY <2>3 DEF GoesOnTo
    <3> QED BY <1>9, <2>3, <3>1 DEF Later
  <2> QED BY <1>7, <2>1, <2>2, <2>3
<1> HIDE DEF last, next
<1>12. \A t \in Nat : t <= last => Later(t, next)
  BY <1>9, <1>11 DEF Later
<1>13. GoesOn(s, cursor, now, windows, after)
  <2>1. \A i \in DOMAIN windows : /\ cursor <= windows[i] /\ windows[i] <= now
                                  /\ Later(windows[i], next)
    <3> TAKE i \in DOMAIN windows
    <3>1. windows[i] = w[i - 1] /\ i - 1 \in 0..(taken - 1)
      BY <1>10
    <3>2. windows[i] \in Nat /\ cursor <= windows[i] /\ windows[i] <= last /\ windows[i] <= now
      BY <1>5, <1>8, <3>1
    <3> QED BY <1>12, <3>2
  <2>2. Later(cursor, next)
    BY <1>9, <1>12
  <2> QED BY <1>10, <2>1, <2>2 DEF GoesOn, next
<1> QED BY <1>3, <1>13 DEF windows, after, Advances

LEMMA PastClosedDaysGoesOn ==
    ASSUME NEW s, Timely(s), SearchDays \in Nat, NEW cursor \in Nat \ {0}, NEW now \in Nat,
           cursor <= now, SkipsOccurrence(s, cursor)
    PROVE  Advances(s, cursor, now, PastClosedDays(s, cursor, now))
<1> DEFINE w == WindowsFrom(s, cursor)
           open == {i \in 0..(now - cursor + 1) : ~(w[i] <= now /\ SkipsOccurrence(s, w[i]))}
           least == Earliest(open)
<1>1. w[0] = cursor
  BY WindowsFollow
<1>2. \A k \in Nat : w[0 + k] # ZeroTime =>
          w[0] \in Nat \ {0} /\ w[0 + k] \in Nat \ {0} /\ w[0] + k <= w[0 + k]
  BY WindowsGrow
<1>3. \A k \in Nat : w[k] # ZeroTime => w[k] \in Nat /\ cursor + k <= w[k]
  <2> TAKE k \in Nat
  <2>1. 0 + k = k
    OBVIOUS
  <2> QED BY <1>1, <1>2, <2>1
<1>4. PastClosedDays(s, cursor, now) = Resolution(<<>>, w[least], w[least] = ZeroTime)
  BY DEF PastClosedDays
<1> HIDE DEF w
<1>5. open \in SUBSET Nat /\ now - cursor + 1 \in open
  <2>1. now - cursor + 1 \in Nat
    OBVIOUS
  <2>2. ~(w[now - cursor + 1] <= now /\ SkipsOccurrence(s, w[now - cursor + 1]))
    <3> SUFFICES ASSUME w[now - cursor + 1] <= now, SkipsOccurrence(s, w[now - cursor + 1])
                 PROVE  FALSE
      OBVIOUS
    <3>1. w[now - cursor + 1] # ZeroTime
      BY DEF SkipsOccurrence, IsNonWorkingOccurrence
    <3>2. w[now - cursor + 1] \in Nat /\ cursor + (now - cursor + 1) <= w[now - cursor + 1]
      BY <1>3, <2>1, <3>1
    <3> QED BY <3>2
  <2> QED BY <2>1, <2>2
<1>6. least \in open
  <2> HIDE DEF open
  <2> QED BY <1>5, EarliestIsLeast
<1> HIDE DEF least
<1>7. least \in Nat /\ least # 0
  BY <1>1, <1>6
<1>8. Later(cursor, w[least])
  BY <1>3, <1>7 DEF Later
<1>9. Yields(PastClosedDays(s, cursor, now), <<>>, w[least])
  BY <1>4, ResolutionYields
<1> QED BY <1>8, <1>9, NothingGoesOn DEF Advances

LEMMA ResolutionsAdvance ==
    ASSUME NEW s, Timely(s), SearchDays \in Nat, NEW policy, PolicyType(policy),
           NEW cursor \in Nat \ {0}, NEW now \in Nat, cursor <= now, NEW limit \in Nat \ {0}
    PROVE  Advances(s, cursor, now, ResolveMisfire(s, policy, cursor, now, limit))
<1> DEFINE r == ResolveMisfire(s, policy, cursor, now, limit)
           future == NextAfter(s, cursor, now)
<1>1. cursor # ZeroTime /\ cursor \in Nat
  BY DEF ZeroTime
<1>2. \/ /\ SkipsOccurrence(s, cursor)
         /\ \E after : /\ Yields(r, <<>>, after)
                       /\ r = PastClosedDays(s, cursor, now)
      \/ ~SkipsOccurrence(s, cursor) /\ Yields(r, <<cursor>>, ZeroTime)
      \/ /\ ~SkipsOccurrence(s, cursor) /\ Missed(policy, cursor, now)
         /\ \/ Yields(r, <<>>, future)
            \/ Yields(r, <<cursor>>, future)
            \/ \E count \in Nat \ {0} : r = CatchUpBounded(s, cursor, now, count, future)
  BY <1>1, ResolutionForms
<1>3. Later(now, future)
  BY NextAfterIsLater
<1> HIDE DEF r, future
<1>4. Later(cursor, future) /\ Later(cursor, ZeroTime)
  BY <1>3 DEF Later
<1>5. ASSUME SkipsOccurrence(s, cursor), r = PastClosedDays(s, cursor, now)
      PROVE  Advances(s, cursor, now, r)
  BY <1>5, PastClosedDaysGoesOn
<1>6. ASSUME Yields(r, <<cursor>>, ZeroTime) PROVE Advances(s, cursor, now, r)
  BY <1>1, <1>4, <1>6, OneGoesOn DEF Advances
<1>7. ASSUME Yields(r, <<>>, future) PROVE Advances(s, cursor, now, r)
  BY <1>1, <1>4, <1>7, NothingGoesOn DEF Advances
<1>8. ASSUME Yields(r, <<cursor>>, future) PROVE Advances(s, cursor, now, r)
  BY <1>1, <1>4, <1>8, OneGoesOn DEF Advances
<1>9. ASSUME ~SkipsOccurrence(s, cursor), NEW count \in Nat \ {0},
             r = CatchUpBounded(s, cursor, now, count, future)
      PROVE  Advances(s, cursor, now, r)
  BY <1>3, <1>9, CatchUpGoesOn
<1>10. Advances(s, cursor, now, r)
  BY <1>2, <1>5, <1>6, <1>7, <1>8, <1>9
<1> QED BY <1>10 DEF r
-----------------------------------------------------------------------------
(* What a poll of a regular schedule runs *)

LEMMA RecurringIsTimely ==
    ASSUME NEW s, Recurs(s)
    PROVE  Timely(s)
<1>1. /\ RegularRule(s) /\ ValidSchedule(s) /\ s.type \in {"interval", "daily_at", "weekly_at"}
  BY RecurringSchedules
<1>2. /\ Steady(s.zone) /\ s.interval \in Int
      /\ s.type \in {"daily_at", "weekly_at"} => s.clock \in Clocks
  BY <1>1 DEF RegularRule
<1> QED BY <1>1, <1>2, ValidSchedules DEF Timely, OnADay

(* Nothing is left out between now and the window a policy moves on to,    *)
(* unless one is pending.                                                  *)
LEMMA NothingBeforeFuture ==
    ASSUME NEW s, Recurs(s), SearchDays \in Nat, NEW cursor, Occurs(s, cursor),
           NEW now \in Int, cursor <= now, NextAfter(s, cursor, now) # ZeroTime, NonePending(s, now),
           NEW t \in Int, now < t, t < NextAfter(s, cursor, now)
    PROVE  ~IsOccurrence(s, t)
<1>1. /\ Regular(s) /\ RegularRule(s) /\ s.at \in Nat /\ s.type # "once"
      /\ s.type \in {"interval", "daily_at", "weekly_at"}
      /\ \A u \in Int : s.at <= u => LocalDay(s.zone, u) \in Nat
  BY RecurringSchedules
<1>2. cursor \in Int /\ cursor > s.at /\ IsOccurrence(s, cursor) /\ now \in Nat /\ now > s.at
  BY <1>1 DEF Occurs
<1>3. CASE s.type = "interval"
  <2> DEFINE n == s.interval
             x == cursor - s.at
             steps == (now - cursor) \div n
             before == cursor + steps * n
  <2>1. n \in Nat \ {0} /\ s.at \in Int /\ x \in Int
    BY <1>1, <1>2, <1>3, ValidSchedules DEF RegularRule
  <2>2. x % n = 0
    BY <1>2, <1>3 DEF IsOccurrence
  <2>3. steps \in Int /\ (now - cursor) % n \in 0..(n - 1)
        /\ now - cursor = steps * n + ((now - cursor) % n)
    <3> now - cursor \in Int
      BY <1>2
    <3> HIDE DEF n
    <3> QED BY <2>1, Division
  <2>4. NextAfter(s, cursor, now) = cursor + (steps + 1) * n
    BY <1>2, <1>3 DEF NextAfter
  <2> HIDE DEF n, x, steps
  <2>5. (steps + 1) * n = steps * n + n /\ steps * n \in Int
    BY <2>1, <2>3
  <2>6. before \in Int /\ before <= now /\ NextAfter(s, cursor, now) = before + n
    BY <1>2, <2>1, <2>3, <2>4, <2>5
  <2>7. before - s.at = x + steps * n
    BY <1>2, <2>1, <2>5 DEF x
  <2>8. before - s.at \in Int /\ (before - s.at) % n = 0
    <3>1. \A k \in Int : (x + k * n) % n = 0
      BY <2>1, <2>2, StepsOfAnInterval
    <3>2. (x + steps * n) % n = 0
      BY <2>3, <3>1
    <3> QED BY <2>1, <2>6, <2>7, <3>2
  <2> HIDE DEF before
  <2>9. t - before \in 1..(n - 1) /\ t - s.at = (before - s.at) + (t - before)
    BY <2>1, <2>6
  <2>10. ((before - s.at) + (t - before)) % n # 0
    BY <2>1, <2>8, <2>9, StepsOfAnInterval
  <2> QED BY <1>3, <2>9, <2>10 DEF IsOccurrence, n
<1>4. CASE s.type \in {"daily_at", "weekly_at"}
  <2>1. NextAfter(s, cursor, now) = NextSchedule(s, now)
    BY <1>4 DEF NextAfter
  <2>2. LocalDay(s.zone, now) \in Nat /\ NextSchedule(s, now) # ZeroTime
    BY <1>1, <1>2, <2>1
  <2>3. \A u \in Int : now < u /\ u < NextSchedule(s, now) => ~IsOccurrence(s, u)
    BY <1>1, <1>2, <1>4, <2>2, NextOnTheClock
  <2> QED BY <2>1, <2>3
<1> QED BY <1>1, <1>3, <1>4

(* Unless a window is pending, what is passed over up to this cursor is    *)
(* due by now.                                                             *)
OnlyDue(s, now, after) ==
    NonePending(s, now) /\ after # ZeroTime =>
        \A t \in Int : now < t /\ t < after => ~IsOccurrence(s, t)

LEMMA PastClosedDaysIsDue ==
    ASSUME NEW s, Recurs(s), SearchDays \in Nat, NEW cursor, Occurs(s, cursor),
           NEW now \in Int, cursor <= now, SkipsOccurrence(s, cursor)
    PROVE  OnlyDue(s, now, PastClosedDays(s, cursor, now).cursorAfter)
<1> DEFINE w == WindowsFrom(s, cursor)
           open == {i \in 0..(now - cursor + 1) : ~(w[i] <= now /\ SkipsOccurrence(s, w[i]))}
           least == Earliest(open)
<1>1. cursor \in Int /\ w[0] = cursor
  BY WindowsFollow DEF Occurs
<1>2. PastClosedDays(s, cursor, now).cursorAfter = w[least]
  BY DEF PastClosedDays, Resolution
<1>3. SUFFICES ASSUME w[least] # ZeroTime, NEW t \in Int, now < t, t < w[least]
               PROVE  ~IsOccurrence(s, t)
  BY <1>2 DEF OnlyDue
<1>4. \A i \in Nat : w[i] # ZeroTime => Occurs(s, w[i]) /\ w[i] >= cursor + i
  BY WindowsAreOccurrences
<1>5. \A i \in Nat : w[i + 1] # ZeroTime =>
          /\ w[i] # ZeroTime
          /\ \A u \in Int : w[i] < u /\ u < w[i + 1] => ~IsOccurrence(s, u)
  BY WindowsInOrder
<1>6. now - cursor + 1 \in Nat
  BY <1>1
<1> HIDE DEF w
<1>7. open \in SUBSET Nat /\ open # {}
  <2>1. ~(w[now - cursor + 1] <= now /\ SkipsOccurrence(s, w[now - cursor + 1]))
    <3> SUFFICES ASSUME w[now - cursor + 1] <= now, SkipsOccurrence(s, w[now - cursor + 1])
                 PROVE  FALSE
      OBVIOUS
    <3>1. w[now - cursor + 1] # ZeroTime
      BY DEF SkipsOccurrence, IsNonWorkingOccurrence
    <3>2. w[now - cursor + 1] \in Int /\ w[now - cursor + 1] >= cursor + (now - cursor + 1)
      BY <1>4, <1>6, <3>1 DEF Occurs
    <3> QED BY <1>1, <3>2
  <2>2. now - cursor + 1 \in open
    BY <1>6, <2>1
  <2> QED BY <1>1, <2>2
<1>8. least \in open /\ \A i \in open : least <= i
  <2> HIDE DEF open
  <2> QED BY <1>7, EarliestIsLeast
<1> HIDE DEF least
<1>9. least \in 0..(now - cursor + 1) /\ least # 0
  <2>1. w[0] <= now /\ SkipsOccurrence(s, w[0])
    BY <1>1
  <2> QED BY <1>8, <2>1
<1>10. least - 1 \in Nat /\ (least - 1) + 1 = least /\ least - 1 \in 0..(now - cursor + 1)
       /\ least - 1 \notin open
  BY <1>1, <1>8, <1>9
<1>11. w[least - 1] <= now
  BY <1>10
<1>12. /\ w[least - 1] # ZeroTime
       /\ \A u \in Int : w[least - 1] < u /\ u < w[least] => ~IsOccurrence(s, u)
  BY <1>3, <1>5, <1>10
<1>13. w[least - 1] \in Int
  BY <1>4, <1>10, <1>12 DEF Occurs
<1>14. w[least - 1] < t
  BY <1>3, <1>11, <1>13
<1> QED BY <1>3, <1>12, <1>14

LEMMA ResolutionsPassOnlyDue ==
    ASSUME NEW s, Recurs(s), SearchDays \in Nat, NEW policy, PolicyType(policy),
           NEW cursor, Occurs(s, cursor), NEW now \in Int, cursor <= now,
           NEW limit \in Nat \ {0}
    PROVE  OnlyDue(s, now, ResolveMisfire(s, policy, cursor, now, limit).cursorAfter)
<1> DEFINE r == ResolveMisfire(s, policy, cursor, now, limit)
           future == NextAfter(s, cursor, now)
<1>0. cursor \in Nat \ {0} /\ cursor # ZeroTime /\ cursor \in Int
  BY OccursInTime
<1>1. \/ /\ SkipsOccurrence(s, cursor)
         /\ \E after : /\ Yields(r, <<>>, after)
                       /\ r = PastClosedDays(s, cursor, now)
      \/ ~SkipsOccurrence(s, cursor) /\ Yields(r, <<cursor>>, ZeroTime)
      \/ /\ ~SkipsOccurrence(s, cursor) /\ Missed(policy, cursor, now)
         /\ \/ Yields(r, <<>>, future)
            \/ Yields(r, <<cursor>>, future)
            \/ \E count \in Nat \ {0} : r = CatchUpBounded(s, cursor, now, count, future)
  BY <1>0, ResolutionForms
<1>2. OnlyDue(s, now, future)
  BY NothingBeforeFuture DEF OnlyDue
<1>3. OnlyDue(s, now, ZeroTime)
  BY DEF OnlyDue
<1> HIDE DEF r, future
<1>4. ASSUME SkipsOccurrence(s, cursor) /\ r = PastClosedDays(s, cursor, now)
      PROVE  OnlyDue(s, now, r.cursorAfter)
  BY <1>4, PastClosedDaysIsDue
<1>5. ASSUME Yields(r, <<cursor>>, ZeroTime)
      PROVE  OnlyDue(s, now, r.cursorAfter)
  <2>1. r.cursorAfter = ZeroTime
    BY <1>5, YieldedFields
  <2> QED BY <1>3, <2>1
<1>6. ASSUME Yields(r, <<>>, future) \/ Yields(r, <<cursor>>, future)
      PROVE  OnlyDue(s, now, r.cursorAfter)
  <2>1. r.cursorAfter = future
    BY <1>6, YieldedFields
  <2> QED BY <1>2, <2>1
<1>7. ASSUME NEW count \in Nat \ {0}, r = CatchUpBounded(s, cursor, now, count, future)
      PROVE  OnlyDue(s, now, r.cursorAfter)
  <2>1. PICK taken \in 0..count :
            Yields(r, FirstOnes(s, cursor, taken), AfterThem(s, cursor, now, count, future, taken))
    BY <1>7, TakenWindows
  <2> DEFINE after == AfterThem(s, cursor, now, count, future, taken)
             window == WindowsFrom(s, cursor)[taken]
  <2>2. r.cursorAfter = after
    BY <2>1, YieldedFields
  <2>3. \/ after = ZeroTime
        \/ after = window /\ window # ZeroTime /\ window <= now
        \/ after = future
    BY DEF AfterThem, DueAt
  <2>4. ASSUME window # ZeroTime, window <= now PROVE OnlyDue(s, now, window)
    <3>1. window \in Int
      BY <2>4, WindowsAreOccurrences DEF Occurs
    <3> HIDE DEF window
    <3> QED BY <2>4, <3>1 DEF OnlyDue
  <2> HIDE DEF after, window
  <2> QED BY <1>2, <1>3, <2>2, <2>3, <2>4
<1>8. OnlyDue(s, now, r.cursorAfter)
  BY <1>1, <1>4, <1>5, <1>6, <1>7
<1> QED BY <1>8 DEF r

(* What a resolution should run: the occurrences on working days up to     *)
(* where the cursor goes, or to now when the schedule ends                 *)
Runs(s, cursor, now, windows, next, t) ==
    /\ IsOccurrence(s, t) /\ Working(s, t)
    /\ t \in cursor..(IF next = ZeroTime THEN now ELSE next - 1)

RunsWhatIsMeant(s, cursor, now, windows, after, missed) ==
    LET next == GoesOnTo(s, windows, after)
    IN  /\ next = ZeroTime \/ (Occurs(s, next) /\ Rolled(s, next) /\ next > cursor)
        /\ \A i \in DOMAIN windows : Runs(s, cursor, now, windows, next, windows[i])
        /\ ~missed => \A t \in Int : Runs(s, cursor, now, windows, next, t) =>
                            \E i \in DOMAIN windows : t = windows[i]

(* The windows of a resolution are the ones meant, and those it leaves out *)
(* were missed.                                                            *)
LEMMA RecurringRuns ==
    ASSUME NEW s, Recurs(s), SearchDays \in Nat, NEW policy, PolicyType(policy),
           policy.misfire # NoPolicy, Grace(policy) \in Nat, Grace(policy) <= SearchDays * DayLength,
           NEW cursor, Occurs(s, cursor), Rolled(s, cursor), NEW now \in Int, cursor <= now,
           NEW limit \in Nat \ {0}
    PROVE  \E windows, after :
              /\ Yields(ResolveMisfire(s, policy, cursor, now, limit), windows, after)
              /\ RunsWhatIsMeant(s, cursor, now, windows, after, Missed(policy, cursor, now))
<1> DEFINE r == ResolveMisfire(s, policy, cursor, now, limit)
           future == NextAfter(s, cursor, now)
           missed == Missed(policy, cursor, now)
<1>0. /\ cursor \in Nat \ {0} /\ cursor # ZeroTime /\ now \in Nat /\ ValidSchedule(s)
      /\ s.type # "once" /\ Timely(s) /\ IsOccurrence(s, cursor)
  BY OccursInTime, RecurringSchedules, RecurringIsTimely DEF Occurs
<1>1. \/ /\ SkipsOccurrence(s, cursor)
         /\ \E after : /\ Yields(r, <<>>, after)
                       /\ r = PastClosedDays(s, cursor, now)
      \/ ~SkipsOccurrence(s, cursor) /\ Yields(r, <<cursor>>, ZeroTime)
      \/ /\ ~SkipsOccurrence(s, cursor) /\ missed
         /\ \/ Yields(r, <<>>, future)
            \/ Yields(r, <<cursor>>, future)
            \/ \E count \in Nat \ {0} : r = CatchUpBounded(s, cursor, now, count, future)
  BY <1>0, ResolutionForms
<1>2. Proper(s, policy, cursor, now, r)
  BY RecurringResolution
<1>3. Advances(s, cursor, now, r)
  BY <1>0, ResolutionsAdvance
<1>4. Workable(s, r)
  BY <1>0, ResolutionsAreWork
<1> HIDE DEF r, future, missed
<1>5. PICK windows, after : Yields(r, windows, after) /\ GoesOn(s, cursor, now, windows, after)
  BY <1>3 DEF Advances
<1> DEFINE next == GoesOnTo(s, windows, after)
           last == IF next = ZeroTime THEN now ELSE next - 1
<1>6. r.windows = windows /\ r.cursorAfter = after
  BY <1>5, YieldedFields
<1>7. Placed(s, cursor, windows, after)
  BY <1>2, <1>6, YieldedFields DEF Proper
<1>8. Rolled(s, after) /\ \A i \in DOMAIN windows : Working(s, windows[i])
  BY <1>4, <1>6 DEF Workable
<1>9. /\ windows \in Seq(Nat \ {0})
      /\ after # ZeroTime => Occurs(s, after)
      /\ \A i \in DOMAIN windows : Occurs(s, windows[i])
  BY <1>0, <1>7 DEF Placed
<1>10. next = ZeroTime \/ (Occurs(s, next) /\ Rolled(s, next))
  <2>1. CASE windows # <<>> /\ after = ZeroTime
    <3> DEFINE t == windows[Len(windows)]
    <3>1. Len(windows) \in DOMAIN windows
      BY <1>9, <2>1
    <3>2. Occurs(s, t)
      BY <1>9, <3>1
    <3>3. next = NextFromCursor(s, t) /\ NextFromCursor(s, t) = NextSchedule(s, t)
      BY <1>0, <2>1 DEF GoesOnTo, NextFromCursor
    <3> HIDE DEF t, next
    <3> QED BY <1>0, <3>2, <3>3, NextIsNextOccurrence, NextIsRolled
  <2>2. CASE ~(windows # <<>> /\ after = ZeroTime)
    BY <1>8, <1>9, <2>2 DEF GoesOnTo
  <2> QED BY <2>1, <2>2
<1>11. Later(cursor, next) /\ \A i \in DOMAIN windows : cursor <= windows[i] /\ windows[i] <= now
                                                    /\ Later(windows[i], next)
  BY <1>5 DEF GoesOn
<1>12. ASSUME NEW i \in DOMAIN windows PROVE Runs(s, cursor, now, windows, next, windows[i])
  <2>1. windows[i] \in Int /\ IsOccurrence(s, windows[i]) /\ Working(s, windows[i])
    BY <1>8, <1>9 DEF Occurs
  <2>2. cursor <= windows[i] /\ windows[i] <= now /\ Later(windows[i], next)
    BY <1>11
  <2> HIDE DEF next
  <2> QED BY <1>0, <2>1, <2>2 DEF Runs, Later
<1>13. ASSUME ~missed, NEW t \in Int, Runs(s, cursor, now, windows, next, t)
       PROVE  \E i \in DOMAIN windows : t = windows[i]
  <2>0. IsOccurrence(s, t) /\ Working(s, t) /\ cursor <= t
        /\ (next = ZeroTime => t <= now) /\ (next # ZeroTime => t < next)
    <3> HIDE DEF next
    <3>1. next # ZeroTime => next \in Nat
      BY <1>11 DEF Later
    <3> QED BY <1>0, <1>13, <3>1 DEF Runs
  <2>1. CASE SkipsOccurrence(s, cursor) /\ r = PastClosedDays(s, cursor, now)
    <3>1. PICK a : /\ Yields(r, <<>>, a) /\ ClosedBetween(s, cursor, <<>>, a)
      BY <2>1, PastClosedDaysIsPlaced
    <3>2. windows = <<>> /\ after = a
      BY <1>6, <3>1, YieldedFields
    <3>3. next = a /\ a # ZeroTime
      BY <3>1, <3>2 DEF GoesOnTo, ClosedBetween
    <3> QED BY <2>0, <3>1, <3>3 DEF ClosedBetween
  <2>2. CASE Yields(r, <<cursor>>, ZeroTime)
    <3>1. windows = <<cursor>> /\ after = ZeroTime
      BY <1>6, <2>2, YieldedFields
    <3>2. windows # <<>> /\ Len(windows) = 1 /\ DOMAIN windows = {1} /\ windows[1] = cursor
      BY <3>1
    <3>3. next = NextSchedule(s, cursor)
      BY <1>0, <3>1, <3>2 DEF GoesOnTo, NextFromCursor
    <3>4. ASSUME t # cursor PROVE FALSE
      <4>1. cursor < t
        BY <1>0, <2>0, <3>4
      <4>2. CASE next = ZeroTime
        <5>1. now <= cursor + Grace(policy)
          BY <1>0, <1>13 DEF Missed, missed
        <5>2. SearchDays * DayLength \in Int
          BY DaysHaveLength
        <5>3. t <= cursor + SearchDays * DayLength
          BY <1>0, <2>0, <4>2, <5>1, <5>2
        <5> QED BY <1>0, <2>0, <3>3, <4>1, <4>2, <5>3, NoneWithinSearch
      <4>3. CASE next # ZeroTime
        <5> HIDE DEF next
        <5> QED BY <1>0, <2>0, <3>3, <4>1, <4>3, NextIsNextOccurrence
      <4> QED BY <4>2, <4>3
    <3> QED BY <3>2, <3>4
  <2> QED BY <1>1, <1>13, <2>1, <2>2
<1>14. next = ZeroTime \/ (Occurs(s, next) /\ Rolled(s, next) /\ next > cursor)
  BY <1>10, <1>11 DEF Later
<1> HIDE DEF next
<1>15. RunsWhatIsMeant(s, cursor, now, windows, after, missed)
  BY <1>12, <1>13, <1>14 DEF RunsWhatIsMeant, next
<1> QED BY <1>5, <1>15 DEF r, missed

-----------------------------------------------------------------------------
(* The months of the calendar, whose starts are given by a recursion that  *)
(* has a solution: each part of it can be extended by a month.             *)

(* The starts of the first n + 1 months *)
FirstStarts(n, starts) ==
    starts = [m \in 1..(n + 1) |-> IF m = 1 THEN 0 ELSE starts[m - 1] + MonthLengths[m - 1]]

LEMMA FirstStartsExist ==
    ASSUME NEW n \in Nat
    PROVE  \E starts : FirstStarts(n, starts)
<1> DEFINE None == {i \in Nat : ~ \E starts : FirstStarts(i, starts)}
<1>1. ASSUME None # {} PROVE FALSE
  <2>1. PICK i \in None : \A j \in None : i <= j
    <3>1. None \in SUBSET Nat
      OBVIOUS
    <3> HIDE DEF None
    <3> QED BY <1>1, <3>1, EarliestIsLeast
  <2>2. i \in Nat /\ ~ \E starts : FirstStarts(i, starts)
    OBVIOUS
  <2>3. CASE i = 0
    <3> DEFINE starts == [m \in 1..(0 + 1) |-> 0]
    <3>1. FirstStarts(0, starts)
      BY DEF FirstStarts
    <3> QED BY <2>2, <2>3, <3>1
  <2>4. CASE i # 0
    <3>1. i - 1 \in Nat /\ i - 1 \notin None
      BY <2>1, <2>2, <2>4
    <3>2. PICK v : FirstStarts(i - 1, v)
      BY <3>1
    <3> DEFINE w == [m \in 1..(i + 1) |-> IF m = 1 THEN 0 ELSE v[m - 1] + MonthLengths[m - 1]]
    <3>3. \A m \in 1..i : w[m] = v[m]
      <4>1. (i - 1) + 1 = i
        BY <2>2
      <4>2. v = [m \in 1..i |-> IF m = 1 THEN 0 ELSE v[m - 1] + MonthLengths[m - 1]]
        BY <3>2, <4>1 DEF FirstStarts
      <4>3. \A m \in 1..i : v[m] = IF m = 1 THEN 0 ELSE v[m - 1] + MonthLengths[m - 1]
        BY <4>2
      <4> QED BY <2>2, <4>3
    <3>4. \A m \in 1..(i + 1) : w[m] = IF m = 1 THEN 0 ELSE v[m - 1] + MonthLengths[m - 1]
      OBVIOUS
    <3>5. \A m \in 1..(i + 1) : m # 1 => m - 1 \in 1..i
      BY <2>2
    <3>6. w = [m \in 1..(i + 1) |-> w[m]]
      OBVIOUS
    <3> HIDE DEF w
    <3>7. \A m \in 1..(i + 1) : w[m] = IF m = 1 THEN 0 ELSE w[m - 1] + MonthLengths[m - 1]
      BY <3>3, <3>4, <3>5
    <3>8. FirstStarts(i, w)
      BY <3>6, <3>7 DEF FirstStarts
    <3> QED BY <2>2, <3>8
  <2> QED BY <2>3, <2>4
<1> QED BY <1>1

LEMMA Calendar ==
    /\ Len(MonthLengths) \in Nat /\ Months = 1..Len(MonthLengths)
    /\ \A m \in Months : MonthLengths[m] \in Nat \ {0}
BY WallClockAssumption DEF Months

(* Each month starts where the one before it ends.                         *)
LEMMA MonthsFollow ==
    /\ MonthStart[1] = 0
    /\ \A m \in Months : MonthStart[m + 1] = MonthStart[m] + MonthLengths[m]
<1> DEFINE n == Len(MonthLengths)
           Solves(starts) == starts = [m \in 1..(n + 1) |->
                                IF m = 1 THEN 0 ELSE starts[m - 1] + MonthLengths[m - 1]]
<1>0. n \in Nat /\ Months = 1..n
  BY Calendar
<1>1. MonthStart = CHOOSE starts : Solves(starts)
  BY Zenon DEF MonthStart
<1>2. Solves(MonthStart)
  <2>1. \E starts : Solves(starts)
    BY <1>0, FirstStartsExist DEF FirstStarts
  <2> HIDE DEF Solves
  <2> QED BY <1>1, <2>1
<1> HIDE DEF n
<1>3. \A m \in 1..(n + 1) :
         MonthStart[m] = IF m = 1 THEN 0 ELSE MonthStart[m - 1] + MonthLengths[m - 1]
  BY <1>2
<1>4. MonthStart[1] = 0
  BY <1>0, <1>3
<1>5. ASSUME NEW m \in Months PROVE MonthStart[m + 1] = MonthStart[m] + MonthLengths[m]
  <2>1. m + 1 \in 1..(n + 1) /\ m + 1 # 1 /\ (m + 1) - 1 = m
    BY <1>0
  <2> QED BY <1>3, <2>1
<1> QED BY <1>4, <1>5

LEMMA StartsAreDays ==
    ASSUME NEW m \in 1..(Len(MonthLengths) + 1)
    PROVE  MonthStart[m] \in Nat
<1> DEFINE Bad == {i \in 1..(Len(MonthLengths) + 1) : MonthStart[i] \notin Nat}
<1>1. ASSUME Bad # {} PROVE FALSE
  <2>1. PICK i \in Bad : \A j \in Bad : i <= j
    <3>1. Bad \in SUBSET Nat
      BY Calendar
    <3> HIDE DEF Bad
    <3> QED BY <1>1, <3>1, EarliestIsLeast
  <2>2. i \in 1..(Len(MonthLengths) + 1) /\ MonthStart[i] \notin Nat
    OBVIOUS
  <2>3. i # 1
    BY <2>2, MonthsFollow
  <2>4. i - 1 \in Months /\ i - 1 \in 1..(Len(MonthLengths) + 1) /\ (i - 1) + 1 = i
    BY <2>2, <2>3, Calendar
  <2>5. MonthStart[i - 1] \in Nat
    BY <2>1, <2>4
  <2>6. MonthStart[i] = MonthStart[i - 1] + MonthLengths[i - 1]
    BY <2>4, MonthsFollow
  <2> QED BY <2>2, <2>4, <2>5, <2>6, Calendar
<1> QED BY <1>1

LEMMA LastDayIsOne == LastDay \in Int
<1>1. Len(MonthLengths) + 1 \in 1..(Len(MonthLengths) + 1)
  BY Calendar
<1> QED BY <1>1, StartsAreDays DEF LastDay

(* Months start in order, and none overlap.                                *)
LEMMA StartsInOrder ==
    ASSUME NEW m \in Months, NEW n \in 1..(Len(MonthLengths) + 1), m < n
    PROVE  MonthStart[m] + MonthLengths[m] <= MonthStart[n]
<1> DEFINE Bad == {i \in (m + 1)..(Len(MonthLengths) + 1) :
                      ~(MonthStart[m] + MonthLengths[m] <= MonthStart[i])}
<1>0. /\ m \in Nat /\ MonthStart[m] \in Nat /\ MonthLengths[m] \in Nat
      /\ Len(MonthLengths) \in Nat /\ m >= 1
  BY Calendar, StartsAreDays
<1>1. ASSUME Bad # {} PROVE FALSE
  <2>1. PICK i \in Bad : \A j \in Bad : i <= j
    <3>1. Bad \in SUBSET Nat
      BY <1>0
    <3> HIDE DEF Bad
    <3> QED BY <1>1, <3>1, EarliestIsLeast
  <2>2. /\ i \in (m + 1)..(Len(MonthLengths) + 1)
        /\ ~(MonthStart[m] + MonthLengths[m] <= MonthStart[i])
    OBVIOUS
  <2>3. i # m + 1
    BY <1>0, <2>2, MonthsFollow
  <2>4. i - 1 \in Months /\ i - 1 \in (m + 1)..(Len(MonthLengths) + 1) /\ (i - 1) + 1 = i
    BY <1>0, <2>2, <2>3, Calendar
  <2>5. MonthStart[m] + MonthLengths[m] <= MonthStart[i - 1]
    BY <1>0, <2>1, <2>4
  <2>6. MonthStart[i] = MonthStart[i - 1] + MonthLengths[i - 1] /\ MonthStart[i - 1] \in Nat
        /\ MonthLengths[i - 1] \in Nat
    BY <1>0, <2>4, MonthsFollow, Calendar, StartsAreDays
  <2> QED BY <1>0, <2>2, <2>5, <2>6
<1>2. n \in (m + 1)..(Len(MonthLengths) + 1)
  BY <1>0
<1> QED BY <1>1, <1>2

(* A day of a month is in that month.                                      *)
LEMMA DaysOfAMonth ==
    ASSUME NEW m \in Months, NEW k \in 1..MonthLengths[m]
    PROVE  LET day == MonthStart[m] + k - 1
           IN  MonthOf(day) = m /\ MonthDay(day) = k /\ day \in 0..LastDay
<1> DEFINE day == MonthStart[m] + k - 1
<1>0. /\ m \in Nat /\ m >= 1 /\ MonthStart[m] \in Nat /\ MonthLengths[m] \in Nat
      /\ Len(MonthLengths) \in Nat /\ Months = 1..Len(MonthLengths)
  BY Calendar, StartsAreDays
<1>1. MonthStart[m + 1] = MonthStart[m] + MonthLengths[m]
  BY MonthsFollow
<1>2. day \in Nat /\ MonthStart[m] <= day /\ day < MonthStart[m + 1]
  BY <1>0, <1>1
<1>3. ASSUME NEW n \in Months, MonthStart[n] <= day, day < MonthStart[n + 1] PROVE n = m
  <2>0. /\ n \in Nat /\ n >= 1 /\ MonthStart[n] \in Nat /\ MonthLengths[n] \in Nat
        /\ MonthStart[n + 1] = MonthStart[n] + MonthLengths[n]
    BY <1>0, Calendar, StartsAreDays, MonthsFollow
  <2>1. ASSUME n < m PROVE FALSE
    <3>1. MonthStart[n] + MonthLengths[n] <= MonthStart[m]
      BY <1>0, <2>1, StartsInOrder
    <3> QED BY <1>0, <1>2, <1>3, <2>0, <3>1
  <2>2. ASSUME m < n PROVE FALSE
    <3>1. MonthStart[m] + MonthLengths[m] <= MonthStart[n]
      BY <1>0, <2>2, StartsInOrder
    <3> QED BY <1>0, <1>1, <1>2, <1>3, <2>0, <3>1
  <2> QED BY <1>0, <2>0, <2>1, <2>2
<1> HIDE DEF day
<1>4. MonthOf(day) = m
  BY <1>2, <1>3 DEF MonthOf
<1>5. MonthDay(day) = k
  BY <1>0, <1>4 DEF MonthDay, day
<1>6. day <= LastDay
  <2>1. Len(MonthLengths) + 1 \in 1..(Len(MonthLengths) + 1) /\ m < Len(MonthLengths) + 1
    BY <1>0
  <2>2. MonthStart[m + 1] <= MonthStart[Len(MonthLengths) + 1]
    BY <1>1, <2>1, StartsInOrder
  <2>3. MonthStart[Len(MonthLengths) + 1] \in Nat
    BY <2>1, StartsAreDays
  <2> QED BY <1>0, <1>1, <1>2, <2>2, <2>3 DEF LastDay
<1> QED BY <1>2, <1>4, <1>5, <1>6, LastDayIsOne DEF day

(* A day of the calendar has a month.                                      *)
LEMMA DaysHaveMonths ==
    ASSUME NEW day \in 0..LastDay
    PROVE  \E m \in Months : \E k \in 1..MonthLengths[m] : day = MonthStart[m] + k - 1
<1> DEFINE N == Len(MonthLengths)
           Ends == {n \in Months : day < MonthStart[n + 1]}
<1>0. N \in Nat /\ Months = 1..N /\ MonthStart[1] = 0
  BY Calendar, MonthsFollow
<1>1. MonthStart[N + 1] \in Nat /\ day \in Nat /\ day < MonthStart[N + 1]
  <2>1. N + 1 \in 1..(N + 1)
    BY <1>0
  <2>2. MonthStart[N + 1] \in Nat
    BY <2>1, StartsAreDays
  <2> QED BY <2>2 DEF LastDay
<1>2. N \in Ends
  <2>1. N # 0
    BY <1>0, <1>1
  <2> QED BY <1>0, <1>1, <2>1
<1>3. PICK m \in Ends : \A n \in Ends : m <= n
  <2>1. Ends \in SUBSET Nat
    BY <1>0
  <2> HIDE DEF Ends
  <2> QED BY <1>2, <2>1, EarliestIsLeast
<1>4. m \in Months /\ day < MonthStart[m + 1]
  OBVIOUS
<1>5. /\ MonthStart[m] \in Nat /\ MonthLengths[m] \in Nat
      /\ MonthStart[m + 1] = MonthStart[m] + MonthLengths[m]
  BY <1>0, <1>4, Calendar, StartsAreDays, MonthsFollow
<1>6. MonthStart[m] <= day
  <2>1. CASE m = 1
    BY <1>0, <1>1, <2>1
  <2>2. CASE m # 1
    <3>1. m - 1 \in Months /\ (m - 1) + 1 = m /\ ~(m <= m - 1)
      BY <1>0, <1>4, <2>2
    <3>2. ~(day < MonthStart[m])
      BY <1>3, <3>1
    <3> QED BY <1>1, <1>5, <3>2
  <2> QED BY <2>1, <2>2
<1> DEFINE k == day - MonthStart[m] + 1
<1>7. k \in 1..MonthLengths[m] /\ day = MonthStart[m] + k - 1
  BY <1>1, <1>4, <1>5, <1>6
<1> QED BY <1>4, <1>7

-----------------------------------------------------------------------------
(* Monthly rules on a day of every month *)

(* The day of the rule in a month                                          *)
RuleDay(s, m) == MonthStart[m] + s.monthDay - 1

LEMMA RuleDays ==
    ASSUME NEW s, MonthlyRule(s)
    PROVE  /\ \A m \in Months : /\ RuleDay(s, m) \in 0..LastDay /\ MonthOf(RuleDay(s, m)) = m
                                /\ MonthDay(RuleDay(s, m)) = s.monthDay /\ OnRule(s, RuleDay(s, m))
                                /\ Monthly(s.zone, m, s.monthDay, s.clock)
                                     = OccurrenceOn(s, RuleDay(s, m))
           /\ \A d \in 0..LastDay : OnRule(s, d) => MonthOf(d) \in Months /\ d = RuleDay(s, MonthOf(d))
<1>0. /\ s.monthDay \in 1..31 /\ s.type = "monthly_at"
      /\ \A m \in Months : s.monthDay <= MonthLengths[m] /\ MonthLengths[m] \in Nat
      /\ \A m \in Months : MonthStart[m] \in Nat
  BY Calendar, StartsAreDays DEF MonthlyRule, ValidSchedule, InEveryMonth
<1>1. ASSUME NEW m \in Months
      PROVE  /\ RuleDay(s, m) \in 0..LastDay /\ MonthOf(RuleDay(s, m)) = m
             /\ MonthDay(RuleDay(s, m)) = s.monthDay /\ OnRule(s, RuleDay(s, m))
             /\ Monthly(s.zone, m, s.monthDay, s.clock) = OccurrenceOn(s, RuleDay(s, m))
  <2>1. s.monthDay \in 1..MonthLengths[m]
    BY <1>0
  <2>2. /\ RuleDay(s, m) \in 0..LastDay /\ MonthOf(RuleDay(s, m)) = m
        /\ MonthDay(RuleDay(s, m)) = s.monthDay
    BY <2>1, DaysOfAMonth DEF RuleDay
  <2>3. OnRule(s, RuleDay(s, m))
    BY <1>0, <2>2 DEF OnRule
  <2>4. Monthly(s.zone, m, s.monthDay, s.clock) = OccurrenceOn(s, RuleDay(s, m))
    BY <1>0 DEF Monthly, OccurrenceOn, RuleDay
  <2> QED BY <2>2, <2>3, <2>4
<1>2. ASSUME NEW d \in 0..LastDay, OnRule(s, d)
      PROVE  MonthOf(d) \in Months /\ d = RuleDay(s, MonthOf(d))
  <2>1. PICK m \in Months : \E k \in 1..MonthLengths[m] : d = MonthStart[m] + k - 1
    BY DaysHaveMonths
  <2>2. PICK k \in 1..MonthLengths[m] : d = MonthStart[m] + k - 1
    BY <2>1
  <2>3. MonthOf(d) = m /\ MonthDay(d) = k
    BY <2>2, DaysOfAMonth
  <2>4. k = s.monthDay
    BY <1>0, <1>2, <2>3 DEF OnRule
  <2> QED BY <2>2, <2>3, <2>4 DEF RuleDay
<1> QED BY <1>1, <1>2

(* From a day that every month has, nextMonthly goes to the first day of   *)
(* the rule after now.                                                     *)
LEMMA NextMonthlyIsFirst ==
    ASSUME NEW s, MonthlyRule(s), NEW now \in Int, MonthFollows(LocalDay(s.zone, now)),
           InEveryMonth(MonthDay(LocalDay(s.zone, now)))
    PROVE  \E d \in 0..LastDay :
              /\ OnRule(s, d) /\ MonthDay(d) = s.monthDay
              /\ Next(s, now) = OccurrenceOn(s, d) /\ OccurrenceOn(s, d) > now
              /\ \A e \in 0..LastDay : OnRule(s, e) /\ OccurrenceOn(s, e) > now => d <= e
<1> DEFINE day == LocalDay(s.zone, now)
           m == MonthOf(day)
           this == RuleDay(s, m)
           that == RuleDay(s, m + 1)
<1>0. Steady(s.zone) /\ s.clock \in Clocks /\ s.type = "monthly_at" /\ s.monthDay \in 1..31
  BY DEF MonthlyRule, ValidSchedule
<1>1. PICK n \in Months : \E k \in 1..MonthLengths[n] : day = MonthStart[n] + k - 1
  BY DaysHaveMonths DEF MonthFollows
<1>2. PICK k \in 1..MonthLengths[n] : day = MonthStart[n] + k - 1
  BY <1>1
<1>3. /\ m = n /\ MonthDay(day) = k /\ m \in Months /\ m + 1 \in Months /\ day \in 0..LastDay
      /\ day = MonthStart[m] + k - 1
  <2>1. MonthOf(day) = n /\ MonthDay(day) = k
    BY <1>2, DaysOfAMonth
  <2> QED BY <1>2, <2>1 DEF MonthFollows
<1>4. LocalClock(s.zone, now) \in Clocks /\ day \in Int
  BY <1>0, SteadyLocal
<1>5. AddMonths(s.zone, now, 1) = Date(s.zone, MonthStart[m + 1] + k - 1, LocalClock(s.zone, now))
  BY <1>3 DEF AddMonths
<1> HIDE DEF day, m
<1>6. k \in 1..MonthLengths[m + 1]
  <2>1. k <= MonthLengths[m + 1]
    BY <1>3 DEF InEveryMonth, day
  <2> QED BY <1>2, <1>3, <2>1, Calendar
<1> DEFINE after == MonthStart[m + 1] + k - 1
<1>7. after \in Int /\ MonthOf(after) = m + 1
  BY <1>3, <1>6, DaysOfAMonth
<1> HIDE DEF after
<1>8. MonthOf(LocalDay(s.zone, AddMonths(s.zone, now, 1))) = m + 1
  <2>1. LocalDay(s.zone, AddMonths(s.zone, now, 1)) = after
    BY <1>0, <1>4, <1>5, <1>7, SteadyDate DEF after
  <2> QED BY <1>7, <2>1
<1>9. Next(s, now) = IF OccurrenceOn(s, this) > now THEN OccurrenceOn(s, this)
                     ELSE OccurrenceOn(s, that)
  <2>1. Next(s, now) = NextMonthly(s.zone, now, s.monthDay, s.clock)
    BY <1>0 DEF Next
  <2> HIDE DEF this, that
  <2>2. Monthly(s.zone, m, s.monthDay, s.clock) = OccurrenceOn(s, this)
        /\ Monthly(s.zone, m + 1, s.monthDay, s.clock) = OccurrenceOn(s, that)
    BY <1>3, RuleDays DEF this, that
  <2> QED BY <1>8, <2>1, <2>2 DEF NextMonthly, m, day
<1>10. /\ this \in 0..LastDay /\ that \in 0..LastDay /\ OnRule(s, this) /\ OnRule(s, that)
       /\ MonthDay(this) = s.monthDay /\ MonthDay(that) = s.monthDay
  BY <1>3, RuleDays
(* The days of the rule are in the order of their months.                  *)
<1>11. \A i, j \in Months : i < j => MonthStart[i] + MonthLengths[i] <= MonthStart[j]
  <2> TAKE i, j \in Months
  <2> HAVE i < j
  <2>1. j \in 1..(Len(MonthLengths) + 1)
    BY Calendar
  <2> QED BY <2>1, StartsInOrder
<1>12. /\ \A i \in Months : MonthStart[i] \in Nat /\ MonthLengths[i] \in Nat /\ i \in Nat
       /\ \A i \in Months : s.monthDay <= MonthLengths[i]
  BY Calendar, StartsAreDays DEF MonthlyRule, InEveryMonth
<1>13. day < that
  BY <1>0, <1>2, <1>3, <1>4, <1>11, <1>12 DEF RuleDay
<1>14. OccurrenceOn(s, that) > now
  <2> HIDE DEF this, that
  <2>1. that \in Int /\ that > LocalDay(s.zone, now)
    BY <1>4, <1>10, <1>13 DEF day
  <2> QED BY <1>0, <2>1, DaysAround DEF OccurrenceOn
<1>15. ASSUME NEW e \in 0..LastDay, OnRule(s, e), OccurrenceOn(s, e) > now
       PROVE  /\ this <= e
              /\ OccurrenceOn(s, this) > now \/ that <= e
  <2> DEFINE i == MonthOf(e)
  <2>1. i \in Months /\ e = RuleDay(s, i)
    BY <1>15, RuleDays
  <2> HIDE DEF i
  <2>2. e \in Int /\ day <= e
    <3>1. e \in Int
      OBVIOUS
    <3> QED BY <1>0, <1>4, <1>15, <3>1, DaysAround DEF OccurrenceOn, day
  <2>3. ~(i < m)
    <3>1. ASSUME i < m PROVE FALSE
      <4>1. MonthStart[i] + MonthLengths[i] <= MonthStart[m]
        BY <1>3, <1>11, <2>1, <3>1
      <4>2. e < MonthStart[m]
        BY <1>0, <1>3, <1>12, <2>1, <4>1 DEF RuleDay
      <4> QED BY <1>2, <1>3, <1>12, <2>2, <4>2
    <3> QED BY <3>1
  <2>4. CASE i = m
    <3>1. e = this
      BY <2>1, <2>4
    <3> QED BY <1>15, <2>2, <3>1
  <2>5. CASE m < i
    <3>1. MonthStart[m + 1] <= MonthStart[i] /\ MonthStart[m] <= MonthStart[m + 1]
      <4>1. MonthStart[m] + MonthLengths[m] <= MonthStart[m + 1]
        BY <1>3, <1>11, <1>12
      <4>2. CASE i = m + 1
        BY <1>3, <1>12, <2>1, <4>1, <4>2
      <4>3. CASE m + 1 < i
        BY <1>3, <1>11, <1>12, <2>1, <4>1, <4>3
      <4> QED BY <1>3, <1>12, <2>1, <2>5, <4>2, <4>3
    <3> QED BY <1>0, <1>3, <1>12, <2>1, <3>1 DEF RuleDay
  <2> QED BY <1>3, <1>12, <2>1, <2>3, <2>4, <2>5
<1> HIDE DEF this, that
<1>16. CASE OccurrenceOn(s, this) > now
  BY <1>9, <1>10, <1>15, <1>16
<1>17. CASE ~(OccurrenceOn(s, this) > now)
  BY <1>9, <1>10, <1>14, <1>15, <1>17
<1> QED BY <1>16, <1>17

(* The next window of a monthly rule is its next occurrence.               *)
LEMMA NextOfAMonth ==
    ASSUME NEW s, MonthlyRule(s), NEW now \in Int, MonthFollows(LocalDay(s.zone, now)),
           InEveryMonth(MonthDay(LocalDay(s.zone, now)))
    PROVE  LET next == NextSchedule(s, now)
           IN  /\ next \in Int /\ next > now /\ IsOccurrence(s, next)
               /\ LocalDay(s.zone, next) \in 0..LastDay
               /\ MonthDay(LocalDay(s.zone, next)) = s.monthDay
               /\ \A t \in Int : now < t /\ t < next => ~IsOccurrence(s, t)
<1> DEFINE next == NextSchedule(s, now)
<1>0. /\ Steady(s.zone) /\ s.clock \in Clocks /\ s.type = "monthly_at"
      /\ s.policy # "roll_forward"
  BY DEF MonthlyRule
<1>1. PICK d \in 0..LastDay :
              /\ OnRule(s, d) /\ MonthDay(d) = s.monthDay
              /\ Next(s, now) = OccurrenceOn(s, d) /\ OccurrenceOn(s, d) > now
              /\ \A e \in 0..LastDay : OnRule(s, e) /\ OccurrenceOn(s, e) > now => d <= e
  BY NextMonthlyIsFirst
<1>2. next = OccurrenceOn(s, d)
  BY <1>0, <1>1 DEF NextSchedule
<1> HIDE DEF next
<1>3. \A e : OccursOn(s, e) <=> OnRule(s, e)
  BY <1>0 DEF OccursOn
<1>4. next \in Int /\ LocalDay(s.zone, next) = d /\ d \in Int
  BY <1>0, <1>2, SteadyDate DEF OccurrenceOn
<1>5. IsOccurrence(s, next)
  BY <1>0, <1>1, <1>2, <1>3, <1>4 DEF IsOccurrence
<1>6. ASSUME NEW t \in Int, now < t, t < next, IsOccurrence(s, t) PROVE FALSE
  <2>1. PICK e \in Int : OnRule(s, e) /\ t = OccurrenceOn(s, e)
    BY <1>0, <1>3, <1>6 DEF IsOccurrence
  <2>2. e < d
    BY <1>0, <1>2, <1>4, <1>6, <2>1, DaysInOrder DEF OccurrenceOn
  <2>3. LocalDay(s.zone, now) <= e /\ LocalDay(s.zone, now) \in Nat
    BY <1>0, <1>6, <2>1, SteadyLocal, DaysAround DEF OccurrenceOn, MonthFollows
  <2>4. e \in 0..LastDay
    BY <1>4, <2>2, <2>3, LastDayIsOne
  <2> QED BY <1>1, <1>4, <1>6, <2>1, <2>2, <2>4
<1> QED BY <1>1, <1>2, <1>4, <1>5, <1>6 DEF next
=============================================================================
