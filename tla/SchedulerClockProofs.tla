-------------------------- MODULE SchedulerClockProofs --------------------------
(***************************************************************************)
(* Proofs about SchedulerClock for every set of workers and policies and   *)
(* every bound: that runs are on working days for every schedule in every  *)
(* zone, the rest for the regular schedules of Recurrence.                 *)
(***************************************************************************)
EXTENDS SchedulerClock, RecurrenceProofs

(* What a worker holds is the answer of a poll. *)
Held(h, windows, after) ==
    /\ h = [at |-> h.at, from |-> h.from, resolution |-> h.resolution]
    /\ Yields(h.resolution, windows, after)

LEMMA HeldFields ==
    ASSUME NEW h, NEW windows, NEW after, Held(h, windows, after)
    PROVE  h.resolution.windows = windows /\ h.resolution.cursorAfter = after
BY YieldedFields DEF Held

(* A claim takes the first window off what a worker holds.                 *)
LEMMA HeldTail ==
    ASSUME NEW h, NEW windows, NEW after, Held(h, windows, after), NEW rest
    PROVE  /\ Held([h EXCEPT !.resolution.windows = rest], rest, after)
           /\ [h EXCEPT !.resolution.windows = rest].at = h.at
           /\ [h EXCEPT !.resolution.windows = rest].from = h.from
<1> DEFINE r == h.resolution
           g == [h EXCEPT !.resolution.windows = rest]
<1>1. r = [windows |-> windows, cursorAfter |-> after, disable |-> r.disable]
      /\ r.disable \in BOOLEAN
  BY DEF Held, Yields, Resolution
<1>2. h = [at |-> h.at, from |-> h.from, resolution |-> r]
  BY DEF Held
<1>3. g = [at |-> h.at, from |-> h.from, resolution |-> [r EXCEPT !.windows = rest]]
  BY <1>2
<1>4. [r EXCEPT !.windows = rest]
        = [windows |-> rest, cursorAfter |-> after, disable |-> r.disable]
  BY <1>1
<1> HIDE DEF g
<1>5. /\ g.at = h.at /\ g.from = h.from
      /\ g.resolution = [windows |-> rest, cursorAfter |-> after, disable |-> r.disable]
  BY <1>3, <1>4
<1>6. g = [at |-> g.at, from |-> g.from, resolution |-> g.resolution]
  BY <1>3, <1>5
<1>7. Yields(g.resolution, rest, after)
  BY <1>1, <1>5 DEF Yields, Resolution
<1> QED BY <1>5, <1>6, <1>7 DEF Held, g

LEMMA NothingIsHeld == Held(NoResolution, <<>>, ZeroTime)
BY DEF Held, NoResolution, Nothing, Yields, Resolution

-----------------------------------------------------------------------------
(* Runs are on working days *)

HoldsWork(h) ==
    \E S, windows, after :
        /\ Held(h, windows, after) /\ windows \in Seq(S)
        /\ (\A t \in S : Working(schedule, t)) /\ Rolled(schedule, after)

WorkInvariant ==
    /\ schedule \in Schedules /\ policy \in Policies /\ limit \in Limits
    /\ cursor # ZeroTime /\ Rolled(schedule, cursor) /\ RunsOnWorkingDays
    /\ DOMAIN held = Workers /\ \A w \in Workers : HoldsWork(held[w])

LEMMA NothingIsWork == HoldsWork(NoResolution)
<1> DEFINE S == {}
           none == <<>>
<1>1. none \in Seq(S) /\ \A t \in S : Working(schedule, t)
  OBVIOUS
<1>2. Rolled(schedule, ZeroTime)
  BY DEF Rolled
<1>3. Held(NoResolution, none, ZeroTime)
  BY NothingIsHeld
<1> HIDE DEF S, none
<1> QED BY <1>1, <1>2, <1>3 DEF HoldsWork

LEMMA SettingsAreValid ==
    ASSUME schedule \in Schedules, policy \in Policies, limit \in Limits
    PROVE  /\ ValidSchedule(schedule) /\ SearchDays \in Nat /\ limit \in Nat \ {0}
           /\ PolicyType(policy) /\ policy.grace \in Nat /\ DefaultGrace \in Nat
           /\ FirstCursor(schedule) # ZeroTime
BY ClockAssumption DEF PolicyType

LEMMA InitIsWork == Init => WorkInvariant
<1> SUFFICES ASSUME Init PROVE WorkInvariant
  OBVIOUS
<1>1. schedule \in Schedules /\ policy \in Policies /\ limit \in Limits
  BY DEF Init
<1>2. ValidSchedule(schedule) /\ SearchDays \in Nat
  BY <1>1, SettingsAreValid
<1>3. Rolled(schedule, cursor)
  <2>1. CASE schedule.type = "once"
    BY <1>2, <2>1, ValidSchedules DEF Rolled
  <2>2. CASE schedule.type # "once"
    BY <1>2, <2>2, NextIsRolled DEF Init, FirstCursor
  <2> QED BY <2>1, <2>2
<1>4. RunsOnWorkingDays
  BY DEF Init, RunsOnWorkingDays
<1>5. DOMAIN held = Workers /\ \A w \in Workers : HoldsWork(held[w])
  BY NothingIsWork DEF Init
<1>6. cursor # ZeroTime
  BY <1>1, SettingsAreValid DEF Init
<1> QED BY <1>1, <1>3, <1>4, <1>5, <1>6 DEF WorkInvariant

(* Only what a worker holds changes, and it holds work.                    *)
LEMMA HeldWork ==
    ASSUME WorkInvariant, UNCHANGED <<settings, cursor, claimed>>, NEW w \in Workers, NEW h,
           HoldsWork(h), held' = [held EXCEPT ![w] = h]
    PROVE  WorkInvariant'
<1>1. schedule' = schedule /\ policy' = policy /\ limit' = limit /\ cursor' = cursor
      /\ claimed' = claimed
  BY DEF settings
<1>2. DOMAIN held' = Workers /\ \A v \in Workers : HoldsWork(held'[v])
  BY DEF WorkInvariant
<1>3. \A v \in Workers : HoldsWork(held'[v]) => HoldsWork(held[v])'
  BY <1>1 DEF HoldsWork
<1>4. RunsOnWorkingDays' /\ Rolled(schedule, cursor)' /\ (cursor # ZeroTime)'
  BY <1>1 DEF WorkInvariant, RunsOnWorkingDays, OnWorkingDay
<1> QED BY <1>1, <1>2, <1>3, <1>4 DEF WorkInvariant

LEMMA PollIsWork ==
    ASSUME WorkInvariant, NEW w \in Workers, Poll(w)
    PROVE  WorkInvariant'
<1> DEFINE r == ResolveMisfire(schedule, policy, cursor, now, limit)
           h == [at |-> now, from |-> cursor, resolution |-> r]
<1>1. held' = [held EXCEPT ![w] = h] /\ UNCHANGED <<settings, cursor, claimed>> /\ cursor <= now
  BY DEF Poll
<1>2. HoldsWork(h)
  <2>1. ValidSchedule(schedule) /\ SearchDays \in Nat /\ limit \in Nat \ {0} /\ PolicyType(policy)
    BY SettingsAreValid DEF WorkInvariant
  <2>2. cursor # ZeroTime /\ Rolled(schedule, cursor)
    BY DEF WorkInvariant
  <2>3. Workable(schedule, r)
    BY <1>1, <2>1, <2>2, ResolutionsAreWork
  <2>4. h.at = now /\ h.from = cursor /\ h.resolution = r
    OBVIOUS
  <2>5. h = [at |-> h.at, from |-> h.from, resolution |-> h.resolution]
    BY <2>4
  <2> HIDE DEF r, h
  <2>6. Held(h, r.windows, r.cursorAfter)
    BY <2>3, <2>4, <2>5 DEF Workable, Held
  <2> QED BY <2>3, <2>6 DEF Workable, HoldsWork
<1> HIDE DEF h
<1> QED BY <1>1, <1>2, HeldWork

LEMMA ClaimIsWork ==
    ASSUME WorkInvariant, NEW w \in Workers, ClaimWindow(w)
    PROVE  WorkInvariant'
<1> DEFINE h == held[w]
<1>1. PICK S, windows, after :
          /\ Held(h, windows, after) /\ windows \in Seq(S)
          /\ (\A t \in S : Working(schedule, t)) /\ Rolled(schedule, after)
  BY DEF WorkInvariant, HoldsWork
<1>2. h.resolution.windows = windows /\ h.resolution.cursorAfter = after
  BY <1>1, HeldFields
<1> HIDE DEF h
<1>3. windows # <<>>
  BY <1>2 DEF ClaimWindow, h
<1>4. Head(windows) \in S /\ Tail(windows) \in Seq(S)
  BY <1>1, <1>3
<1>5. UNCHANGED <<schedule, policy, limit>>
  BY DEF ClaimWindow, settings
<1>6. CASE UNCHANGED <<cursor, claimed>> /\ held' = [held EXCEPT ![w] = NoResolution]
  BY <1>5, <1>6, NothingIsWork, HeldWork DEF settings
<1>7. ASSUME claimed' = claimed \cup {Head(windows)},
             NEW next, MoveCursor(next), Rolled(schedule, next), NEW g, HoldsWork(g),
             held' = [held EXCEPT ![w] = g]
      PROVE  WorkInvariant'
  <2>1. RunsOnWorkingDays'
    BY <1>1, <1>4, <1>5, <1>7 DEF WorkInvariant, RunsOnWorkingDays, OnWorkingDay, Working
  <2>2. cursor' # ZeroTime /\ Rolled(schedule, cursor')
    BY <1>7 DEF MoveCursor, WorkInvariant
  <2>3. DOMAIN held' = Workers /\ \A v \in Workers : HoldsWork(held'[v])
    BY <1>7 DEF WorkInvariant
  <2>4. \A v \in Workers : HoldsWork(held'[v]) => HoldsWork(held[v])'
    BY <1>5 DEF HoldsWork
  <2>5. Rolled(schedule, cursor)'
    BY <1>5, <2>2
  <2> QED BY <1>5, <2>1, <2>2, <2>3, <2>4, <2>5 DEF WorkInvariant
<1>8. CASE claimed' # claimed \/ cursor' # cursor \/ held'[w] # NoResolution
  <2> DEFINE last == Len(windows) = 1
             next == IF last /\ after # ZeroTime THEN after
                     ELSE NextFromCursor(schedule, Head(windows))
             g == IF last THEN NoResolution ELSE [h EXCEPT !.resolution.windows = Tail(windows)]
  <2>1. /\ claimed' = claimed \cup {Head(windows)} /\ MoveCursor(next)
        /\ held' = [held EXCEPT ![w] = g]
    BY <1>2, <1>8 DEF ClaimWindow, h, WorkInvariant
  <2>2. Rolled(schedule, next)
    <3>1. ValidSchedule(schedule) /\ SearchDays \in Nat
      BY SettingsAreValid DEF WorkInvariant
    <3> QED BY <1>1, <3>1, NextIsRolled
  <2>3. HoldsWork(g)
    <3>1. HoldsWork([h EXCEPT !.resolution.windows = Tail(windows)])
      BY <1>1, <1>4, HeldTail DEF HoldsWork
    <3> QED BY <3>1, NothingIsWork
  <2> HIDE DEF next, g
  <2> QED BY <1>7, <2>1, <2>2, <2>3
<1>9. CASE claimed' = claimed /\ cursor' = cursor /\ held'[w] = NoResolution
  <2>1. \/ held' = [held EXCEPT ![w] = NoResolution]
        \/ held' = [held EXCEPT ![w] = [@ EXCEPT !.resolution.windows = Tail(windows)]]
    BY <1>2 DEF ClaimWindow, h
  <2>2. held' = [held EXCEPT ![w] = NoResolution]
    BY <1>9, <2>1 DEF WorkInvariant
  <2> QED BY <1>6, <1>9, <2>2
<1> QED BY <1>8, <1>9

LEMMA PersistIsWork ==
    ASSUME WorkInvariant, NEW w \in Workers, PersistCursor(w)
    PROVE  WorkInvariant'
<1>1. PICK S, windows, after :
          /\ Held(held[w], windows, after) /\ windows \in Seq(S)
          /\ (\A t \in S : Working(schedule, t)) /\ Rolled(schedule, after)
  BY DEF WorkInvariant, HoldsWork
<1>2. held[w].resolution.cursorAfter = after
  BY <1>1, HeldFields
<1>3. UNCHANGED <<schedule, policy, limit, claimed>> /\ held' = [held EXCEPT ![w] = NoResolution]
  BY DEF PersistCursor, settings
<1>4. cursor' # ZeroTime /\ Rolled(schedule, cursor')
  BY <1>1, <1>2 DEF PersistCursor, MoveCursor, WorkInvariant
<1>5. Rolled(schedule, cursor)' /\ RunsOnWorkingDays'
  BY <1>3, <1>4 DEF WorkInvariant, RunsOnWorkingDays, OnWorkingDay
<1>6. DOMAIN held' = Workers /\ \A v \in Workers : HoldsWork(held'[v])
  BY <1>3, NothingIsWork DEF WorkInvariant
<1>7. \A v \in Workers : HoldsWork(held'[v]) => HoldsWork(held[v])'
  BY <1>3 DEF HoldsWork
<1> QED BY <1>3, <1>4, <1>5, <1>6, <1>7 DEF WorkInvariant

LEMMA WorkStep == WorkInvariant /\ [Step]_vars => WorkInvariant'
<1> SUFFICES ASSUME WorkInvariant, [Step]_vars PROVE WorkInvariant'
  OBVIOUS
<1>1. ASSUME UNCHANGED <<settings, cursor, claimed, held>> PROVE WorkInvariant'
  <2>1. UNCHANGED <<schedule, policy, limit, cursor, claimed, held>>
    BY <1>1 DEF settings
  <2> QED BY <2>1 DEF WorkInvariant, HoldsWork, RunsOnWorkingDays, OnWorkingDay
<1>2. CASE Tick
  BY <1>1, <1>2 DEF Tick
<1>3. ASSUME NEW w \in Workers, Crash(w) PROVE WorkInvariant'
  BY <1>3, NothingIsWork, HeldWork DEF Crash
<1>4. ASSUME NEW w \in Workers, Work(w) PROVE WorkInvariant'
  BY <1>4, PollIsWork, ClaimIsWork, PersistIsWork DEF Work
<1>5. CASE UNCHANGED vars
  <2>1. UNCHANGED <<settings, cursor, claimed, held>>
    BY <1>5 DEF vars, settings
  <2> QED BY <1>1, <2>1
<1>6. Tick \/ (\E w \in Workers : Work(w) \/ Crash(w)) \/ UNCHANGED vars
  BY DEF Step
<1> QED BY <1>2, <1>3, <1>4, <1>5, <1>6

(* A schedule with a calendar runs on working days only, whatever its      *)
(* type and zone, the misfire policy and the workers: ResolveMisfire lets  *)
(* no closed day into a catch-up, and what rolls forward ends on open days *)
(* (RunsOnWorkingDays).                                                    *)
THEOREM WorkIsOnWorkingDays == ClockSpec => []RunsOnWorkingDays
<1>1. Init => WorkInvariant
  BY InitIsWork
<1>2. WorkInvariant /\ [Step]_vars => WorkInvariant'
  BY WorkStep
<1>3. WorkInvariant => RunsOnWorkingDays
  BY DEF WorkInvariant
<1> QED BY <1>1, <1>2, <1>3, PTL DEF ClockSpec
-----------------------------------------------------------------------------
(* The cursor of a regular schedule goes over its occurrences, one by one. *)

(* done has run, given was given up, and the cursor is at t. *)
Decided(s, done, given, t) ==
    /\ done \cap given = {}
    /\ \A u : Occurs(s, u) /\ u < t => u \in done \cup given
    /\ \A u \in done \cup given : Occurs(s, u) /\ u <= t
    /\ Occurs(s, t)

(* The cursor moves over occurrences, and each is run or given up.         *)
LEMMA MovingOnDecides ==
    ASSUME NEW s, NEW done, NEW given, NEW t, Decided(s, done, given, t), t \notin done \cup given,
           NEW next, Occurs(s, next), next > t, NEW more, NEW dropped, more \cap dropped = {},
           \A u : u \in more \cup dropped <=> Occurs(s, u) /\ t <= u /\ u < next
    PROVE  /\ Decided(s, done \cup more, given \cup dropped, next)
           /\ next \notin done \cup more \cup given \cup dropped
<1>1. t \in Int /\ next \in Int
  BY DEF Decided, Occurs
<1>2. ASSUME NEW u \in done \cup given PROVE Occurs(s, u) /\ u \in Int /\ u < t
  BY <1>1 DEF Decided, Occurs
<1>3. ASSUME NEW u \in more \cup dropped PROVE Occurs(s, u) /\ u \in Int /\ t <= u /\ u < next
  BY <1>1 DEF Occurs
<1>4. (done \cup more) \cap (given \cup dropped) = {}
  <2>1. done \cap given = {}
    BY DEF Decided
  <2>2. \A u : ~(u \in done \cup given /\ u \in more \cup dropped)
    BY <1>1, <1>2, <1>3
  <2> QED BY <2>1, <2>2
<1>5. ASSUME NEW u, Occurs(s, u), u < next PROVE u \in (done \cup more) \cup (given \cup dropped)
  <2>1. u \in Int
    BY <1>5 DEF Occurs
  <2>2. CASE u < t
    BY <1>5, <2>2 DEF Decided
  <2>3. CASE t <= u
    BY <1>5, <2>3
  <2> QED BY <1>1, <2>1, <2>2, <2>3
<1>6. \A u \in (done \cup more) \cup (given \cup dropped) : Occurs(s, u) /\ u <= next /\ u # next
  BY <1>1, <1>2, <1>3
<1> QED BY <1>4, <1>5, <1>6 DEF Decided

(* A schedule that ends stays at its last occurrence.                      *)
LEMMA EndingDecides ==
    ASSUME NEW s, NEW done, NEW given, NEW t, Decided(s, done, given, t), t \notin done \cup given,
           NEW more, more \subseteq {t}
    PROVE  Decided(s, done \cup more, given, t)
<1>1. t \in Int /\ t <= t /\ Occurs(s, t)
  BY DEF Decided, Occurs
<1>2. (done \cup more) \cap given = {}
  BY DEF Decided
<1>3. \A u : Occurs(s, u) /\ u < t => u \in (done \cup more) \cup given
  BY DEF Decided
<1>4. ASSUME NEW u \in (done \cup more) \cup given PROVE Occurs(s, u) /\ u <= t
  <2>1. u = t \/ u \in done \cup given
    OBVIOUS
  <2> QED BY <1>1, <2>1 DEF Decided
<1> QED BY <1>1, <1>2, <1>3, <1>4 DEF Decided

LEMMA RecurringSettings ==
    ASSUME RegularSchedules, schedule \in Schedules, schedule.type # "once"
    PROVE  Recurs(schedule) /\ schedule.at \in Nat
<1>1. Recurs(schedule)
  BY DEF RegularSchedules, Recurs
<1> QED BY <1>1, RecurringSchedules

(* The occurrences between two instants, and what is decided of them.      *)
LEMMA OccurrencesBetweenAre ==
    ASSUME NEW s, Recurs(s), NEW from \in Int, s.at <= from, NEW to \in Int
    PROVE  \A t : t \in OccurrencesBetween(s, from, to) <=> Occurs(s, t) /\ from < t /\ t <= to
<1>1. OccurrencesBetween(s, from, to) = {t \in (from + 1)..to : IsOccurrence(s, t)}
  BY RecurringSchedules, OccurrencesAre
<1>2. s.at \in Int
  BY RecurringSchedules
<1>3. \A t \in Int : t > from => t > s.at
  BY <1>2
<1>4. \A t : t \in (from + 1)..to <=> t \in Int /\ from < t /\ t <= to
  OBVIOUS
<1> QED BY <1>1, <1>3, <1>4 DEF Occurs

LEMMA DecidedOnce ==
    ASSUME NEW s, Recurs(s), NEW t \in Int, t > s.at, NEW done, NEW given
    PROVE  (/\ done \cap given = {}
            /\ OccurrencesBetween(s, s.at, t - 1) \subseteq done \cup given
            /\ done \cup given \subseteq OccurrencesBetween(s, s.at, t)
            /\ t \in OccurrencesBetween(s, s.at, t))
           <=> Decided(s, done, given, t)
<1>1. s.at \in Int /\ t - 1 \in Int /\ s.at <= s.at
  BY RecurringSchedules
<1>2. \A u : u \in OccurrencesBetween(s, s.at, t - 1) <=> Occurs(s, u) /\ s.at < u /\ u <= t - 1
  BY <1>1, OccurrencesBetweenAre
<1>3. \A u : u \in OccurrencesBetween(s, s.at, t) <=> Occurs(s, u) /\ s.at < u /\ u <= t
  BY <1>1, OccurrencesBetweenAre
<1>4. \A u : Occurs(s, u) => u \in Int /\ s.at < u /\ (u <= t - 1 <=> u < t)
  BY <1>1 DEF Occurs
<1>5. OccurrencesBetween(s, s.at, t - 1) \subseteq done \cup given
        <=> \A u : Occurs(s, u) /\ u < t => u \in done \cup given
  BY <1>2, <1>4
<1>6. done \cup given \subseteq OccurrencesBetween(s, s.at, t)
        <=> \A u \in done \cup given : Occurs(s, u) /\ u <= t
  BY <1>3, <1>4
<1>7. t \in OccurrencesBetween(s, s.at, t) <=> Occurs(s, t)
  BY <1>3, <1>4
<1> QED BY <1>5, <1>6, <1>7 DEF Decided

LEMMA EveryOccurrenceDecided ==
    ASSUME schedule.type # "once", Recurs(schedule), cursor \in Int, cursor > schedule.at
    PROVE  EveryOccurrenceDecidedOnce
             <=> /\ Decided(schedule, claimed, PassedWindows, cursor)
                 /\ cursor \in claimed \cup PassedWindows => disabled
BY DecidedOnce DEF EveryOccurrenceDecidedOnce
-----------------------------------------------------------------------------
(* Windows of a poll are from its cursor on, and it passes over what is    *)
(* due, or on its way.                                                     *)
Timed(h, windows, after) ==
    /\ h.from <= h.at /\ \A i \in DOMAIN windows : h.from <= windows[i]
    /\ OnlyDue(schedule, h.at, after)

(* What a worker holds is from a poll, whatever became of the cursor.      *)
HoldsRight(h) ==
    \/ h = NoResolution
    \/ \E windows, after :
          /\ Held(h, windows, after) /\ h.at \in Nat /\ h.from \in Nat
          /\ Placed(schedule, h.from, windows, after) /\ Timed(h, windows, after)
          /\ PassesOver(windows, after) =>
                Late(h) \/ ClosedBetween(schedule, h.from, windows, after)

RightInvariant ==
    /\ TypeOK /\ EveryOccurrenceDecidedOnce /\ GivenUpOnlyWhenLate
    /\ \A w \in Workers : HoldsRight(held[w])

LEMMA NothingIsTyped == NoResolution \in ResolutionType
<1> DEFINE S == Nat \ {0}
           none == <<>>
<1>1. none \in Seq(S) /\ 0 \in Nat /\ FALSE \in BOOLEAN
  OBVIOUS
<1>2. NoResolution = [at |-> 0, from |-> 0,
                      resolution |-> [windows |-> none, cursorAfter |-> 0, disable |-> FALSE]]
  BY DEF NoResolution, Nothing, Resolution, ZeroTime
<1> HIDE DEF none, S
<1>3. NoResolution \in [at : Nat, from : Nat,
                        resolution : [windows : Seq(S), cursorAfter : Nat, disable : BOOLEAN]]
  BY <1>1, <1>2
<1> QED BY <1>3 DEF ResolutionType, S

LEMMA RightIsTyped ==
    ASSUME NEW h, HoldsRight(h)
    PROVE  h \in ResolutionType
<1>1. CASE h = NoResolution
  BY <1>1, NothingIsTyped
<1>2. ASSUME NEW windows, NEW after, Held(h, windows, after), h.at \in Nat, h.from \in Nat,
             Placed(schedule, h.from, windows, after)
      PROVE  h \in ResolutionType
  <2> DEFINE r == h.resolution
             S == Nat \ {0}
  <2>1. r = [windows |-> windows, cursorAfter |-> after, disable |-> r.disable]
        /\ r.disable \in BOOLEAN
    BY <1>2 DEF Held, Yields, Resolution
  <2>2. windows \in Seq(S) /\ after \in Nat
    BY <1>2 DEF Placed
  <2> HIDE DEF S
  <2>3. r \in [windows : Seq(S), cursorAfter : Nat, disable : BOOLEAN]
    BY <2>1, <2>2
  <2>4. h = [at |-> h.at, from |-> h.from, resolution |-> r]
    BY <1>2 DEF Held
  <2> HIDE DEF r
  <2>5. h \in [at : Nat, from : Nat,
               resolution : [windows : Seq(S), cursorAfter : Nat, disable : BOOLEAN]]
    BY <1>2, <2>3, <2>4
  <2> QED BY <2>5 DEF ResolutionType, S
<1> QED BY <1>1, <1>2 DEF HoldsRight

(* A step that leaves the cursor and its past alone                        *)
LEMMA OnlyHeld ==
    ASSUME RightInvariant, UNCHANGED <<settings, cursor, disabled, claimed, passed>>,
           now' \in Nat, crashes' \in 0..MaxCrashes,
           DOMAIN held' = Workers, held' = [w \in Workers |-> held'[w]],
           \A w \in Workers : HoldsRight(held'[w])
    PROVE  RightInvariant'
<1>1. /\ schedule' = schedule /\ policy' = policy /\ limit' = limit /\ cursor' = cursor
      /\ disabled' = disabled /\ claimed' = claimed /\ passed' = passed
  BY DEF settings
<1>2. \A w \in Workers : held'[w] \in ResolutionType
  BY RightIsTyped
<1>3. held' \in [Workers -> ResolutionType]
  BY <1>2
<1>4. TypeOK'
  BY <1>1, <1>3 DEF RightInvariant, TypeOK, ResolutionType
<1>5. EveryOccurrenceDecidedOnce'
  <2>1. PassedWindows' = PassedWindows
    BY <1>1 DEF PassedWindows
  <2> QED BY <1>1, <2>1 DEF RightInvariant, EveryOccurrenceDecidedOnce
<1>6. GivenUpOnlyWhenLate'
  BY <1>1 DEF RightInvariant, GivenUpOnlyWhenLate, OnWorkingDay, PolicyGrace
<1>7. \A w \in Workers : HoldsRight(held'[w]) => HoldsRight(held[w])'
  BY <1>1 DEF HoldsRight, Timed, Late, PolicyGrace
<1> QED BY <1>4, <1>5, <1>6, <1>7 DEF RightInvariant

LEMMA HeldChanges ==
    ASSUME RightInvariant, NEW w \in Workers, NEW g, HoldsRight(g), held' = [held EXCEPT ![w] = g]
    PROVE  /\ DOMAIN held' = Workers /\ held' = [v \in Workers |-> held'[v]]
           /\ \A v \in Workers : HoldsRight(held'[v])
<1>1. held \in [Workers -> ResolutionType]
  BY DEF RightInvariant, TypeOK
<1>2. DOMAIN held = Workers
  BY <1>1
<1> QED BY <1>2 DEF RightInvariant

LEMMA InitIsRight ==
    ASSUME RegularSchedules, Init
    PROVE  RightInvariant
<1>1. schedule \in Schedules /\ policy \in Policies /\ limit \in Limits
      /\ cursor = FirstCursor(schedule) /\ now = cursor /\ cursor # ZeroTime
      /\ claimed = {} /\ passed = {} /\ disabled = FALSE /\ crashes = 0
      /\ held = [w \in Workers |-> NoResolution] /\ MaxCrashes \in Nat
  BY SettingsAreValid, ClockAssumption DEF Init
<1>2. Regular(schedule)
  BY <1>1 DEF RegularSchedules
<1>3. PassedWindows = {}
  BY <1>1 DEF PassedWindows
<1>4. ASSUME cursor \in Nat \ {0}, EveryOccurrenceDecidedOnce PROVE RightInvariant
  <2>1. held \in [Workers -> ResolutionType]
    BY <1>1, NothingIsTyped
  <2>2. now \in Nat /\ crashes \in 0..MaxCrashes
    BY <1>1, <1>4
  <2>3. TypeOK
    BY <1>1, <1>4, <2>1, <2>2 DEF TypeOK
  <2>4. GivenUpOnlyWhenLate
    BY <1>1 DEF GivenUpOnlyWhenLate
  <2>5. \A w \in Workers : HoldsRight(held[w])
    BY <1>1 DEF HoldsRight
  <2> QED BY <1>4, <2>3, <2>4, <2>5 DEF RightInvariant
<1>5. CASE schedule.type = "once"
  <2>1. cursor \in Nat \ {0}
    BY <1>1, <1>2, <1>5 DEF Regular, FirstCursor, ZeroTime
  <2>2. EveryOccurrenceDecidedOnce
    BY <1>5 DEF EveryOccurrenceDecidedOnce
  <2> QED BY <1>4, <2>1, <2>2
<1>6. CASE schedule.type # "once"
  <2>1. Recurs(schedule) /\ SearchDays \in Nat /\ schedule.at \in Nat
    BY <1>1, <1>6, RecurringSettings, SettingsAreValid
  <2>2. cursor = NextSchedule(schedule, schedule.at)
    BY <1>1, <1>6 DEF FirstCursor
  <2>3. /\ Occurs(schedule, cursor)
        /\ \A u \in Int : schedule.at < u /\ u < cursor => ~IsOccurrence(schedule, u)
    BY <1>1, <2>1, <2>2, NextIsNextOccurrence
  <2>4. cursor \in Nat \ {0} /\ cursor \in Int /\ cursor > schedule.at
    BY <2>1, <2>3, OccursInTime DEF Occurs
  <2>5. Decided(schedule, claimed, PassedWindows, cursor)
    <3>1. \A u : ~(Occurs(schedule, u) /\ u < cursor)
      BY <2>1, <2>3 DEF Occurs
    <3> QED BY <1>1, <1>3, <2>3, <3>1 DEF Decided
  <2>6. EveryOccurrenceDecidedOnce
    BY <1>1, <1>3, <1>6, <2>1, <2>4, <2>5, EveryOccurrenceDecided
  <2> QED BY <1>4, <2>4, <2>6
<1> QED BY <1>5, <1>6

(* An occurrence the cursor of a recurring schedule is at                  *)
LEMMA CursorOccurs ==
    ASSUME RegularSchedules, RightInvariant, schedule.type # "once"
    PROVE  /\ Recurs(schedule) /\ schedule.at \in Nat /\ SearchDays \in Nat
           /\ Occurs(schedule, cursor) /\ cursor \in Int /\ cursor > schedule.at
<1>1. /\ schedule \in Schedules /\ policy \in Policies /\ limit \in Limits
      /\ cursor \in Nat \ {0} /\ cursor \in OccurrencesBetween(schedule, schedule.at, cursor)
  BY DEF RightInvariant, TypeOK, EveryOccurrenceDecidedOnce
<1>2. Recurs(schedule) /\ schedule.at \in Nat /\ SearchDays \in Nat
  BY <1>1, RecurringSettings, SettingsAreValid
<1>3. Occurs(schedule, cursor)
  <2>1. schedule.at \in Int /\ schedule.at <= schedule.at /\ cursor \in Int
    BY <1>1, <1>2
  <2> QED BY <1>1, <1>2, <2>1, OccurrencesBetweenAre
<1> QED BY <1>1, <1>2, <1>3 DEF Occurs

LEMMA PollIsRight ==
    ASSUME RegularSchedules, RightInvariant, NEW w \in Workers, Poll(w)
    PROVE  RightInvariant'
<1> DEFINE r == ResolveMisfire(schedule, policy, cursor, now, limit)
           h == [at |-> now, from |-> cursor, resolution |-> r]
<1>1. /\ held' = [held EXCEPT ![w] = h] /\ cursor <= now /\ ~disabled
      /\ UNCHANGED <<settings, now, cursor, disabled, claimed, passed, crashes>>
  BY DEF Poll
<1>2. /\ schedule \in Schedules /\ now \in Nat /\ cursor \in Nat \ {0} /\ crashes \in 0..MaxCrashes
      /\ ValidSchedule(schedule) /\ SearchDays \in Nat /\ limit \in Nat \ {0}
      /\ PolicyType(policy) /\ policy.grace \in Nat
  BY SettingsAreValid DEF RightInvariant, TypeOK
<1>3. Proper(schedule, policy, cursor, now, r)
  <2>1. CASE schedule.type = "once"
    BY <1>1, <1>2, <2>1, OneTimeResolution
  <2>2. CASE schedule.type # "once"
    <3>1. Recurs(schedule)
      BY <1>2, <2>2, RecurringSettings
    <3>2. Occurs(schedule, cursor)
      <4>1. cursor \in OccurrencesBetween(schedule, schedule.at, cursor)
        BY <2>2 DEF RightInvariant, EveryOccurrenceDecidedOnce
      <4>2. schedule.at \in Int /\ schedule.at <= schedule.at
        BY <1>2, <2>2, RecurringSettings
      <4> QED BY <1>2, <3>1, <4>1, <4>2, OccurrencesBetweenAre
    <3> QED BY <1>1, <1>2, <3>1, <3>2, RecurringResolution
  <2> QED BY <2>1, <2>2
<1>4. h.at = now /\ h.from = cursor /\ h.resolution = r
      /\ h = [at |-> h.at, from |-> h.from, resolution |-> h.resolution]
  OBVIOUS
<1>9. Advances(schedule, cursor, now, r)
  <2>1. Timely(schedule)
    <3>1. CASE schedule.type = "once"
      BY <1>2, <3>1, ValidSchedules DEF Timely
    <3>2. CASE schedule.type # "once"
      BY <1>2, <3>2, RecurringSettings, RecurringIsTimely
    <3> QED BY <3>1, <3>2
  <2> QED BY <1>1, <1>2, <2>1, ResolutionsAdvance
<1>10. schedule.type # "once" => OnlyDue(schedule, now, r.cursorAfter)
  <2> HAVE schedule.type # "once"
  <2>1. Recurs(schedule)
    BY <1>2, RecurringSettings
  <2>2. Occurs(schedule, cursor)
    BY CursorOccurs
  <2> QED BY <1>1, <1>2, <2>1, <2>2, ResolutionsPassOnlyDue
<1> HIDE DEF r, h
<1>5. Missed(policy, cursor, now) => Late(h)
  BY <1>2, <1>4 DEF Missed, Late, Grace, PolicyGrace
<1>6. PICK windows, after :
          /\ Yields(r, windows, after) /\ Placed(schedule, cursor, windows, after)
          /\ PassesOver(windows, after) =>
                Missed(policy, cursor, now) \/ ClosedBetween(schedule, cursor, windows, after)
  BY <1>3 DEF Proper
<1>7. HoldsRight(h)
  <2>1. Held(h, windows, after)
    BY <1>4, <1>6 DEF Held
  <2>2. h.at \in Nat /\ h.from \in Nat /\ Placed(schedule, h.from, windows, after)
    BY <1>2, <1>4, <1>6
  <2>4. r.windows = windows /\ r.cursorAfter = after
    BY <1>6, YieldedFields
  <2>5. \A i \in DOMAIN windows : cursor <= windows[i]
    <3>1. PICK ws, a : Yields(r, ws, a) /\ GoesOn(schedule, cursor, now, ws, a)
      BY <1>9 DEF Advances
    <3>2. ws = windows
      BY <2>4, <3>1, YieldedFields
    <3> QED BY <3>1, <3>2 DEF GoesOn
  <2>6. OnlyDue(schedule, now, after)
    <3>1. CASE schedule.type = "once"
      BY <1>6, <3>1 DEF Placed, OnlyDue
    <3>2. CASE schedule.type # "once"
      BY <1>10, <2>4, <3>2
    <3> QED BY <3>1, <3>2
  <2>7. Timed(h, windows, after)
    BY <1>1, <1>4, <2>5, <2>6 DEF Timed
  <2>3. PassesOver(windows, after) => Late(h) \/ ClosedBetween(schedule, h.from, windows, after)
    BY <1>4, <1>5, <1>6
  <2> QED BY <2>1, <2>2, <2>3, <2>7 DEF HoldsRight
<1>8. /\ DOMAIN held' = Workers /\ held' = [v \in Workers |-> held'[v]]
      /\ \A v \in Workers : HoldsRight(held'[v])
  BY <1>1, <1>7, HeldChanges
<1>11. UNCHANGED <<settings, cursor, disabled, claimed, passed>>
       /\ now' \in Nat /\ crashes' \in 0..MaxCrashes
  BY <1>1, <1>2
<1> QED BY <1>8, <1>11, OnlyHeld

(* What is given up, as windows and as what is remembered of them          *)
LEMMA GivenUpAre ==
    ASSUME NEW w \in Workers, NEW after, NEW next
    PROVE  /\ {p.window : p \in GivenUp(w, after, next)}
                = IF next = ZeroTime
                  THEN (IF schedule.type = "once" THEN {cursor} \ {after} ELSE {})
                  ELSE OccurrencesBetween(schedule, after, next - 1)
           /\ \A p \in GivenUp(w, after, next) :
                 /\ p = [window |-> p.window, from |-> held[w].from, at |-> held[w].at]
                 /\ p.from = held[w].from /\ p.at = held[w].at
<1> DEFINE T == IF next = ZeroTime
                THEN (IF schedule.type = "once" THEN {cursor} \ {after} ELSE {})
                ELSE OccurrencesBetween(schedule, after, next - 1)
           remembered(t) == [window |-> t, from |-> held[w].from, at |-> held[w].at]
<1>1. GivenUp(w, after, next) = {remembered(t) : t \in T}
  BY DEF GivenUp
<1> HIDE DEF T
<1>2. \A t : remembered(t).window = t
  OBVIOUS
<1>3. {p.window : p \in {remembered(t) : t \in T}} = T
  BY <1>2
<1> QED BY <1>1, <1>3 DEF T

(* The reason a working day's window is given up for                       *)
Reason(p) ==
    /\ Late(p) /\ p.from <= p.window
    /\ NonePending(schedule, p.at) => p.window <= p.at

(* The cursor moves on, what it passes is run or given up for a reason.    *)
LEMMA CursorMoves ==
    ASSUME RegularSchedules, RightInvariant, UNCHANGED <<settings, now, crashes>>,
           NEW w \in Workers, NEW g, HoldsRight(g), held' = [held EXCEPT ![w] = g], ~disabled,
           NEW more, more \subseteq {cursor}, claimed' = claimed \cup more,
           NEW given, passed' = passed \cup given,
           \A p \in given : /\ p \in [window : Nat \ {0}, from : Nat, at : Nat]
                            /\ OnWorkingDay(p.window) => Reason(p),
           NEW next \in Nat, MoveCursor(next), next # ZeroTime => next > cursor,
           schedule.type = "once" => next = ZeroTime,
           schedule.type # "once" =>
              /\ next = ZeroTime => given = {}
              /\ next # ZeroTime =>
                    /\ Occurs(schedule, next) /\ more \cap {p.window : p \in given} = {}
                    /\ \A t : t \in more \cup {p.window : p \in given}
                                 <=> Occurs(schedule, t) /\ cursor <= t /\ t < next
    PROVE  RightInvariant' /\ cursor' >= cursor
<1> DEFINE dropped == {p.window : p \in given}
<1>1. /\ schedule' = schedule /\ policy' = policy /\ limit' = limit
      /\ now' = now /\ crashes' = crashes
  BY DEF settings
<1>2. /\ schedule \in Schedules /\ cursor \in Nat \ {0} /\ claimed \subseteq Nat \ {0}
      /\ passed \subseteq [window : Nat \ {0}, from : Nat, at : Nat]
  BY DEF RightInvariant, TypeOK
<1>3. /\ cursor' \in Nat \ {0} /\ cursor' >= cursor /\ disabled' \in BOOLEAN
      /\ next = ZeroTime => disabled' /\ cursor' = cursor
      /\ next # ZeroTime => cursor' = next
  <2>1. disabled' = (next = ZeroTime) /\ cursor' = IF next = ZeroTime THEN cursor ELSE next
    BY DEF MoveCursor
  <2>2. disabled' \in BOOLEAN /\ (next = ZeroTime => disabled')
    BY <2>1, Zenon
  <2>3. next \in Nat /\ cursor \in Nat \ {0} /\ (next # ZeroTime => next > cursor)
    BY <1>2
  <2>4. /\ cursor' \in Nat \ {0} /\ cursor' >= cursor
        /\ next = ZeroTime => cursor' = cursor
        /\ next # ZeroTime => cursor' = next
    BY <2>1, <2>3 DEF ZeroTime
  <2> QED BY <2>2, <2>4
<1>4. /\ DOMAIN held' = Workers /\ held' = [v \in Workers |-> held'[v]]
      /\ \A v \in Workers : HoldsRight(held'[v])
  BY HeldChanges
<1>5. TypeOK'
  <2>1. \A v \in Workers : held'[v] \in ResolutionType
    BY <1>4, RightIsTyped
  <2>2. held' \in [Workers -> ResolutionType]
    BY <1>4, <2>1
  <2>3. claimed' \subseteq Nat \ {0}
        /\ passed' \subseteq [window : Nat \ {0}, from : Nat, at : Nat]
    BY <1>2
  <2> QED BY <1>1, <1>3, <2>2, <2>3 DEF RightInvariant, TypeOK, ResolutionType
<1>6. GivenUpOnlyWhenLate'
  <2>1. ASSUME NEW p \in passed', OnWorkingDay(p.window) PROVE Reason(p)
    BY <2>1 DEF RightInvariant, GivenUpOnlyWhenLate, Late, Reason
  <2>2. \A p \in passed' : OnWorkingDay(p.window) =>
            /\ policy.misfire # NoPolicy /\ p.at > p.from + PolicyGrace
            /\ p.from <= p.window
            /\ NonePending(schedule, p.at) => p.window <= p.at
    BY <2>1 DEF Late, Reason
  <2> QED BY <1>1, <2>2 DEF GivenUpOnlyWhenLate, OnWorkingDay, PolicyGrace
<1>7. EveryOccurrenceDecidedOnce'
  <2>1. CASE schedule.type = "once"
    BY <1>1, <2>1 DEF EveryOccurrenceDecidedOnce
  <2>2. CASE schedule.type # "once"
    <3>1. Recurs(schedule) /\ schedule.at \in Nat
      BY <1>2, <2>2, RecurringSettings
    <3>2. cursor \in Int /\ cursor > schedule.at
      <4>1. cursor \in OccurrencesBetween(schedule, schedule.at, cursor)
        BY <2>2 DEF RightInvariant, EveryOccurrenceDecidedOnce
      <4> QED BY <1>2, <3>1, <4>1, OccurrencesBetweenAre
    <3>3. Decided(schedule, claimed, PassedWindows, cursor)
          /\ cursor \notin claimed \cup PassedWindows
      BY <2>2, <3>1, <3>2, EveryOccurrenceDecided DEF RightInvariant
    <3>4. PassedWindows' = PassedWindows \cup dropped
      BY DEF PassedWindows
    <3>5. /\ Decided(schedule, claimed', PassedWindows', cursor')
          /\ cursor' \in claimed' \cup PassedWindows' => disabled'
      <4>1. CASE next = ZeroTime
        <5>1. dropped = {}
          BY <2>2, <4>1
        <5>2. PassedWindows' = PassedWindows
          BY <3>4, <5>1
        <5>3. Decided(schedule, claimed \cup more, PassedWindows, cursor)
          BY <3>3, EndingDecides
        <5> QED BY <1>3, <4>1, <5>2, <5>3
      <4>2. CASE next # ZeroTime
        <5>1. /\ Occurs(schedule, next) /\ more \cap dropped = {} /\ next > cursor
              /\ \A t : t \in more \cup dropped
                           <=> Occurs(schedule, t) /\ cursor <= t /\ t < next
          BY <2>2, <4>2
        <5> HIDE DEF dropped
        <5>2. /\ Decided(schedule, claimed \cup more, PassedWindows \cup dropped, next)
              /\ next \notin claimed \cup more \cup PassedWindows \cup dropped
          BY <3>3, <5>1, MovingOnDecides
        <5>3. cursor' = next /\ cursor' \notin claimed' \cup PassedWindows'
          BY <1>3, <3>4, <4>2, <5>2
        <5> QED BY <3>4, <5>2, <5>3
      <4> QED BY <4>1, <4>2
    <3>6. cursor' \in Int /\ cursor' > schedule.at
      BY <1>3, <3>1, <3>2
    <3>7. /\ claimed' \cap PassedWindows' = {}
          /\ OccurrencesBetween(schedule, schedule.at, cursor' - 1)
                \subseteq claimed' \cup PassedWindows'
          /\ claimed' \cup PassedWindows' \subseteq OccurrencesBetween(schedule, schedule.at, cursor')
          /\ cursor' \in OccurrencesBetween(schedule, schedule.at, cursor')
      BY <3>1, <3>5, <3>6, DecidedOnce
    <3> QED BY <1>1, <3>5, <3>7 DEF EveryOccurrenceDecidedOnce
  <2> QED BY <2>1, <2>2
<1>8. \A v \in Workers : HoldsRight(held'[v]) => HoldsRight(held[v])'
  BY <1>1 DEF HoldsRight, Timed, Late, PolicyGrace
<1> QED BY <1>3, <1>4, <1>5, <1>6, <1>7, <1>8 DEF RightInvariant

LEMMA HeldIsRight ==
    ASSUME RightInvariant, NEW w \in Workers, held[w] # NoResolution
    PROVE  \E windows, after :
              /\ Held(held[w], windows, after) /\ held[w].at \in Nat /\ held[w].from \in Nat
              /\ held[w].resolution.windows = windows /\ held[w].resolution.cursorAfter = after
              /\ Placed(schedule, held[w].from, windows, after) /\ Timed(held[w], windows, after)
              /\ PassesOver(windows, after) =>
                    Late(held[w]) \/ ClosedBetween(schedule, held[w].from, windows, after)
<1>1. HoldsRight(held[w])
  BY DEF RightInvariant
<1>2. PICK windows, after :
          /\ Held(held[w], windows, after) /\ held[w].at \in Nat /\ held[w].from \in Nat
          /\ Placed(schedule, held[w].from, windows, after) /\ Timed(held[w], windows, after)
          /\ PassesOver(windows, after) =>
                Late(held[w]) \/ ClosedBetween(schedule, held[w].from, windows, after)
  BY <1>1 DEF HoldsRight
<1>3. held[w].resolution.windows = windows /\ held[w].resolution.cursorAfter = after
  BY <1>2, HeldFields
<1> QED BY <1>2, <1>3

LEMMA DropIsRight ==
    ASSUME RightInvariant, NEW w \in Workers, held' = [held EXCEPT ![w] = NoResolution],
           UNCHANGED <<settings, cursor, disabled, claimed, passed>>,
           now' = now, crashes' \in 0..MaxCrashes
    PROVE  RightInvariant'
<1>1. HoldsRight(NoResolution)
  BY DEF HoldsRight
<1>2. /\ DOMAIN held' = Workers /\ held' = [v \in Workers |-> held'[v]]
      /\ \A v \in Workers : HoldsRight(held'[v])
  BY <1>1, HeldChanges
<1>3. now' \in Nat
  BY DEF RightInvariant, TypeOK
<1> QED BY <1>2, <1>3, OnlyHeld

(* What is given up from a cursor on, when the cursor moves to next        *)
LEMMA GivenUpTyped ==
    ASSUME RegularSchedules, RightInvariant, schedule.type # "once", NEW w \in Workers,
           held[w].at \in Nat, held[w].from \in Nat, NEW after \in Int, schedule.at <= after,
           held[w].from <= after + 1,
           NEW next \in Nat, next # ZeroTime, OnlyDue(schedule, held[w].at, next)
    PROVE  /\ \A t : t \in {p.window : p \in GivenUp(w, after, next)}
                        <=> Occurs(schedule, t) /\ after < t /\ t < next
           /\ \A p \in GivenUp(w, after, next) :
                 /\ p \in [window : Nat \ {0}, from : Nat, at : Nat]
                 /\ Late(held[w]) => Reason(p)
                 /\ Occurs(schedule, p.window) /\ after < p.window /\ p.window < next
<1>1. Recurs(schedule) /\ schedule.at \in Nat
  BY CursorOccurs
<1>2. {p.window : p \in GivenUp(w, after, next)} = OccurrencesBetween(schedule, after, next - 1)
      /\ \A p \in GivenUp(w, after, next) :
            /\ p = [window |-> p.window, from |-> held[w].from, at |-> held[w].at]
            /\ p.from = held[w].from /\ p.at = held[w].at
  BY GivenUpAre
<1>3. \A t : t \in OccurrencesBetween(schedule, after, next - 1)
                <=> Occurs(schedule, t) /\ after < t /\ t <= next - 1
  BY <1>1, OccurrencesBetweenAre
<1>4. \A t : Occurs(schedule, t) => t \in Nat \ {0} /\ (t <= next - 1 <=> t < next)
  BY <1>1, OccursInTime
<1>5. \A t : t \in {p.window : p \in GivenUp(w, after, next)}
                <=> Occurs(schedule, t) /\ after < t /\ t < next
  BY <1>2, <1>3, <1>4
<1>6. ASSUME NEW p \in GivenUp(w, after, next)
      PROVE  /\ p \in [window : Nat \ {0}, from : Nat, at : Nat]
             /\ Late(held[w]) => Reason(p)
             /\ Occurs(schedule, p.window) /\ after < p.window /\ p.window < next
  <2>1. p.window \in {q.window : q \in GivenUp(w, after, next)}
    OBVIOUS
  <2>2. Occurs(schedule, p.window) /\ after < p.window /\ p.window < next
        /\ p.window \in Nat \ {0}
    BY <1>4, <1>5, <2>1
  <2>3. p = [window |-> p.window, from |-> held[w].from, at |-> held[w].at]
        /\ p.from = held[w].from /\ p.at = held[w].at
    BY <1>2
  <2>4. p \in [window : Nat \ {0}, from : Nat, at : Nat]
    BY <2>2, <2>3
  <2>5. Late(held[w]) => Reason(p)
    <3>1. Late(held[w]) => Late(p)
      BY <2>3 DEF Late
    <3>2. p.from <= p.window
      BY <2>2, <2>3
    <3>3. NonePending(schedule, p.at) => ~(p.at < p.window)
      BY <2>2, <2>3 DEF OnlyDue, Occurs
    <3>4. NonePending(schedule, p.at) => p.window <= p.at
      BY <2>2, <2>3, <3>3
    <3> QED BY <3>1, <3>2, <3>4 DEF Reason
  <2> QED BY <2>2, <2>4, <2>5
<1> QED BY <1>5, <1>6

(* The rest of what a worker holds is as right as the whole.               *)
LEMMA TailIsRight ==
    ASSUME NEW h, NEW windows, NEW after, Held(h, windows, after), h.at \in Nat, h.from \in Nat,
           Placed(schedule, h.from, windows, after), Timed(h, windows, after),
           PassesOver(windows, after) => Late(h) \/ ClosedBetween(schedule, h.from, windows, after),
           windows # <<>>, Len(windows) # 1
    PROVE  HoldsRight([h EXCEPT !.resolution.windows = Tail(windows)])
<1> DEFINE rest == Tail(windows)
           g == [h EXCEPT !.resolution.windows = rest]
<1>1. windows \in Seq(Nat \ {0})
  BY DEF Placed
<1>2. /\ rest \in Seq(Nat \ {0}) /\ rest # <<>> /\ Len(rest) = Len(windows) - 1
      /\ Len(rest) \in DOMAIN rest
      /\ \A i \in DOMAIN rest : i + 1 \in DOMAIN windows /\ rest[i] = windows[i + 1]
      /\ rest[Len(rest)] = windows[Len(windows)]
  <2>1. /\ rest \in Seq(Nat \ {0}) /\ Len(rest) = Len(windows) - 1 /\ Len(windows) \in Nat
        /\ Len(windows) # 0
        /\ DOMAIN rest = 1..Len(rest) /\ DOMAIN windows = 1..Len(windows)
        /\ \A i \in 1..(Len(windows) - 1) : rest[i] = windows[i + 1]
    BY <1>1
  <2> HIDE DEF rest
  <2>2. Len(rest) \in 1..(Len(windows) - 1) /\ Len(rest) + 1 = Len(windows)
    BY <2>1
  <2>3. rest # <<>>
    BY <2>2
  <2>4. rest[Len(rest)] = windows[Len(windows)]
    BY <2>1, <2>2
  <2> QED BY <2>1, <2>2, <2>3, <2>4
<1> HIDE DEF rest
<1>3. Placed(schedule, h.from, rest, after)
  BY <1>2 DEF Placed
<1>4. Held(g, rest, after) /\ g.at = h.at /\ g.from = h.from
  BY HeldTail
<1> HIDE DEF g
<1>5. PassesOver(rest, after) => Late(g)
  <2> HAVE PassesOver(rest, after)
  <2>1. PassesOver(windows, after)
    BY <1>2 DEF PassesOver
  <2>2. Late(h)
    BY <2>1 DEF ClosedBetween
  <2> QED BY <1>4, <2>2 DEF Late
<1>6. Timed(g, rest, after)
  BY <1>2, <1>4 DEF Timed
<1>7. HoldsRight(g)
  BY <1>3, <1>4, <1>5, <1>6 DEF HoldsRight
<1> QED BY <1>7 DEF g, rest

LEMMA ClaimIsRight ==
    ASSUME RegularSchedules, RightInvariant, NEW w \in Workers, ClaimWindow(w)
    PROVE  RightInvariant' /\ cursor' >= cursor
<1> DEFINE h == held[w]
           window == Head(h.resolution.windows)
           last == Len(h.resolution.windows) = 1
           moved == last /\ h.resolution.cursorAfter # ZeroTime
           next == IF moved THEN h.resolution.cursorAfter ELSE NextFromCursor(schedule, window)
           given == IF moved THEN GivenUp(w, window, next) ELSE {}
           g == IF last THEN NoResolution
                ELSE [h EXCEPT !.resolution.windows = Tail(h.resolution.windows)]
<1>1. /\ h.resolution.windows # <<>> /\ UNCHANGED <<settings, now, crashes>>
      /\ \/ /\ CursorStill(window) /\ claimed' = claimed \cup {window} /\ MoveCursor(next)
            /\ passed' = passed \cup given /\ held' = [held EXCEPT ![w] = g]
         \/ /\ held' = [held EXCEPT ![w] = NoResolution]
            /\ UNCHANGED <<cursor, disabled, claimed, passed>>
  <2>1. h.resolution.windows # <<>> /\ UNCHANGED <<settings, now, crashes>>
    BY DEF ClaimWindow
  <2>2. CASE CursorStill(window) /\ window \notin claimed
    <3>1. MoveCursor(next) /\ passed' = passed \cup given
      BY <2>2 DEF ClaimWindow
    <3>2. claimed' = claimed \cup {window} /\ held' = [held EXCEPT ![w] = g]
      BY <2>2 DEF ClaimWindow
    <3> QED BY <2>1, <2>2, <3>1, <3>2
  <2>3. CASE ~CursorStill(window) \/ window \in claimed
    BY <2>1, <2>3 DEF ClaimWindow
  <2> QED BY <2>1, <2>2, <2>3
<1>2. cursor \in Nat \ {0} /\ crashes \in 0..MaxCrashes
  BY DEF RightInvariant, TypeOK
<1>3. CASE /\ held' = [held EXCEPT ![w] = NoResolution]
           /\ UNCHANGED <<cursor, disabled, claimed, passed>>
  <2>1. UNCHANGED <<settings, cursor, disabled, claimed, passed>>
        /\ now' = now /\ crashes' \in 0..MaxCrashes
    BY <1>1, <1>2, <1>3
  <2>2. RightInvariant'
    BY <1>3, <2>1, DropIsRight
  <2> QED BY <1>2, <1>3, <2>2
<1>4. CASE /\ CursorStill(window) /\ claimed' = claimed \cup {window} /\ MoveCursor(next)
           /\ passed' = passed \cup given /\ held' = [held EXCEPT ![w] = g]
  <2>1. cursor = window /\ ~disabled
    BY <1>4 DEF CursorStill
  <2>2. h # NoResolution
    BY <1>1 DEF NoResolution, Nothing, Resolution
  <2>3. PICK windows, after :
            /\ Held(h, windows, after) /\ h.at \in Nat /\ h.from \in Nat
            /\ h.resolution.windows = windows /\ h.resolution.cursorAfter = after
            /\ Placed(schedule, h.from, windows, after) /\ Timed(h, windows, after)
            /\ PassesOver(windows, after) =>
                  Late(h) \/ ClosedBetween(schedule, h.from, windows, after)
    BY <2>2, HeldIsRight
  <2>4. windows # <<>> /\ windows \in Seq(Nat \ {0}) /\ after \in Nat /\ windows[1] = cursor
    BY <1>1, <2>1, <2>3 DEF Placed
  <2>5. HoldsRight(g)
    <3>1. CASE last
      BY <3>1 DEF HoldsRight
    <3>2. CASE ~last
      BY <2>3, <2>4, <3>2, TailIsRight
    <3> QED BY <3>1, <3>2
  <2>6. CASE moved
    <3>1. after # ZeroTime /\ Len(windows) = 1 /\ next = after /\ given = GivenUp(w, cursor, after)
      BY <2>1, <2>3, <2>6
    <3>2. schedule.type # "once" /\ Occurs(schedule, after) /\ after > cursor /\ Late(h)
      BY <2>3, <2>4, <3>1 DEF Placed, PassesOver, ClosedBetween
    <3>3. /\ Recurs(schedule) /\ schedule.at \in Nat /\ cursor \in Int /\ cursor > schedule.at
          /\ Occurs(schedule, cursor)
      BY <3>2, CursorOccurs
    <3>4. /\ \A t : t \in {p.window : p \in GivenUp(w, cursor, after)}
                       <=> Occurs(schedule, t) /\ cursor < t /\ t < after
          /\ \A p \in GivenUp(w, cursor, after) :
                /\ p \in [window : Nat \ {0}, from : Nat, at : Nat]
                /\ Late(h) => Reason(p)
                /\ Occurs(schedule, p.window) /\ cursor < p.window /\ p.window < after
      <4>1. schedule.at <= cursor
        BY <3>3
      <4>2. h.from <= cursor /\ OnlyDue(schedule, h.at, after)
        <5>1. 1 \in DOMAIN windows
          BY <2>4, <3>1
        <5> QED BY <2>3, <2>4, <5>1 DEF Timed
      <4>3. h.from <= cursor + 1
        BY <2>3, <3>3, <4>2
      <4> QED BY <2>3, <2>4, <3>1, <3>2, <3>3, <4>1, <4>2, <4>3, GivenUpTyped
    <3> DEFINE more == {cursor}
               passing == GivenUp(w, cursor, after)
    <3>5. \A p \in passing : /\ p \in [window : Nat \ {0}, from : Nat, at : Nat]
                             /\ OnWorkingDay(p.window) => Reason(p)
      BY <3>2, <3>4
    <3>6. more \cap {p.window : p \in passing} = {}
      BY <3>3, <3>4
    <3>7. \A t : t \in more \cup {p.window : p \in passing}
                    <=> Occurs(schedule, t) /\ cursor <= t /\ t < after
      <4> TAKE t
      <4>1. CASE t = cursor
        BY <3>2, <3>3, <4>1
      <4>2. CASE t # cursor /\ Occurs(schedule, t)
        <5>1. t \in Int
          BY <4>2 DEF Occurs
        <5> QED BY <3>3, <3>4, <4>2, <5>1
      <4>3. CASE t # cursor /\ ~Occurs(schedule, t)
        BY <3>4, <4>3
      <4> QED BY <4>1, <4>2, <4>3
    <3>8. /\ more \subseteq {cursor} /\ claimed' = claimed \cup more
          /\ passed' = passed \cup passing /\ MoveCursor(after)
          /\ held' = [held EXCEPT ![w] = g]
      BY <1>4, <2>1, <3>1
    <3> HIDE DEF more, passing, g
    <3> QED BY <1>1, <2>1, <2>4, <2>5, <3>1, <3>2, <3>5, <3>6, <3>7, <3>8, CursorMoves
  <2>7. CASE ~moved
    <3>1. next = NextFromCursor(schedule, cursor) /\ given = {}
      BY <2>1, <2>7
    <3> DEFINE following == NextFromCursor(schedule, cursor)
               more == {cursor}
    <3>2. schedule.type = "once" => following = ZeroTime
      BY DEF NextFromCursor
    <3>3. schedule.type # "once" /\ following # ZeroTime =>
              /\ Occurs(schedule, following) /\ following > cursor /\ following \in Nat
              /\ \A t : t \in more <=> Occurs(schedule, t) /\ cursor <= t /\ t < following
      <4> HAVE schedule.type # "once" /\ following # ZeroTime
      <4>1. /\ Recurs(schedule) /\ SearchDays \in Nat /\ Occurs(schedule, cursor)
            /\ cursor \in Int
        BY CursorOccurs
      <4>2. following = NextSchedule(schedule, cursor)
        BY DEF NextFromCursor
      <4>3. /\ Occurs(schedule, following) /\ following > cursor
            /\ \A u \in Int : cursor < u /\ u < following => ~IsOccurrence(schedule, u)
        BY <4>1, <4>2, NextIsNextOccurrence
      <4>4. following \in Nat
        BY <4>1, <4>3, OccursInTime
      <4> HIDE DEF following
      <4>5. \A t : t \in more <=> Occurs(schedule, t) /\ cursor <= t /\ t < following
        <5> TAKE t
        <5>1. CASE t = cursor
          BY <4>1, <4>3, <5>1
        <5>2. CASE t # cursor
          BY <4>1, <4>3, <5>2 DEF Occurs
        <5> QED BY <5>1, <5>2
      <4> QED BY <4>3, <4>4, <4>5
    <3>4. following \in Nat
      BY <3>2, <3>3 DEF ZeroTime
    <3> DEFINE passing == {}
    <3>5. {p.window : p \in passing} = {}
      OBVIOUS
    <3>6. /\ more \subseteq {cursor} /\ claimed' = claimed \cup more
          /\ passed' = passed \cup passing /\ MoveCursor(following)
          /\ held' = [held EXCEPT ![w] = g]
      BY <1>4, <2>1, <3>1
    <3>7. \A p \in passing : FALSE
      OBVIOUS
    <3> HIDE DEF more, following, g
    <3>8. \A p \in passing : /\ p \in [window : Nat \ {0}, from : Nat, at : Nat]
                             /\ OnWorkingDay(p.window) => Reason(p)
      BY <3>7
    <3>9. schedule.type # "once" =>
              /\ following = ZeroTime => passing = {}
              /\ following # ZeroTime =>
                    /\ Occurs(schedule, following)
                    /\ more \cap {p.window : p \in passing} = {}
                    /\ \A t : t \in more \cup {p.window : p \in passing}
                                 <=> Occurs(schedule, t) /\ cursor <= t /\ t < following
      BY <3>3, <3>5
    <3>10. following # ZeroTime => following > cursor
      BY <3>2, <3>3
    <3> HIDE DEF passing
    <3> QED BY <1>1, <2>1, <2>5, <3>2, <3>4, <3>6, <3>8, <3>9, <3>10, CursorMoves
  <2> QED BY <2>6, <2>7
<1> QED BY <1>1, <1>3, <1>4

LEMMA PersistIsRight ==
    ASSUME RegularSchedules, RightInvariant, NEW w \in Workers, PersistCursor(w)
    PROVE  RightInvariant' /\ cursor' >= cursor
<1> DEFINE h == held[w]
           next == h.resolution.cursorAfter
           passing == GivenUp(w, h.from - 1, next)
<1>1. /\ h # NoResolution /\ h.resolution.windows = <<>> /\ UNCHANGED <<settings, now, crashes>>
      /\ claimed' = claimed /\ held' = [held EXCEPT ![w] = NoResolution]
  BY DEF PersistCursor
<1>2. \/ CursorStill(h.from) /\ MoveCursor(next) /\ passed' = passed \cup passing
      \/ UNCHANGED <<cursor, disabled, passed>>
  BY DEF PersistCursor
<1>3. cursor \in Nat \ {0} /\ crashes \in 0..MaxCrashes
  BY DEF RightInvariant, TypeOK
<1>4. CASE UNCHANGED <<cursor, disabled, passed>>
  <2>1. UNCHANGED <<settings, cursor, disabled, claimed, passed>>
        /\ now' = now /\ crashes' \in 0..MaxCrashes
    BY <1>1, <1>3, <1>4
  <2>2. RightInvariant'
    BY <1>1, <2>1, DropIsRight
  <2> QED BY <1>3, <1>4, <2>2
<1>5. CASE CursorStill(h.from) /\ MoveCursor(next) /\ passed' = passed \cup passing
  <2>1. cursor = h.from /\ ~disabled
    BY <1>5 DEF CursorStill
  <2>2. PICK windows, after :
            /\ Held(h, windows, after) /\ h.at \in Nat /\ h.from \in Nat
            /\ h.resolution.windows = windows /\ h.resolution.cursorAfter = after
            /\ Placed(schedule, h.from, windows, after) /\ Timed(h, windows, after)
            /\ PassesOver(windows, after) =>
                  Late(h) \/ ClosedBetween(schedule, h.from, windows, after)
    BY <1>1, HeldIsRight
  <2>3. /\ windows = <<>> /\ after \in Nat /\ next = after
        /\ after # ZeroTime => after > cursor
    BY <1>1, <2>1, <2>2 DEF Placed
  <2>4. Late(h) \/ ClosedBetween(schedule, cursor, windows, after)
    BY <2>1, <2>2, <2>3 DEF PassesOver
  <2>5. schedule.type = "once" => after = ZeroTime
    BY <2>2 DEF Placed
  <2>6. HoldsRight(NoResolution)
    BY DEF HoldsRight
  <2> DEFINE more == {}
             given == GivenUp(w, cursor - 1, after)
  <2>7. /\ more \subseteq {cursor} /\ claimed' = claimed \cup more
        /\ passed' = passed \cup given /\ MoveCursor(after)
    BY <1>1, <1>5, <2>1, <2>2
  <2>8. CASE after # ZeroTime
    <3>1. schedule.type # "once" /\ Occurs(schedule, after)
      BY <2>2, <2>5, <2>8 DEF Placed
    <3>2. /\ Recurs(schedule) /\ schedule.at \in Nat /\ cursor \in Int /\ cursor > schedule.at
      BY <3>1, CursorOccurs
    <3>3. /\ \A t : t \in {p.window : p \in given}
                       <=> Occurs(schedule, t) /\ cursor - 1 < t /\ t < after
          /\ \A p \in given :
                /\ p \in [window : Nat \ {0}, from : Nat, at : Nat]
                /\ Late(h) => Reason(p)
                /\ Occurs(schedule, p.window) /\ cursor - 1 < p.window /\ p.window < after
      <4>1. schedule.at <= cursor - 1 /\ cursor - 1 \in Int
        BY <3>2
      <4>2. OnlyDue(schedule, h.at, after) /\ h.from <= (cursor - 1) + 1
        BY <2>1, <2>2, <3>2 DEF Timed
      <4> QED BY <2>2, <2>3, <2>8, <3>1, <3>2, <4>1, <4>2, GivenUpTyped
    <3>4. \A t : Occurs(schedule, t) => t \in Int /\ (cursor - 1 < t <=> cursor <= t)
      BY <3>2 DEF Occurs
    <3>5. \A t : t \in more \cup {p.window : p \in given}
                    <=> Occurs(schedule, t) /\ cursor <= t /\ t < after
      BY <3>3, <3>4
    <3>6. \A p \in given : /\ p \in [window : Nat \ {0}, from : Nat, at : Nat]
                           /\ OnWorkingDay(p.window) => Reason(p)
      <4> TAKE p \in given
      <4>1. Occurs(schedule, p.window) /\ cursor <= p.window /\ p.window < after
            /\ p.window \in Int
        BY <3>3, <3>4
      <4>2. ClosedBetween(schedule, cursor, windows, after) => ~OnWorkingDay(p.window)
        BY <4>1 DEF ClosedBetween, OnWorkingDay, Working, Occurs
      <4> QED BY <2>4, <3>3, <4>2
    <3>7. more \cap {p.window : p \in given} = {}
      OBVIOUS
    <3> HIDE DEF more, given
    <3> QED BY <1>1, <2>1, <2>3, <2>6, <2>7, <2>8, <3>1, <3>5, <3>6, <3>7, CursorMoves
  <2>9. CASE after = ZeroTime
    <3>1. {p.window : p \in given}
             = (IF schedule.type = "once" THEN {cursor} \ {cursor - 1} ELSE {})
          /\ \A p \in given :
                /\ p = [window |-> p.window, from |-> h.from, at |-> h.at]
                /\ p.from = h.from /\ p.at = h.at
      BY <2>9, GivenUpAre
    <3>2. \A p \in given : p.window \in {q.window : q \in given}
      OBVIOUS
    <3> HIDE DEF given
    <3>3. schedule.type # "once" => given = {}
      BY <3>1, <3>2
    <3>4. \A p \in given : /\ p \in [window : Nat \ {0}, from : Nat, at : Nat]
                           /\ OnWorkingDay(p.window) => Reason(p)
      <4> TAKE p \in given
      <4>1. schedule.type = "once" /\ p.window = cursor
        BY <3>1, <3>2, <3>3
      <4>2. p \in [window : Nat \ {0}, from : Nat, at : Nat]
        BY <1>3, <2>2, <3>1, <4>1
      <4>3. Late(h)
        BY <2>4, <4>1 DEF ClosedBetween
      <4>4. Late(p)
        BY <3>1, <4>3 DEF Late
      <4>5. p.from <= p.window /\ p.window <= p.at
        BY <2>1, <2>2, <3>1, <4>1 DEF Timed
      <4> QED BY <4>2, <4>4, <4>5 DEF Reason
    <3> HIDE DEF more
    <3> QED BY <1>1, <2>1, <2>3, <2>6, <2>7, <2>9, <3>3, <3>4, CursorMoves
  <2> QED BY <2>8, <2>9
<1> QED BY <1>2, <1>4, <1>5

LEMMA RightStep ==
    ASSUME RegularSchedules, RightInvariant, [Step]_vars
    PROVE  RightInvariant' /\ cursor' >= cursor
<1>1. /\ cursor \in Nat \ {0} /\ now \in Nat /\ crashes \in 0..MaxCrashes
      /\ held \in [Workers -> ResolutionType]
  BY DEF RightInvariant, TypeOK
<1>2. ASSUME UNCHANGED <<settings, cursor, disabled, claimed, passed, held, crashes>>,
             now' \in Nat
      PROVE  RightInvariant' /\ cursor' >= cursor
  <2>1. /\ DOMAIN held' = Workers /\ held' = [w \in Workers |-> held'[w]]
        /\ \A w \in Workers : HoldsRight(held'[w])
    BY <1>1, <1>2 DEF RightInvariant
  <2>2. UNCHANGED <<settings, cursor, disabled, claimed, passed>> /\ crashes' \in 0..MaxCrashes
    BY <1>1, <1>2
  <2>3. RightInvariant'
    BY <1>2, <2>1, <2>2, OnlyHeld
  <2> QED BY <1>1, <1>2, <2>3
<1>3. CASE Tick
  <2>1. UNCHANGED <<settings, cursor, disabled, claimed, passed, held, crashes>> /\ now' \in Nat
    BY <1>1, <1>3 DEF Tick
  <2> QED BY <1>2, <2>1
<1>4. ASSUME NEW w \in Workers, Poll(w) PROVE RightInvariant' /\ cursor' >= cursor
  <2>1. cursor' = cursor
    BY <1>4 DEF Poll
  <2> QED BY <1>1, <1>4, <2>1, PollIsRight
<1>5. ASSUME NEW w \in Workers, ClaimWindow(w) PROVE RightInvariant' /\ cursor' >= cursor
  BY <1>5, ClaimIsRight
<1>6. ASSUME NEW w \in Workers, PersistCursor(w) PROVE RightInvariant' /\ cursor' >= cursor
  BY <1>6, PersistIsRight
<1>7. ASSUME NEW w \in Workers, Crash(w) PROVE RightInvariant' /\ cursor' >= cursor
  <2>1. /\ held' = [held EXCEPT ![w] = NoResolution]
        /\ UNCHANGED <<settings, cursor, disabled, claimed, passed>> /\ now' = now /\ cursor' = cursor
        /\ crashes' = crashes + 1 /\ crashes < MaxCrashes
    BY <1>7 DEF Crash
  <2>2. crashes' \in 0..MaxCrashes
    BY <1>1, <2>1, ClockAssumption
  <2>3. RightInvariant'
    BY <2>1, <2>2, DropIsRight
  <2> QED BY <1>1, <2>1, <2>3
<1>8. CASE UNCHANGED vars
  <2>1. UNCHANGED <<settings, cursor, disabled, claimed, passed, held, crashes>> /\ now' = now
    BY <1>8 DEF vars, settings
  <2> QED BY <1>1, <1>2, <2>1
<1>9. \/ Tick \/ UNCHANGED vars
      \/ \E w \in Workers : Poll(w) \/ ClaimWindow(w) \/ PersistCursor(w) \/ Crash(w)
  BY DEF Step, Work
<1> QED BY <1>3, <1>4, <1>5, <1>6, <1>7, <1>8, <1>9

(* What a worker holds, in terms of the occurrences of the schedule        *)
LEMMA RightIsInvariant ==
    ASSUME RegularSchedules, RightInvariant
    PROVE  ClockInvariant
<1>1. ASSUME NEW w \in Workers, held[w] # NoResolution
      PROVE  LET h == held[w]
                 windows == h.resolution.windows
                 next == h.resolution.cursorAfter
             IN  /\ h.from <= h.at /\ \A i \in DOMAIN windows : h.from <= windows[i]
                 /\ schedule.type = "once" => next = ZeroTime
                 /\ schedule.type # "once" =>
                       \A t \in {windows[i] : i \in DOMAIN windows} \cup ({next} \ {ZeroTime}) :
                           t > schedule.at /\ t \in OccurrencesBetween(schedule, t - 1, t)
                 /\ next # ZeroTime =>
                       next > IF windows = <<>> THEN h.from ELSE windows[Len(windows)]
                 /\ next # ZeroTime /\ NonePending(schedule, h.at) =>
                       OccurrencesBetween(schedule, h.at, next - 1) = {}
                 /\ windows = <<>> \/ next # ZeroTime =>
                       \/ Late(h)
                       \/ /\ windows = <<>> /\ schedule.type # "once"
                          /\ \A t \in OccurrencesBetween(schedule, h.from - 1, next - 1) :
                                ~OnWorkingDay(t)
  <2> DEFINE h == held[w]
  <2>1. PICK windows, next :
            /\ Held(h, windows, next) /\ h.at \in Nat /\ h.from \in Nat
            /\ h.resolution.windows = windows /\ h.resolution.cursorAfter = next
            /\ Placed(schedule, h.from, windows, next) /\ Timed(h, windows, next)
            /\ PassesOver(windows, next) =>
                  Late(h) \/ ClosedBetween(schedule, h.from, windows, next)
    BY <1>1, HeldIsRight
  <2>2. schedule.type # "once" => \A t : Occurs(schedule, t) =>
            t > schedule.at /\ t \in OccurrencesBetween(schedule, t - 1, t)
    <3> HAVE schedule.type # "once"
    <3> TAKE t
    <3> HAVE Occurs(schedule, t)
    <3>1. Recurs(schedule)
      BY CursorOccurs
    <3>2. t \in Int /\ t > schedule.at /\ IsOccurrence(schedule, t)
      BY DEF Occurs
    <3> QED BY <3>1, <3>2, OccurrencesAround
  <2>3. schedule.type # "once" =>
            \A t \in {windows[i] : i \in DOMAIN windows} \cup ({next} \ {ZeroTime}) :
                t > schedule.at /\ t \in OccurrencesBetween(schedule, t - 1, t)
    <3>1. schedule.type # "once" =>
              \A t \in {windows[i] : i \in DOMAIN windows} \cup ({next} \ {ZeroTime}) :
                  Occurs(schedule, t)
      BY <2>1 DEF Placed
    <3> QED BY <2>2, <3>1
  <2>4. ClosedBetween(schedule, h.from, windows, next) =>
            /\ windows = <<>> /\ schedule.type # "once"
            /\ \A t \in OccurrencesBetween(schedule, h.from - 1, next - 1) : ~OnWorkingDay(t)
    <3> HAVE ClosedBetween(schedule, h.from, windows, next)
    <3>1. windows = <<>> /\ schedule.type # "once"
      BY DEF ClosedBetween
    <3>2. Recurs(schedule) /\ schedule.at \in Nat
      BY <3>1, CursorOccurs
    <3>3. OccurrencesBetween(schedule, h.from - 1, next - 1)
            = {t \in (h.from - 1 + 1)..(next - 1) : IsOccurrence(schedule, t)}
      <4>1. h.from - 1 \in Int /\ next - 1 \in Int
        BY <2>1 DEF Placed
      <4> QED BY <3>2, <4>1, RecurringSchedules, OccurrencesAre
    <3>4. \A t : t \in (h.from - 1 + 1)..(next - 1) => t \in Int /\ h.from <= t /\ t < next
      BY <2>1 DEF Placed
    <3> QED BY <3>1, <3>3, <3>4 DEF ClosedBetween, OnWorkingDay, Working
  <2>5. next # ZeroTime /\ NonePending(schedule, h.at) =>
            OccurrencesBetween(schedule, h.at, next - 1) = {}
    <3> HAVE next # ZeroTime /\ NonePending(schedule, h.at)
    <3>1. schedule.type # "once" /\ next \in Int
      BY <2>1 DEF Placed
    <3>2. Recurs(schedule)
      BY <3>1, CursorOccurs
    <3>3. OccurrencesBetween(schedule, h.at, next - 1)
            = {t \in (h.at + 1)..(next - 1) : IsOccurrence(schedule, t)}
      <4>1. h.at \in Int /\ next - 1 \in Int
        BY <2>1, <3>1
      <4> QED BY <3>2, <4>1, RecurringSchedules, OccurrencesAre
    <3>4. \A t \in (h.at + 1)..(next - 1) : t \in Int /\ h.at < t /\ t < next
      BY <2>1, <3>1
    <3>5. \A t \in (h.at + 1)..(next - 1) : ~IsOccurrence(schedule, t)
      BY <2>1, <3>4 DEF Timed, OnlyDue
    <3> QED BY <3>3, <3>5
  <2> QED BY <2>1, <2>3, <2>4, <2>5 DEF Placed, PassesOver, Timed
<1> QED BY <1>1 DEF RightInvariant, ClockInvariant, HeldAreOccurrences

(* The invariant of the clock: what is claimed and given up, what a worker *)
(* holds and the cursor are right (ClockInvariant).                        *)
THEOREM ClockSafe == RegularSchedules => (ClockSpec => []ClockInvariant)
<1> SUFFICES ASSUME RegularSchedules PROVE ClockSpec => []ClockInvariant
  OBVIOUS
<1>1. Init => RightInvariant
  BY InitIsRight
<1>2. RightInvariant /\ [Step]_vars => RightInvariant'
  BY RightStep
<1>3. RightInvariant => ClockInvariant
  BY RightIsInvariant
<1> QED BY <1>1, <1>2, <1>3, PTL DEF ClockSpec

(* No occurrence of a regular schedule is lost, invented, run twice or both *)
(* run and given up, whichever workers stop or act on an old poll: Claim   *)
(* compares the cursor, and ResolveMisfire keeps to the occurrences        *)
(* (EveryOccurrenceDecidedOnce).                                           *)
THEOREM OccurrencesAreDecided ==
    RegularSchedules => (ClockSpec => []EveryOccurrenceDecidedOnce)
<1>1. ClockInvariant => EveryOccurrenceDecidedOnce
  BY DEF ClockInvariant
<1> QED BY <1>1, ClockSafe, PTL

(* Of a regular schedule a window is given up on a closed day, or under a  *)
(* misfire policy by a poll that found the cursor, not the window, late by *)
(* more than the grace: from the cursor on, and only what was due unless a *)
(* weekly window was rolling forward (GivenUpOnlyWhenLate).                *)
THEOREM GivenUpWhenTheCursorIsLate ==
    RegularSchedules => (ClockSpec => []GivenUpOnlyWhenLate)
<1>1. ClockInvariant => GivenUpOnlyWhenLate
  BY DEF ClockInvariant
<1> QED BY <1>1, ClockSafe, PTL

(* The durable cursor of a regular schedule never moves back, whatever an  *)
(* old poll returned (CursorNeverMovesBack).                               *)
THEOREM CursorMovesOn == RegularSchedules => (ClockSpec => CursorNeverMovesBack)
<1> SUFFICES ASSUME RegularSchedules PROVE ClockSpec => CursorNeverMovesBack
  OBVIOUS
<1>1. Init => RightInvariant
  BY InitIsRight
<1>2. RightInvariant /\ [Step]_vars => RightInvariant'
  BY RightStep
<1>3. RightInvariant /\ [Step]_vars => [cursor' >= cursor]_vars
  BY RightStep
<1> QED BY <1>1, <1>2, <1>3, PTL DEF ClockSpec, CursorNeverMovesBack
=============================================================================
