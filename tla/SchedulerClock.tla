----------------------------- MODULE SchedulerClock -----------------------------
(***************************************************************************)
(* The clock of one schedule: workers poll the run store, which resolves   *)
(* the durable cursor by the misfire policy, and claim the windows they    *)
(* were given.  A claim compares the cursor the worker saw and moves it in *)
(* the same step.  A worker may stop between any two of its steps, and     *)
(* another may have moved the cursor meanwhile.                            *)
(*                                                                         *)
(* ResolveMisfire is the SDK's; the store and the workers are its users,   *)
(* modelled from the contract of RunStore.                                 *)
(***************************************************************************)
EXTENDS Misfire, Sequences

CONSTANTS Workers,     \* scheduler processes
          Schedules, Policies,
          Limits,      \* the windows one poll may return
          LastNow,     \* bound: the clock stops here
          MaxCrashes   \* bound: workers lost between two steps

FirstCursor(s) == IF s.type = "once" THEN s.at ELSE NextSchedule(s, s.at)

ASSUME ClockAssumption ==
    /\ LastNow \in Nat /\ MaxCrashes \in Nat /\ DefaultGrace \in Nat \ {0}
    /\ SearchDays \in Nat \ {0}
    /\ \A s \in Schedules : ValidSchedule(s) /\ FirstCursor(s) # ZeroTime
    /\ \A p \in Policies :
           /\ p.misfire \in MisfirePolicies
           /\ p.grace \in Nat /\ p.maxCatchup \in 0..100
    /\ Limits \subseteq Nat \ {0}

VARIABLES
    schedule, policy, limit,   \* chosen once
    now,                       \* the wall clock
    cursor,                    \* the durable cursor
    disabled,                  \* the schedule has no next window
    claimed,                   \* the windows that have a run
    passed,                    \* the windows given up, with the cursor and
                               \* the time they were given up at
    held,                      \* per worker, what its last poll returned
    crashes

vars == <<schedule, policy, limit, now, cursor, disabled, claimed, passed, held, crashes>>
settings == <<schedule, policy, limit>>

NoResolution == [at |-> ZeroTime, from |-> ZeroTime, resolution |-> Nothing]

Init ==
    /\ schedule \in Schedules /\ policy \in Policies /\ limit \in Limits
    /\ now = FirstCursor(schedule) /\ cursor = FirstCursor(schedule)
    /\ disabled = FALSE /\ claimed = {} /\ passed = {} /\ crashes = 0
    /\ held = [w \in Workers |-> NoResolution]

Tick ==
    /\ now < LastNow /\ now' = now + 1
    /\ UNCHANGED <<settings, cursor, disabled, claimed, passed, held, crashes>>

(* RunStore.Due, for an enabled schedule whose cursor is due *)
Poll(w) ==
    /\ held[w] = NoResolution /\ ~disabled /\ cursor <= now
    /\ held' = [held EXCEPT ![w] =
            [at |-> now, from |-> cursor,
             resolution |-> ResolveMisfire(schedule, policy, cursor, now, limit)]]
    /\ UNCHANGED <<settings, now, cursor, disabled, claimed, passed, crashes>>

(* Moving the cursor disables a schedule without a next window. *)
MoveCursor(next) ==
    /\ disabled' = (next = ZeroTime)
    /\ cursor' = IF next = ZeroTime THEN cursor ELSE next

GivenUp(w, after, next) ==
    {[window |-> t, from |-> held[w].from, at |-> held[w].at] :
        t \in IF next = ZeroTime
              THEN (IF schedule.type = "once" THEN {cursor} \ {after} ELSE {})
              ELSE OccurrencesBetween(schedule, after, next - 1)}

(* A faulty variant: the cursor seen is not compared. *)
CursorUncompared(seen) == TRUE

(* The compare of the store's compare-and-swap *)
CursorStill(seen) == cursor = seen /\ ~disabled

(* RunStore.Claim of the first window held: it has a run and the cursor    *)
(* moves, to CursorAfter with the last window when there is one.  A claim  *)
(* that lost drops what the worker held.                                   *)
ClaimWindow(w) ==
    LET windows == held[w].resolution.windows
        window == Head(windows)
        last == Len(windows) = 1
        next == IF last /\ held[w].resolution.cursorAfter # ZeroTime
                THEN held[w].resolution.cursorAfter ELSE NextFromCursor(schedule, window)
    IN  /\ windows # <<>>
        /\ \/ /\ CursorStill(window) /\ window \notin claimed
              /\ claimed' = claimed \cup {window}
              /\ MoveCursor(next)
              /\ passed' = passed \cup
                    IF last /\ held[w].resolution.cursorAfter # ZeroTime
                    THEN GivenUp(w, window, next) ELSE {}
              /\ held' = [held EXCEPT ![w] = IF last THEN NoResolution
                            ELSE [@ EXCEPT !.resolution.windows = Tail(windows)]]
           \/ /\ ~CursorStill(window) \/ window \in claimed
              /\ held' = [held EXCEPT ![w] = NoResolution]
              /\ UNCHANGED <<cursor, disabled, claimed, passed>>
        /\ UNCHANGED <<settings, now, crashes>>

(* Without windows the cursor is persisted by itself. *)
PersistCursor(w) ==
    LET next == held[w].resolution.cursorAfter
    IN  /\ held[w] # NoResolution /\ held[w].resolution.windows = <<>>
        /\ \/ /\ CursorStill(held[w].from)
              /\ MoveCursor(next)
              /\ passed' = passed \cup GivenUp(w, held[w].from - 1, next)
           \/ /\ ~CursorStill(held[w].from)
              /\ UNCHANGED <<cursor, disabled, passed>>
        /\ held' = [held EXCEPT ![w] = NoResolution]
        /\ UNCHANGED <<settings, now, claimed, crashes>>

(* A worker stops, and what it held is gone. *)
Crash(w) ==
    /\ held[w] # NoResolution /\ crashes < MaxCrashes
    /\ held' = [held EXCEPT ![w] = NoResolution] /\ crashes' = crashes + 1
    /\ UNCHANGED <<settings, now, cursor, disabled, claimed, passed>>

Work(w) == Poll(w) \/ ClaimWindow(w) \/ PersistCursor(w)

Step == Tick \/ \E w \in Workers : Work(w) \/ Crash(w)

ClockSpec == Init /\ [][Step]_vars

(* A worker can work when it holds a resolution or the cursor is due. *)
CanWork(w) == held[w] # NoResolution \/ (~disabled /\ cursor <= now)

(* Workers poll on a timer and go through with what they were given.  The  *)
(* second conjunct is WF_vars(Work(w)), with CanWork for its ENABLED.      *)
FairClockSpec ==
    /\ ClockSpec /\ WF_vars(Tick)
    /\ \A w \in Workers : <>[]CanWork(w) => []<><<Work(w)>>_vars

-----------------------------------------------------------------------------

ResolutionType ==
    [at : Nat, from : Nat,
     resolution : [windows : Seq(Nat \ {0}), cursorAfter : Nat, disable : BOOLEAN]]

TypeOK ==
    /\ schedule \in Schedules /\ policy \in Policies /\ limit \in Limits
    /\ now \in Nat /\ cursor \in Nat \ {0} /\ disabled \in BOOLEAN
    /\ claimed \subseteq Nat \ {0} /\ crashes \in 0..MaxCrashes
    /\ passed \subseteq [window : Nat \ {0}, from : Nat, at : Nat]
    /\ held \in [Workers -> ResolutionType]

PassedWindows == {p.window : p \in passed}

(* Every occurrence before the cursor was run or given up, no occurrence   *)
(* was both, and nothing else was: no window is lost, invented or run      *)
(* twice, whichever workers stopped or acted on an old poll.  A schedule   *)
(* that has ended keeps its last window for its cursor.                    *)
EveryOccurrenceDecidedOnce ==
    schedule.type # "once" =>
        LET decided == claimed \cup PassedWindows
        IN  /\ claimed \cap PassedWindows = {}
            /\ OccurrencesBetween(schedule, schedule.at, cursor - 1) \subseteq decided
            /\ decided \subseteq OccurrencesBetween(schedule, schedule.at, cursor)
            /\ cursor \in OccurrencesBetween(schedule, schedule.at, cursor)
            /\ cursor \in decided => disabled

OnWorkingDay(t) == WorkingDay(schedule.calendar, LocalDay(schedule.zone, t))

(* A schedule with a calendar runs on working days only, in a catch-up too. *)
RunsOnWorkingDays == \A t \in claimed : OnWorkingDay(t)

PolicyGrace == IF policy.grace > 0 THEN policy.grace ELSE DefaultGrace

(* A working-day window is given up only under a misfire policy, by a poll *)
(* that found the cursor, at that window or an earlier one, late by more   *)
(* than the grace; and only once it is due, unless it is on its way from a *)
(* closed day to an open one.  The grace is the cursor's: due windows      *)
(* within their own grace are given up with it.                            *)
GivenUpOnlyWhenLate ==
    \A p \in passed : OnWorkingDay(p.window) =>
        /\ policy.misfire # NoPolicy /\ p.at > p.from + PolicyGrace
        /\ p.from <= p.window
        /\ NonePending(schedule, p.at) => p.window <= p.at

(* The cursor never moves back, whoever acts on an old poll. *)
CursorNeverMovesBack == [][cursor' >= cursor]_vars

(* The clock catches up: once time stands still no window stays due. *)
ClockCatchesUp == <>[](now = LastNow /\ (disabled \/ cursor > now))

-----------------------------------------------------------------------------
(* The invariant of regular schedules, from which the properties follow *)

RegularSchedules ==
    \A s \in Schedules : Regular(s) /\ (s.type # "once" => NonePending(s, s.at))

Late(h) == policy.misfire # NoPolicy /\ h.at > h.from + PolicyGrace

(* What a worker holds are occurrences from a cursor on, whatever became   *)
(* of the cursor since; what it would pass over is late or on closed days, *)
(* and due or on its way.                                                  *)
HeldAreOccurrences ==
    \A w \in Workers :
        LET h == held[w]
            windows == h.resolution.windows
            next == h.resolution.cursorAfter
        IN  h # NoResolution =>
            /\ h.from <= h.at /\ \A i \in DOMAIN windows : h.from <= windows[i]
            /\ schedule.type = "once" => next = ZeroTime
            /\ schedule.type # "once" =>
                  \A t \in {windows[i] : i \in DOMAIN windows} \cup ({next} \ {ZeroTime}) :
                      t > schedule.at /\ t \in OccurrencesBetween(schedule, t - 1, t)
            /\ next # ZeroTime =>
                  next > IF windows = <<>> THEN h.from ELSE windows[Len(windows)]
            /\ next # ZeroTime /\ NonePending(schedule, h.at) =>
                  OccurrencesBetween(schedule, h.at, next - 1) = {}
            /\ windows = <<>> \/ next # ZeroTime =>
                  \/ Late(h)
                  \/ /\ windows = <<>> /\ schedule.type # "once"
                     /\ \A t \in OccurrencesBetween(schedule, h.from - 1, next - 1) :
                           ~OnWorkingDay(t)

ClockInvariant ==
    TypeOK /\ HeldAreOccurrences /\ EveryOccurrenceDecidedOnce /\ GivenUpOnlyWhenLate
=============================================================================
