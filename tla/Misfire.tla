-------------------------------- MODULE Misfire --------------------------------
(***************************************************************************)
(* ResolveMisfire: what the clock does with a durable cursor that is due.  *)
(* A policy is [misfire, grace, maxCatchup]; a resolution has the windows  *)
(* to run, the cursor to persist with the last of them (ZeroTime: the next *)
(* normal window) and whether the schedule is disabled.                    *)
(***************************************************************************)
EXTENDS Recurrence

CONSTANTS DefaultGrace   \* the minute a policy without a grace gets

(* Faulty variants: an interval starts again from now; and it may stay at  *)
(* or before now.                                                          *)
NextAfterLosingPhase(s, cursor, now) ==
    CASE s.type = "once"     -> ZeroTime
      [] s.type = "interval" -> now + s.interval
      [] OTHER               -> NextSchedule(s, now)

NextAfterNotAfter(s, cursor, now) ==
    CASE s.type = "once"     -> ZeroTime
      [] s.type = "interval" -> cursor + ((now - cursor) \div s.interval) * s.interval
      [] OTHER               -> NextSchedule(s, now)

(* NextAfter keeps the phase of an interval from the cursor. *)
NextAfter(s, cursor, now) ==
    CASE s.type = "once"     -> ZeroTime
      [] s.type = "interval" ->
            IF cursor > now THEN cursor
            ELSE cursor + ((now - cursor) \div s.interval + 1) * s.interval
      [] OTHER               -> NextSchedule(s, now)

(* nextFromCursor *)
NextFromCursor(s, cursor) == IF s.type = "once" THEN ZeroTime ELSE NextSchedule(s, cursor)

-----------------------------------------------------------------------------

MisfirePolicies == {NoPolicy, "skip", "catch_up_one", "catch_up_bounded"}

Resolution(windows, cursorAfter, disable) ==
    [windows |-> windows, cursorAfter |-> cursorAfter, disable |-> disable]

Nothing == Resolution(<<>>, ZeroTime, FALSE)

(* The windows from a cursor on, each the next after the one before it,    *)
(* and ZeroTime after the last.                                            *)
WindowsFrom(s, cursor) ==
    LET window[i \in Nat] ==
            IF i = 0 THEN cursor
            ELSE LET before == window[i - 1]
                 IN  IF before = ZeroTime THEN ZeroTime ELSE NextFromCursor(s, before)
    IN  window

(* A closed cursor is moved on, run nothing, until it is open or ahead.    *)
(* Windows are a unit apart at least, so that it is ahead in time; but     *)
(* where a change of the clocks skips a daily midnight the next window may *)
(* be the same one (see NextIsFirstUnlessLost), and the loop, if that day  *)
(* is closed, has no end: no schedule of the clock's runs is such a one.   *)
PastClosedDays(s, cursor, now) ==
    LET window == WindowsFrom(s, cursor)
        Passed(i) == window[i] <= now /\ SkipsOccurrence(s, window[i])
        next == window[Earliest({i \in 0..(now - cursor + 1) : ~Passed(i)})]
    IN  Resolution(<<>>, next, next = ZeroTime)

(* A faulty variant: closed days are caught up like any other. *)
CatchUpThroughClosedDays(s, cursor, now, count, future) ==
    LET window == WindowsFrom(s, cursor)
        taken == Cardinality({i \in 1..count : window[i - 1] <= now})
    IN  Resolution([i \in 1..taken |-> window[i - 1]],
                   IF window[taken] <= now THEN future ELSE ZeroTime, FALSE)

(* catch_up_bounded: the due windows from the cursor on, at most count of  *)
(* them and none past a closed day; what the count leaves out is given up. *)
CatchUpBounded(s, cursor, now, count, future) ==
    LET window == WindowsFrom(s, cursor)
        Due(i) == window[i] # ZeroTime /\ window[i] <= now
        Runs(i) == Due(i) /\ ~SkipsOccurrence(s, window[i])
        taken == Earliest({i \in 0..count : i < count => ~Runs(i)})
    IN  Resolution([i \in 1..taken |-> window[i - 1]],
                   CASE ~Due(taken) -> ZeroTime
                     [] Due(taken) /\ taken < count -> window[taken]
                     [] Due(taken) /\ taken = count -> future,
                   FALSE)

(* A faulty variant: no default. *)
GraceWithoutDefault(policy) == policy.grace

Grace(policy) == IF policy.grace <= 0 THEN DefaultGrace ELSE policy.grace

Lesser(a, b) == IF a < b THEN a ELSE b

ResolveMisfire(s, policy, cursor, now, limit) ==
    LET due == cursor # ZeroTime /\ cursor <= now /\ limit > 0
        closed == due /\ SkipsOccurrence(s, cursor)
        missed == due /\ ~closed /\ policy.misfire # NoPolicy /\ now > cursor + Grace(policy)
        future == NextAfter(s, cursor, now)
        allowed == IF policy.maxCatchup <= 0 THEN 1 ELSE policy.maxCatchup
    IN  CASE ~due -> Nothing
          [] closed -> PastClosedDays(s, cursor, now)
          [] due /\ ~closed /\ ~missed -> Resolution(<<cursor>>, ZeroTime, FALSE)
          [] missed /\ policy.misfire = "skip" ->
                Resolution(<<>>, future, future = ZeroTime)
          [] missed /\ policy.misfire = "catch_up_one" ->
                Resolution(<<cursor>>, future, FALSE)
          [] missed /\ policy.misfire = "catch_up_bounded" ->
                CatchUpBounded(s, cursor, now, Lesser(allowed, limit), future)
=============================================================================
