\* Two workers, polls of two windows, one crash, over a long weekend.
SPECIFICATION FairClockSpec
CONSTANTS
    DayLength = 2
    MonthLengths <- OneMonth
    FirstWeekday = 5
    SearchDays = 8
    DefaultGrace = 1
    Workers = {w1, w2}
    Schedules <- EverySchedule
    Policies <- EveryPolicy
    Limits = {2}
    LastNow = 10
    MaxCrashes = 1
INVARIANTS
    EveryOccurrenceDecidedOnce
    RunsOnWorkingDays
    GivenUpOnlyWhenLate
PROPERTIES
    CursorNeverMovesBack
    ClockCatchesUp
CHECK_DEADLOCK FALSE
