SPECIFICATION PreviewSpec
CONSTANTS
    DayLength = 4
    MonthLengths <- Calendar2026
    FirstWeekday = 4
    SearchDays = 12
    Schedules <- EverySchedule
    Starts <- MonthOfStarts
    Requests = {0, 3, 9}
    PreviewLimit = 5
    DefaultGrace = 1
INVARIANTS
    PreviewIsExact
    OneOccurrencePerWindow
    NextIsFirstUnlessLost
CHECK_DEADLOCK FALSE
