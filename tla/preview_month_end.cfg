SPECIFICATION PreviewSpec
CONSTANTS
    DayLength = 4
    MonthLengths <- Calendar2026
    FirstWeekday = 4
    SearchDays = 12
    Schedules <- MonthEndSchedules
    Starts <- LateStarts
    Requests = {5}
    PreviewLimit = 5
    DefaultGrace = 1
INVARIANTS
    NextIsFirstAligned
CHECK_DEADLOCK FALSE
