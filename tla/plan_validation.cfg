\* Plans two changes away from an acceptable one, polled on time and late.
SPECIFICATION PlanSpec
CONSTANTS
    DayLength = 2
    MonthLengths <- OneMonth
    FirstWeekday = 5
    SearchDays = 8
    DefaultGrace = 1
    FieldValues <- MCFieldValues
    Plans <- MCPlans
    Padding <- MCPadding
    Locations <- MCLocations
    Calendars <- MCCalendars
    LargestCatchup = 100
    LargestAttempts = 10
    LongestDuration = 4
    Limit = 2
    Start = 11
    MaxEdits = 2
    LastNow = 25
PROPERTIES
    RunsAsMeant
    PollsMoveOn
CHECK_DEADLOCK FALSE
