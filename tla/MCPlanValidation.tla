--------------------------- MODULE MCPlanValidation ---------------------------
(* Plans two changes away from an acceptable one.  Days have two units;    *)
(* the month begins on a Friday, and plans are made on the Wednesday after *)
(* it, before a long weekend.                                              *)
EXTENDS PlanValidation, TLC

OneMonth == <<31>>

MCPadding == ("utc " :> "utc") @@ ("skip " :> "skip") @@ ("once " :> "once") @@ (" " :> "")

MCLocations ==
    ("utc" :> [transition |-> 1, before |-> 0, after |-> 0])
    @@ ("east" :> [transition |-> 1, before |-> 1, after |-> 1])

\* Monday to Friday; the second Monday is a holiday.
WorkWeek == [weekly |-> 1..5, holidays |-> {10}, open |-> {}, closed |-> {}]
Contradiction == [weekly |-> 1..5, holidays |-> {10}, open |-> {10}, closed |-> {}]

MCCalendars ==
    ("work" :> [zone |-> "utc", days |-> WorkWeek])
    @@ ("work, padded" :> [zone |-> "utc ", days |-> WorkWeek])
    @@ ("work, east" :> [zone |-> "east", days |-> WorkWeek])
    @@ ("contradiction" :> [zone |-> "utc", days |-> Contradiction])

MCFieldValues ==
    [facts        |-> {"sound", "unsound"},
     timezone     |-> {"utc", "utc ", "east", "Local", ""},
     trigger      |-> {"once", "once ", "recurring", "often"},
     at           |-> {Nil, ZeroTime, 8, 16},
     type         |-> {"none", "once", "interval", "daily_at", "weekly_at", "sometimes"},
     rule_zone    |-> {"", "utc", "utc ", "east"},
     instant      |-> {Nil, 14},
     interval     |-> {-1, 0, 3},
     clock        |-> {Nil, 0, 1},
     weekday      |-> {Nil, 1, 6},
     calendar     |-> {"none", "work", "work, padded", "work, east", "contradiction"},
     closed_days  |-> {"", " ", "skip", "skip ", "roll_forward", "nearest"},
     misfire      |-> {"", "skip", "skip ", "catch_up_one", "catch_up_bounded"},
     max_catchup  |-> {-1, 0, 1, 2, 101},
     max_attempts |-> {-1, 0, 10, 11},
     grace        |-> {-1, 0, 3, 5},
     retry_initial |-> {0, 2, 5}, retry_max |-> {0, 1, 2}, timeout |-> {0, 5}]

Blank ==
    [facts |-> "sound", timezone |-> "utc", trigger |-> "recurring", at |-> Nil, type |-> "none",
     rule_zone |-> "", instant |-> Nil, interval |-> 0, clock |-> Nil, weekday |-> Nil,
     calendar |-> "none", closed_days |-> "", misfire |-> "", max_catchup |-> 0,
     max_attempts |-> 0, grace |-> 0, retry_initial |-> 0, retry_max |-> 0, timeout |-> 0]

Recurring(fields) == [f \in DOMAIN Blank |-> IF f \in DOMAIN fields THEN fields[f] ELSE Blank[f]]

MCPlans ==
    {Recurring([trigger |-> "once", at |-> 16]),
     Recurring([type |-> "once", instant |-> 14]),
     Recurring([type |-> "interval", interval |-> 3]),
     Recurring([type |-> "daily_at", clock |-> 1, misfire |-> "catch_up_bounded", max_catchup |-> 2]),
     Recurring([type |-> "daily_at", clock |-> 1, calendar |-> "work", closed_days |-> "skip",
                misfire |-> "catch_up_bounded", max_catchup |-> 2]),
     Recurring([type |-> "weekly_at", clock |-> 0, weekday |-> 6, calendar |-> "work",
                closed_days |-> "roll_forward", retry_initial |-> 2, retry_max |-> 2])}

\* What the proofs of plans are about: all plans of this instance.  None of a
\* weekly one's occurrences waits for an open day on the Wednesday plans are made.
ASSUME ZonesAreSteady == SteadyPlans

ASSUME NoOccurrenceWaits ==
    \A zone \in DOMAIN MCLocations, time \in MCFieldValues.clock \ {Nil},
       day \in MCFieldValues.weekday \ {Nil},
       calendar \in {NoCalendar} \cup {MCCalendars[c].days : c \in DOMAIN MCCalendars} :
        LET weekly == Recurring([type |-> "weekly_at", clock |-> time, weekday |-> day])
            rule == Rule(weekly, MCLocations[zone], "roll_forward", calendar)
        IN  LocalDay(rule.zone, Start) >= 0 /\ NonePending(rule, Start)
=============================================================================
