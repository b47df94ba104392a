------------------------------ MODULE MCAuthoring ------------------------------
(* Documents of every schedule type and every target, two changes away     *)
(* from an acceptable one.                                                 *)
EXTENDS AuthoringCatalog

Texts(texts) == {Absent, Number("int", 1)} \cup {Text(t) : t \in texts}
Numbers(numbers) ==
    {Absent, Text("7"), Number("fraction", 7), Number("uint32", 7), Number("json.Number", 7)}
        \cup {Number("float64", n) : n \in numbers}

MCChoices ==
    [key                     |-> {Absent, Text("job")},
     name                    |-> {Absent, Text("Job")},
     status                  |-> Texts({"enabled", "running"}),
     i18n                    |-> {Absent, Text(""), Number("map", 0)},
     description             |-> {Absent, Text("what it does"), Number("float64", 7)},
     revision                |-> {Absent, Number("float64", 7)},
     next_run_at             |-> {Absent, Text("instant"), Text("soon")},
     timezone                |-> {Absent, Text("utc"), Text("mars"), Number("float64", 7)},
     schedule_type           |-> Texts({"interval", "daily_at", "weekly_at", "monthly_at",
                                        "cron", "once"}),
     schedule_expression     |-> {Absent, Text("0 8 * * *"), Text("08:30")},
     interval_seconds        |-> Numbers({0, 60}),
     interval_minutes        |-> {Absent, Number("float64", 5)},
     interval_hours          |-> {Absent, Number("float64", 5)},
     time_of_day             |-> {Absent, Text(""), Text("08:30"), Text("25:00")},
     day_of_week             |-> {Absent, Text("tuesday"), Text("tue"), Text("funday")},
     day_of_month            |-> Numbers({0, 31, 32}),
     business_calendar_key   |-> {Absent, Text("work")},
     non_working_day_policy  |-> {Absent, Text(""), Text("roll_forward"), Text("nearest")},
     missed_window_policy    |-> {Absent, Text(""), Text("catch_up_bounded"), Text("everything")},
     max_catchup_windows     |-> {Absent, Number("float64", 0), Number("float64", 100)},
     max_attempts            |-> {Absent, Number("uint32", 100), Number("float64", 100),
                                  Number("float64", 101)},
     timeout_seconds         |-> {Absent, Number("float64", 0), Number("float64", 86400)},
     retry_delay_seconds     |-> {Absent, Text("7"), Number("float64", -1), Number("float64", 0),
                                  Number("float64", 901)},
     retry_max_delay_seconds |-> {Absent, Number("float64", -1), Number("float64", 0),
                                  Number("float64", 10), Number("float64", 1000)},
     target_type             |-> {Absent, Text("business_action"), Text("workflow"),
                                  Text("report_snapshot_refresh"), Text("http"), Text("script")},
     target_key              |-> {Absent, Text("scheduled"), Text("plain")},
     target_object           |-> {Absent, Text("order")},
     run_as_role             |-> {Absent, Text("clerk")},
     connection_key          |-> {Absent, Text("partner")},
     payload_json            |-> {Absent, Text(""), Text("object"), Text("array"), Text("broken"),
                                  Number("map", 0)}]

Blank == [f \in DOMAIN MCChoices |-> Absent]
With(d, fields) == [f \in DOMAIN d |-> IF f \in DOMAIN fields THEN fields[f] ELSE d[f]]

Common == With(Blank, [key |-> Text("job"), name |-> Text("Job"), status |-> Text("enabled"),
                       max_attempts |-> Number("float64", 100),
                       timeout_seconds |-> Number("float64", 86400)])

Workflow(schedule) ==
    With(With(Common, [target_type |-> Text("workflow"), target_key |-> Text("scheduled")]),
         schedule)
Interval == [schedule_type |-> Text("interval"), interval_seconds |-> Number("float64", 60)]

Http ==
    With(With(Common, Interval),
         [target_type |-> Text("http"), target_key |-> Text("plain"),
          connection_key |-> Text("partner"), payload_json |-> Text("array")])
BusinessAction ==
    With(With(Common, Interval),
         [target_type |-> Text("business_action"), target_key |-> Text("plain"),
          target_object |-> Text("order"), run_as_role |-> Text("clerk"),
          payload_json |-> Text("object")])

MCDocuments ==
    {Workflow(Interval), Http, BusinessAction,
     Workflow([schedule_type |-> Text("daily_at"), time_of_day |-> Text("08:30"),
               timezone |-> Text("utc"), business_calendar_key |-> Text("work"),
               non_working_day_policy |-> Text("roll_forward")]),
     Workflow([schedule_type |-> Text("weekly_at"), time_of_day |-> Text("08:30"),
               day_of_week |-> Text("tuesday")]),
     Workflow([schedule_type |-> Text("monthly_at"), time_of_day |-> Text("08:30"),
               day_of_month |-> Number("json.Number", 7)]),
     Workflow([schedule_type |-> Text("cron"), schedule_expression |-> Text("0 8 * * *")])}
=============================================================================
