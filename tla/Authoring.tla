------------------------------- MODULE Authoring -------------------------------
(***************************************************************************)
(* Authoring a definition: an author edits a document, has it validated,   *)
(* and changes what the refusal names until it is accepted.  An accepted   *)
(* document is previewed by package schedule, which reads it again.        *)
(*                                                                         *)
(* A document is a map[string]any: for each field a value with the dynamic *)
(* type Go finds in it (kind; "absent" when the key is missing), and its   *)
(* text, trimmed and in lower case, or its number.  Texts stand for what   *)
(* the code asks of them: "scheduled" is a key with that prefix,           *)
(* "08:30" a clock that parses and "25:00" one that does not.              *)
(* A fraction is a float64 that is not whole, and n is what is left of it. *)
(***************************************************************************)
EXTENDS Integers, Sequences

CONSTANTS Choices,    \* for each field, the values an author may write
          Documents,  \* the documents an author starts from
          ClockTexts, CronTexts, ZoneTexts,  \* the texts that parse as these
          MaxEdits    \* bound: changes the author makes unasked

Empty == ""

Absent == [kind |-> "absent", text |-> Empty, n |-> 0]
Text(text) == [kind |-> "string", text |-> text, n |-> 0]
Number(kind, n) == [kind |-> kind, text |-> Empty, n |-> n]
Value == [kind : STRING, text : STRING, n : Int]

Fields == DOMAIN Choices

ASSUME AuthoringAssumption ==
    /\ MaxEdits \in Nat /\ Empty \notin ClockTexts \cup CronTexts
    /\ \A f \in Fields :
           /\ Absent \in Choices[f] /\ Choices[f] \subseteq Value
           /\ \A v \in Choices[f] : v.kind = "absent" => v = Absent
    /\ Documents \subseteq {d \in [Fields -> UNION {Choices[f] : f \in Fields}] :
                               \A f \in Fields : d[f] \in Choices[f]}

VARIABLES draft, answer, edits

authoringVars == <<draft, answer, edits>>

-----------------------------------------------------------------------------
(* Reading a document *)

Present(d, field) == d[field].kind # "absent"

(* textValue: anything but a string is empty. *)
TextValue(v) == IF v.kind = "string" THEN v.text ELSE Empty

(* strictAuthoringInteger: whole numbers of every width, and no text *)
StrictIntegers == {"int", "int64", "uint32", "float64", "json.Number"}
StrictInteger(v) == v.kind \in StrictIntegers

(* A faulty variant: the lower bound is let through by one. *)
InRangeFromBelow(v, lo, hi) == StrictInteger(v) /\ v.n \in (lo - 1)..hi

InRange(v, lo, hi) == StrictInteger(v) /\ v.n \in lo..hi

SecondsPerDay == 86400

(* optionalAuthoringInteger *)
OptionalInteger(v, fallback) == IF v = Absent THEN Number("int", fallback) ELSE v

MissedWindowPolicy(d) ==
    LET policy == TextValue(d["missed_window_policy"])
    IN  IF policy \in {"catch_up_one", "catch_up_bounded"} THEN policy ELSE "skip"

-----------------------------------------------------------------------------
(* The checks, in the code's order.  A check names the field its error     *)
(* reports, and says whether the document fails it.                        *)

Check(field, code, fails) == [field |-> field, code |-> code, fails |-> fails]

(* firstPresentField: the first of the fields that is there is reported. *)
NotApplicable(d, when, fields) ==
    [i \in DOMAIN fields |->
        Check(fields[i], "field_not_applicable", when /\ Present(d, fields[i]))]

(* Keys that are no field of a definition, in the order they are sorted.   *)
(* schedule.IntervalSeconds would read these two.                          *)
Unsupported == <<"interval_hours", "interval_minutes">>

UnsupportedFields(d) ==
    [i \in DOMAIN Unsupported |->
        Check(Unsupported[i], "field_unsupported", Present(d, Unsupported[i]))]

(* definitionPayload, and the JSON a target takes *)
PayloadRefused(d, json) ==
    LET payload == d["payload_json"]
    IN  /\ Present(d, "payload_json")
        /\ payload.kind # "string" \/ payload.text \notin json \cup {Empty}

TargetChecks(d) ==
    LET type == TextValue(d["target_type"])
        key == TextValue(d["target_key"])
        Missing(field) == TextValue(d[field]) = Empty
    IN  << Check("target_type", "target_type_required", type = Empty),
           Check("target_type", "target_type_unsupported",
                 type \notin {"business_action", "workflow", "report_snapshot_refresh", "http"}),
           Check("target_key", "target_key_required", key = Empty),
           Check("target_key", "workflow_target_invalid",
                 type = "workflow" /\ key # "scheduled"),
           Check("target_key", "report_target_invalid",
                 type = "report_snapshot_refresh" /\ key = "scheduled"),
           Check("target_object", "business_action_object_required",
                 type = "business_action" /\ Missing("target_object")),
           Check("run_as_role", "business_action_role_required",
                 type = "business_action" /\ Missing("run_as_role")),
           Check("payload_json", "payload_invalid",
                 type = "business_action" /\ PayloadRefused(d, {"object"})) >>
        \o NotApplicable(d, type = "business_action", <<"connection_key">>)
        \o << Check("connection_key", "http_connection_required",
                    type = "http" /\ Missing("connection_key")) >>
        \o NotApplicable(d, type = "http", <<"target_object", "run_as_role">>)
        \o << Check("payload_json", "payload_invalid",
                    type = "http" /\ PayloadRefused(d, {"object", "array"})) >>
        \o NotApplicable(d, type \in {"workflow", "report_snapshot_refresh"},
                         <<"target_object", "run_as_role", "connection_key", "payload_json">>)

PolicyChecks(d) ==
    LET missed == MissedWindowPolicy(d)
        delay == OptionalInteger(d["retry_delay_seconds"], 30)
        longest == OptionalInteger(d["retry_max_delay_seconds"], 900)
    IN  << Check("max_attempts", "max_attempts_required", ~Present(d, "max_attempts")),
           Check("max_attempts", "max_attempts_invalid", ~InRange(d["max_attempts"], 1, 100)),
           Check("timeout_seconds", "timeout_required", ~Present(d, "timeout_seconds")),
           Check("timeout_seconds", "timeout_invalid",
                 ~InRange(d["timeout_seconds"], 1, SecondsPerDay)),
           Check("retry_delay_seconds", "retry_policy_invalid",
                 \/ ~StrictInteger(delay) \/ ~StrictInteger(longest)
                 \/ delay.n < 0 \/ longest.n < 0
                 \/ longest.n > 0 /\ longest.n < delay.n),
           Check("max_catchup_windows", "max_catchup_windows_invalid",
                 missed = "catch_up_bounded" /\ ~InRange(d["max_catchup_windows"], 1, 100)) >>
        \o NotApplicable(d, missed # "catch_up_bounded", <<"max_catchup_windows">>)
        \o << Check("missed_window_policy", "missed_window_policy_invalid",
                    missed = "skip" /\ TextValue(d["missed_window_policy"]) \notin {Empty, "skip"}),
              Check("next_run_at", "next_run_at_invalid",
                    TextValue(d["next_run_at"]) \notin {Empty, "instant"}),
              Check("i18n", "i18n_invalid", d["i18n"].kind \notin {"absent", "map"}) >>

ScheduleTypes == {"interval", "daily_at", "weekly_at", "monthly_at", "cron"}

ScheduleFields ==
    <<"schedule_expression", "interval_seconds", "time_of_day", "day_of_week", "day_of_month">>

(* A faulty variant: the monthly rule is a copy of the weekly one. *)
ReadByCopied(type) ==
    CASE type = "interval" -> {"interval_seconds"}
      [] type = "daily_at" -> {"time_of_day"}
      [] type \in {"weekly_at", "monthly_at"} -> {"time_of_day", "day_of_week"}
      [] type = "cron" -> {"schedule_expression"}
      [] OTHER -> {}

(* The schedule fields a type reads; it refuses the others. *)
ReadBy(type) ==
    CASE type = "interval"   -> {"interval_seconds"}
      [] type = "daily_at"   -> {"time_of_day"}
      [] type = "weekly_at"  -> {"time_of_day", "day_of_week"}
      [] type = "monthly_at" -> {"time_of_day", "day_of_month"}
      [] type = "cron"       -> {"schedule_expression"}
      [] OTHER               -> {}

(* ParseClock, ParseWeekday, cron and time.LoadLocation *)
IsClock(text) == text \in ClockTexts
Weekdays == {"friday", "monday", "saturday", "sunday", "thursday", "tuesday", "wednesday"}
WeekdaysInShort ==
    {"0", "1", "2", "3", "4", "5", "6", "sun", "mon", "tue", "tues", "wed", "thu", "thur", "thurs",
     "fri", "sat"}
IsWeekday(text) == text \in Weekdays \cup WeekdaysInShort
IsCron(text) == text \in CronTexts
IsZone(text) == text \in ZoneTexts

(* validateScheduleData, as part of a definition *)
ScheduleChecks(d) ==
    LET type == TextValue(d["schedule_type"])
        calendar == TextValue(d["business_calendar_key"])
        policy == TextValue(d["non_working_day_policy"])
        zone == TextValue(d["timezone"])
    IN  << Check("timezone", "timezone_invalid", zone # Empty /\ ~IsZone(zone)),
           Check("schedule_type", "schedule_type_required", type = Empty),
           Check("schedule_type", "schedule_type_invalid", type \notin ScheduleTypes),
           Check("interval_seconds", "interval_invalid",
                 /\ type = "interval"
                 /\ ~StrictInteger(d["interval_seconds"]) \/ d["interval_seconds"].n <= 0),
           Check("time_of_day", "time_of_day_invalid",
                 /\ type \in {"daily_at", "weekly_at", "monthly_at"}
                 /\ ~IsClock(TextValue(d["time_of_day"]))),
           Check("day_of_week", "day_of_week_invalid",
                 type = "weekly_at" /\ ~IsWeekday(TextValue(d["day_of_week"]))),
           Check("day_of_month", "day_of_month_invalid",
                 type = "monthly_at" /\ ~InRange(d["day_of_month"], 1, 31)),
           Check("schedule_expression", "cron_invalid",
                 type = "cron" /\ ~IsCron(TextValue(d["schedule_expression"]))) >>
        \o [i \in DOMAIN ScheduleFields |->
               Check(ScheduleFields[i], "field_not_applicable",
                     ScheduleFields[i] \notin ReadBy(type) /\ Present(d, ScheduleFields[i]))]
        \o << Check("non_working_day_policy", "field_not_applicable",
                    calendar = Empty /\ policy # Empty),
              Check("business_calendar_key", "field_not_applicable",
                    calendar # Empty /\ type = "interval"),
              Check("timezone", "business_calendar_timezone_required",
                    calendar # Empty /\ zone = Empty),
              Check("non_working_day_policy", "non_working_day_policy_invalid",
                    calendar # Empty /\ policy \notin {Empty, "skip", "roll_forward"}) >>

IdentityChecks(d) ==
    << Check("key", "key_required", TextValue(d["key"]) = Empty),
       Check("name", "name_required", TextValue(d["name"]) = Empty),
       Check("status", "status_invalid",
             TextValue(d["status"]) \notin
                 {"archived", "disabled", "draft", "enabled", "paused"}) >>

Unasked == Check(Empty, "unasked", FALSE)
Valid == Check(Empty, "accepted", FALSE)

Checks(d) ==
    UnsupportedFields(d) \o TargetChecks(d) \o PolicyChecks(d) \o ScheduleChecks(d)
        \o IdentityChecks(d)

(* The first check that fails, if any *)
FirstFailing(checks) ==
    LET failed == {i \in DOMAIN checks : checks[i].fails}
    IN  IF failed = {} THEN Valid ELSE checks[CHOOSE i \in failed : \A j \in failed : i <= j]

(* TLC evaluates the checks of a bound variable once. *)
ValidateDefinitionData(d) ==
    CHOOSE verdict \in {FirstFailing(checks) : checks \in {Checks(d)}} : TRUE

-----------------------------------------------------------------------------
(* The author *)

Init == draft \in Documents /\ answer = Unasked /\ edits = 0

Edit ==
    /\ answer = Unasked /\ edits < MaxEdits
    /\ \E f \in Fields : \E v \in Choices[f] \ {draft[f]} :
           draft' = [draft EXCEPT ![f] = v]
    /\ edits' = edits + 1 /\ UNCHANGED answer

Submit ==
    /\ answer = Unasked
    /\ answer' = ValidateDefinitionData(draft)
    /\ UNCHANGED <<draft, edits>>

(* The fields whose values an error's parameters report *)
Reported(check) ==
    IF check.code = "retry_policy_invalid"
    THEN {"retry_delay_seconds", "retry_max_delay_seconds"} ELSE {check.field}

(* The author changes nothing but what the error reports, to values the    *)
(* next answer does not refuse again.                                      *)
Repair ==
    /\ answer \notin {Unasked, Valid}
    /\ \E change \in [Reported(answer) -> UNION {Choices[f] : f \in Reported(answer)}] :
           LET repaired == [f \in Fields |-> IF f \in Reported(answer) THEN change[f] ELSE draft[f]]
           IN  /\ \A f \in Reported(answer) : change[f] \in Choices[f]
               /\ ValidateDefinitionData(repaired).field \notin Reported(answer)
               /\ draft' = repaired
    /\ answer' = Unasked /\ UNCHANGED edits

Next == Edit \/ Submit \/ Repair

AuthoringSpec == Init /\ [][Next]_authoringVars

FairAuthoringSpec == AuthoringSpec /\ WF_authoringVars(Submit) /\ WF_authoringVars(Repair)

-----------------------------------------------------------------------------
(* Reading an accepted document to run it *)

(* A faulty variant: numbers decoded with UseNumber are not known. *)
IntWithoutJSONNumber(v, fallback) ==
    IF v.kind \in {"int", "int64", "float64", "fraction"} THEN v.n ELSE fallback

(* Int: the widths it knows, with a fallback for the others.  Numbers      *)
(* written as text are read too, but never accepted.                       *)
IntRead(v, fallback) ==
    IF v.kind \in {"int", "int64", "float64", "json.Number", "fraction"} THEN v.n ELSE fallback

(* IntervalSeconds ranges over a Go map: any field that is set may be      *)
(* found first.                                                            *)
IntervalSeconds(d) ==
    LET unit == [interval_seconds |-> 1, interval_minutes |-> 60, interval_hours |-> 3600]
        found == {f \in DOMAIN unit : IntRead(d[f], 0) > 0}
    IN  IF found = {} THEN {0} ELSE {IntRead(d[f], 0) * unit[f] : f \in found}

(* monthDay, clock and weekday.  The other names they look under are no    *)
(* fields of a definition.                                                 *)
MonthDayRead(d) ==
    LET day == IntRead(d["day_of_month"], 0)
    IN  IF day > 31 THEN 31 ELSE IF day <= 0 THEN 1 ELSE day

ClockRead(d) ==
    IF IsClock(TextValue(d["time_of_day"])) THEN TextValue(d["time_of_day"]) ELSE "00:00"

WeekdayRead(d) ==
    IF IsWeekday(TextValue(d["day_of_week"])) THEN TextValue(d["day_of_week"]) ELSE "monday"

Rule(type, seconds, clock, weekday, day, cron) ==
    [type |-> type, seconds |-> seconds, clock |-> clock, weekday |-> weekday,
     day |-> day, cron |-> cron]

(* What Next may take the document for *)
RulesRead(d) ==
    LET type == TextValue(d["schedule_type"])
        cron == TextValue(d["schedule_expression"])
        Every(s) == IF s <= 0 THEN SecondsPerDay ELSE s
    IN  CASE type = "interval"   -> {Rule(type, Every(s), Empty, Empty, 0, Empty) :
                                        s \in IntervalSeconds(d)}
          [] type = "daily_at"   -> {Rule(type, 0, ClockRead(d), Empty, 0, Empty)}
          [] type = "weekly_at"  -> {Rule(type, 0, ClockRead(d), WeekdayRead(d), 0, Empty)}
          [] type = "monthly_at" -> {Rule(type, 0, ClockRead(d), Empty, MonthDayRead(d), Empty)}
          [] type = "cron"       -> {Rule(type, 0, Empty, Empty, 0, cron)}
          [] OTHER               -> {Rule("legacy", 0, Empty, Empty, 0, Empty)}

(* Data of the typed schedule made of the document: numbers that are not   *)
(* positive are left out.  Validate on it, with a valid calendar in the    *)
(* schedule's zone and the policy the published schema defaults to.        *)
ValidTyped(d) ==
    LET type == TextValue(d["schedule_type"])
        clock == TextValue(d["time_of_day"])
        calendar == TextValue(d["business_calendar_key"]) # Empty
        policy == IF calendar /\ TextValue(d["non_working_day_policy"]) = Empty
                  THEN "skip" ELSE TextValue(d["non_working_day_policy"])
    IN  /\ type \in ScheduleTypes \cup {"once"}
        /\ type = "interval" => d["interval_seconds"].n > 0
        /\ type = "cron" => IsCron(TextValue(d["schedule_expression"]))
        /\ type \in {"daily_at", "weekly_at", "monthly_at"} =>
               IsClock(IF clock # Empty THEN clock ELSE TextValue(d["schedule_expression"]))
        /\ type = "weekly_at" => IsWeekday(TextValue(d["day_of_week"]))
        /\ type = "monthly_at" => d["day_of_month"].n \in 1..31
        /\ TextValue(d["timezone"]) = Empty \/ IsZone(TextValue(d["timezone"]))
        /\ IF calendar
           THEN /\ type \notin {"once", "interval"} /\ TextValue(d["timezone"]) # Empty
                /\ policy \in {"skip", "roll_forward"}
           ELSE policy = Empty

-----------------------------------------------------------------------------

AuthoringTypeOK ==
    /\ \A f \in Fields : draft[f] \in Choices[f]
    /\ answer.field \in Fields \cup {Empty} /\ edits \in 0..MaxEdits

(* What the author wrote; a number of the one width that is accepted and   *)
(* not read counts for nothing, and has a default in its place.            *)
WrittenOrDefault(d) ==
    LET type == TextValue(d["schedule_type"])
        Has(types, value, none) == IF type \in types THEN value ELSE none
        NumberOr(field, default) == IF d[field].kind = "uint32" THEN default ELSE d[field].n
    IN  Rule(type, Has({"interval"}, NumberOr("interval_seconds", SecondsPerDay), 0),
             Has({"daily_at", "weekly_at", "monthly_at"}, d["time_of_day"].text, Empty),
             Has({"weekly_at"}, d["day_of_week"].text, Empty),
             Has({"monthly_at"}, NumberOr("day_of_month", 1), 0),
             Has({"cron"}, d["schedule_expression"].text, Empty))

(* PreviewDefinitionData lists the occurrences of one rule for an accepted *)
(* definition, whatever order its map is ranged over in, and it is the     *)
(* rule the author wrote: no accepted field is ignored or replaced by a    *)
(* default.  There is one exception, and the property is exact about it: a *)
(* uint32 passes strictAuthoringInteger and is unknown to Int, so such an  *)
(* interval is previewed as a day and such a day as the first.             *)
AcceptedHasOneReading == answer = Valid => RulesRead(draft) = {WrittenOrDefault(draft)}

(* The two validators agree: what ValidateDefinitionData accepts, Validate *)
(* accepts of the schedule made of it.                                     *)
AcceptedIsASchedule == answer = Valid => ValidTyped(draft)

(* No two checks ask for opposite things: an author who does no more than  *)
(* what each refusal reports gets the document accepted.                   *)
RepairsConverge == <>[](answer = Valid)
=============================================================================
