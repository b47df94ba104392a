---------------------------- MODULE DefinitionProofs ----------------------------
(***************************************************************************)
(* Proofs about definitions, first as they are authored (Authoring and     *)
(* AuthoringCatalog, for every set of documents an author may write and of *)
(* texts that parse), then as they are published (DefinitionPublication,   *)
(* for every set of processes, workers, payloads and stray snapshots).     *)
(*                                                                         *)
(* Authoring: the checks of a validation are taken apart group by group    *)
(* into what an accepted document is (Acceptable), and everything said of  *)
(* accepted documents follows from that.                                   *)
(***************************************************************************)
EXTENDS AuthoringCatalog, DefinitionPublication, SequenceTheorems, WellFoundedInduction, TLAPS

(* A set of naturals that is not empty has a least element. *)
LEMMA FirstOf ==
    ASSUME NEW S \in SUBSET Nat, S # {}
    PROVE  \E i \in S : \A j \in S : i <= j
<1> DEFINE R == OpToRel(<, Nat)
<1>1. IsWellFoundedOn(R, Nat)
  BY NatLessThanWellFounded
<1>2. \A x, y \in Nat : x < y => <<x, y>> \in R
  BY DEF OpToRel
<1> HIDE DEF R
<1>3. PICK x \in S : \A y \in S : ~(<<y, x>> \in R)
  BY <1>1, WFMin
<1>4. \A y \in S : ~(y < x)
  BY <1>2, <1>3, Zenon
<1> QED BY <1>4

(* A document is accepted when no check fails, and refused by one that does. *)
LEMMA Verdicts ==
    ASSUME NEW d, NEW S, Checks(d) \in Seq(S)
    PROVE  \/ /\ ValidateDefinitionData(d) = Valid
              /\ \A c \in Range(Checks(d)) : ~c.fails
           \/ /\ ValidateDefinitionData(d) \in Range(Checks(d))
              /\ ValidateDefinitionData(d).fails
<1> DEFINE checks == Checks(d)
           failed == {i \in DOMAIN checks : checks[i].fails}
           first == CHOOSE i \in failed : \A j \in failed : i <= j
<1>1. ValidateDefinitionData(d) = IF failed = {} THEN Valid ELSE checks[first]
  BY DEF ValidateDefinitionData, FirstFailing
<1>2. failed \in SUBSET Nat
  OBVIOUS
<1>3. CASE failed = {}
  BY <1>1, <1>3 DEF Range
<1>4. CASE failed # {}
  <2> HIDE DEF failed
  <2>1. first \in failed
    BY <1>2, <1>4, FirstOf
  <2> USE DEF failed
  <2> QED BY <1>1, <1>4, <2>1 DEF Range
<1> QED BY <1>3, <1>4

(* The elements of two sequences put together *)
LEMMA Concat ==
    ASSUME NEW s, NEW t, s \in Seq(Range(s)), t \in Seq(Range(t))
    PROVE  s \o t \in Seq(Range(s \o t)) /\ Range(s \o t) = Range(s) \cup Range(t)
<1> DEFINE S == Range(s)
           T == Range(t)
<1> HIDE DEF S, T
<1>1. s \in Seq(S \cup T) /\ t \in Seq(S \cup T)
  BY DEF S, T
<1>2. s \o t \in Seq(S \cup T) /\ Range(s \o t) = S \cup T
  BY <1>1, RangeConcatenation DEF S, T
<1> QED BY <1>2 DEF S, T

(* The elements of a sequence written out, for the lengths there are *)
LEMMA One ==
    ASSUME NEW a
    PROVE  <<a>> \in Seq(Range(<<a>>)) /\ Range(<<a>>) = {a}
BY DEF Range

LEMMA Three ==
    ASSUME NEW a, NEW b, NEW c
    PROVE  <<a, b, c>> \in Seq(Range(<<a, b, c>>)) /\ Range(<<a, b, c>>) = {a, b, c}
BY DEF Range

LEMMA Four ==
    ASSUME NEW a, NEW b, NEW c, NEW d
    PROVE  <<a, b, c, d>> \in Seq(Range(<<a, b, c, d>>)) /\ Range(<<a, b, c, d>>) = {a, b, c, d}
BY DEF Range

LEMMA Five ==
    ASSUME NEW a, NEW b, NEW c, NEW d, NEW e
    PROVE  /\ <<a, b, c, d, e>> \in Seq(Range(<<a, b, c, d, e>>))
           /\ Range(<<a, b, c, d, e>>) = {a, b, c, d, e}
BY DEF Range

LEMMA Six ==
    ASSUME NEW a, NEW b, NEW c, NEW d, NEW e, NEW f
    PROVE  /\ <<a, b, c, d, e, f>> \in Seq(Range(<<a, b, c, d, e, f>>))
           /\ Range(<<a, b, c, d, e, f>>) = {a, b, c, d, e, f}
BY DEF Range

LEMMA Eight ==
    ASSUME NEW a, NEW b, NEW c, NEW d, NEW e, NEW f, NEW g, NEW h
    PROVE  /\ <<a, b, c, d, e, f, g, h>> \in Seq(Range(<<a, b, c, d, e, f, g, h>>))
           /\ Range(<<a, b, c, d, e, f, g, h>>) = {a, b, c, d, e, f, g, h}
BY DEF Range

(* The parts of a check *)
LEMMA CheckIs ==
    ASSUME NEW field, NEW code, NEW fails \in BOOLEAN
    PROVE  /\ Check(field, code, fails).field = field
           /\ Check(field, code, fails).code = code
           /\ Check(field, code, fails).fails <=> fails
BY DEF Check

(* A check names a field, and reports it as it is published: for a reason the
   schema does not have, or of a document that does not conform to it. *)
Described(d, check) ==
    /\ check.field \in Fields
    /\ check.fails =>
          /\ Conforms(d) => check.code \notin SchemaCodes
          /\ check.field \in PublishedFor(check.code) \/ check.code \in Unpublished

(* Nothing a group of checks asks is refused, and its errors are described. *)
Passes(checks) == \A c \in Range(checks) : ~c.fails

Sound(d, checks) ==
    checks \in Seq(Range(checks)) /\ \A c \in Range(checks) : Described(d, c)

(* Groups of checks one after the other pass when each of them does. *)
LEMMA Concatenated ==
    ASSUME NEW d, NEW s, NEW t, Sound(d, s), Sound(d, t)
    PROVE  Sound(d, s \o t) /\ (Passes(s \o t) <=> Passes(s) /\ Passes(t))
<1>1. s \o t \in Seq(Range(s \o t)) /\ Range(s \o t) = Range(s) \cup Range(t)
  BY Concat DEF Sound
<1> QED BY <1>1 DEF Sound, Passes

(* A field, and the code of an error that the schema has no part in and
   that is published for this field or for none *)
PlainCheck(field, code) ==
    /\ field \in Fields
    /\ code \notin SchemaCodes
    /\ field \in PublishedFor(code) \/ code \in Unpublished

(* An error of what fields mean to each other *)
LEMMA DescribedPlain ==
    ASSUME NEW d, NEW field, NEW code, NEW fails, PlainCheck(field, code)
    PROVE  Described(d, Check(field, code, fails))
BY DEF Described, Check, PlainCheck

(* An error of what the schema demands too *)
LEMMA DescribedBySchema ==
    ASSUME NEW d, NEW field \in Fields, NEW code, NEW fails \in BOOLEAN, Conforms(d) => ~fails,
           field \in PublishedFor(code) \/ code \in Unpublished
    PROVE  Described(d, Check(field, code, fails))
BY CheckIs DEF Described

(* The fields of the schema *)
LEMMA SchemaFields ==
    DOMAIN BusinessJobParameters =
         {"key", "name", "schedule_expression", "time_of_day", "timezone", "business_calendar_key",
          "target_key", "target_object", "connection_key", "payload_json", "run_as_role",
          "description", "next_run_at", "status", "schedule_type", "day_of_week",
          "missed_window_policy", "non_working_day_policy", "target_type", "day_of_month",
          "interval_seconds", "max_catchup_windows", "max_attempts", "retry_delay_seconds",
          "retry_max_delay_seconds", "timeout_seconds", "i18n"}
BY DEF BusinessJobParameters

(* The schema of a business job, field by field *)
LEMMA TextsOfTheSchema ==
    /\ BusinessJobParameters["key"] = AnyText
    /\ BusinessJobParameters["name"] = AnyText
    /\ BusinessJobParameters["target_key"] = AnyText
    /\ BusinessJobParameters["schedule_expression"] = AnyText
    /\ BusinessJobParameters["time_of_day"] = AnyText
    /\ BusinessJobParameters["timezone"] = AnyText
    /\ BusinessJobParameters["business_calendar_key"] = AnyText
    /\ BusinessJobParameters["target_object"] = AnyText
    /\ BusinessJobParameters["connection_key"] = AnyText
    /\ BusinessJobParameters["payload_json"] = AnyText
    /\ BusinessJobParameters["run_as_role"] = AnyText
    /\ BusinessJobParameters["description"] = AnyText
    /\ BusinessJobParameters["next_run_at"] = AnyText
BY DEF BusinessJobParameters

(* The fields with a choice of texts *)
LEMMA ChoicesOfTheSchema ==
    /\ BusinessJobParameters["status"] =
          OneOf({"archived", "disabled", "draft", "enabled", "paused"})
    /\ BusinessJobParameters["schedule_type"] = OneOf(ScheduleTypes)
    /\ BusinessJobParameters["day_of_week"] = OneOf(Weekdays)
    /\ BusinessJobParameters["missed_window_policy"] =
          OneOf({"catch_up_bounded", "catch_up_one", "skip"})
    /\ BusinessJobParameters["non_working_day_policy"] = OneOf({"roll_forward", "skip"})
    /\ BusinessJobParameters["target_type"] =
          OneOf({"business_action", "http", "report_snapshot_refresh", "workflow"})
BY DEF BusinessJobParameters

(* The fields with a number, and the one with an object *)
LEMMA NumbersOfTheSchema ==
    /\ BusinessJobParameters["i18n"] = AnObject
    /\ BusinessJobParameters["day_of_month"] = Whole(1..31)
    /\ BusinessJobParameters["interval_seconds"] = Whole(Nat \ {0})
    /\ BusinessJobParameters["max_catchup_windows"] = Whole(1..100)
    /\ BusinessJobParameters["max_attempts"] = Whole(1..100)
    /\ BusinessJobParameters["retry_delay_seconds"] = Whole(Nat)
    /\ BusinessJobParameters["retry_max_delay_seconds"] = Whole(Nat)
    /\ BusinessJobParameters["timeout_seconds"] = Whole(1..SecondsPerDay)
BY DEF BusinessJobParameters

(* What the fields of the schema take *)
LEMMA TextsFit ==
    ASSUME NEW v, NEW f, BusinessJobParameters[f] = AnyText
    PROVE  Fits(BusinessJobParameters[f], v) <=> v.kind = "string"
BY DEF Fits, AnyText, Parameter

(* A choice takes one of its texts, ... *)
LEMMA ChoicesFit ==
    ASSUME NEW v, NEW f, NEW texts, texts # {}, BusinessJobParameters[f] = OneOf(texts)
    PROVE  Fits(BusinessJobParameters[f], v) <=> v.kind = "string" /\ v.text \in texts
BY DEF Fits, OneOf, Parameter

(* ... a number any of its range, ... *)
LEMMA NumbersFit ==
    ASSUME NEW v, NEW f, NEW range, BusinessJobParameters[f] = Whole(range)
    PROVE  Fits(BusinessJobParameters[f], v) <=> StrictInteger(v) /\ v.n \in range
BY DEF Fits, Whole, Parameter

(* ... and an object any map. *)
LEMMA ObjectsFit ==
    ASSUME NEW v, NEW f, BusinessJobParameters[f] = AnObject
    PROVE  Fits(BusinessJobParameters[f], v) <=> v.kind = "map"
BY DEF Fits, AnObject, Parameter

(* What each field with a choice takes, ... *)
LEMMA ChoicesTaken ==
    ASSUME NEW v
    PROVE  /\ Fits(BusinessJobParameters["status"], v) <=>
                 v.kind = "string" /\ v.text \in
                     {"archived", "disabled", "draft", "enabled", "paused"}
           /\ Fits(BusinessJobParameters["schedule_type"], v) <=>
                 v.kind = "string" /\ v.text \in ScheduleTypes
           /\ Fits(BusinessJobParameters["day_of_week"], v) <=>
                 v.kind = "string" /\ v.text \in Weekdays
           /\ Fits(BusinessJobParameters["missed_window_policy"], v) <=>
                 v.kind = "string" /\ v.text \in {"catch_up_bounded", "catch_up_one", "skip"}
           /\ Fits(BusinessJobParameters["non_working_day_policy"], v) <=>
                 v.kind = "string" /\ v.text \in {"roll_forward", "skip"}
           /\ Fits(BusinessJobParameters["target_type"], v) <=>
                 v.kind = "string" /\ v.text \in
                     {"business_action", "http", "report_snapshot_refresh", "workflow"}
<1>1. ScheduleTypes # {} /\ Weekdays # {}
  BY DEF ScheduleTypes, Weekdays
<1>2. Fits(BusinessJobParameters["status"], v) <=>
          v.kind = "string" /\ v.text \in {"archived", "disabled", "draft", "enabled", "paused"}
  <2>1. BusinessJobParameters["status"] =
            OneOf({"archived", "disabled", "draft", "enabled", "paused"})
    BY ChoicesOfTheSchema
  <2> QED BY <1>1, <2>1, ChoicesFit
<1>3. Fits(BusinessJobParameters["schedule_type"], v) <=>
          v.kind = "string" /\ v.text \in ScheduleTypes
  <2>1. BusinessJobParameters["schedule_type"] = OneOf(ScheduleTypes)
    BY ChoicesOfTheSchema
  <2> QED BY <1>1, <2>1, ChoicesFit
<1>4. Fits(BusinessJobParameters["day_of_week"], v) <=>
          v.kind = "string" /\ v.text \in Weekdays
  <2>1. BusinessJobParameters["day_of_week"] = OneOf(Weekdays)
    BY ChoicesOfTheSchema
  <2> QED BY <1>1, <2>1, ChoicesFit
<1>5. Fits(BusinessJobParameters["missed_window_policy"], v) <=>
          v.kind = "string" /\ v.text \in {"catch_up_bounded", "catch_up_one", "skip"}
  <2>1. BusinessJobParameters["missed_window_policy"] =
            OneOf({"catch_up_bounded", "catch_up_one", "skip"})
    BY ChoicesOfTheSchema
  <2> QED BY <1>1, <2>1, ChoicesFit
<1>6. Fits(BusinessJobParameters["non_working_day_policy"], v) <=>
          v.kind = "string" /\ v.text \in {"roll_forward", "skip"}
  <2>1. BusinessJobParameters["non_working_day_policy"] = OneOf({"roll_forward", "skip"})
    BY ChoicesOfTheSchema
  <2> QED BY <1>1, <2>1, ChoicesFit
<1>7. Fits(BusinessJobParameters["target_type"], v) <=>
          v.kind = "string" /\ v.text \in
              {"business_action", "http", "report_snapshot_refresh", "workflow"}
  <2>1. BusinessJobParameters["target_type"] =
            OneOf({"business_action", "http", "report_snapshot_refresh", "workflow"})
    BY ChoicesOfTheSchema
  <2> QED BY <1>1, <2>1, ChoicesFit
<1> QED BY <1>2, <1>3, <1>4, <1>5, <1>6, <1>7

(* ... each field with a number, ... *)
LEMMA NumbersTaken ==
    ASSUME NEW v
    PROVE  /\ Fits(BusinessJobParameters["day_of_month"], v) <=>
                 StrictInteger(v) /\ v.n \in 1..31
           /\ Fits(BusinessJobParameters["interval_seconds"], v) <=>
                 StrictInteger(v) /\ v.n \in Nat \ {0}
           /\ Fits(BusinessJobParameters["max_catchup_windows"], v) <=>
                 StrictInteger(v) /\ v.n \in 1..100
           /\ Fits(BusinessJobParameters["max_attempts"], v) <=>
                 StrictInteger(v) /\ v.n \in 1..100
           /\ Fits(BusinessJobParameters["retry_delay_seconds"], v) <=>
                 StrictInteger(v) /\ v.n \in Nat
           /\ Fits(BusinessJobParameters["retry_max_delay_seconds"], v) <=>
                 StrictInteger(v) /\ v.n \in Nat
           /\ Fits(BusinessJobParameters["timeout_seconds"], v) <=>
                 StrictInteger(v) /\ v.n \in 1..SecondsPerDay
<1>1. Fits(BusinessJobParameters["day_of_month"], v) <=> StrictInteger(v) /\ v.n \in 1..31
  <2>1. BusinessJobParameters["day_of_month"] = Whole(1..31)
    BY NumbersOfTheSchema
  <2> QED BY <2>1, NumbersFit
<1>2. Fits(BusinessJobParameters["interval_seconds"], v) <=> StrictInteger(v) /\ v.n \in Nat \ {0}
  <2>1. BusinessJobParameters["interval_seconds"] = Whole(Nat \ {0})
    BY NumbersOfTheSchema
  <2> QED BY <2>1, NumbersFit
<1>3. Fits(BusinessJobParameters["max_catchup_windows"], v) <=> StrictInteger(v) /\ v.n \in 1..100
  <2>1. BusinessJobParameters["max_catchup_windows"] = Whole(1..100)
    BY NumbersOfTheSchema
  <2> QED BY <2>1, NumbersFit
<1>4. Fits(BusinessJobParameters["max_attempts"], v) <=> StrictInteger(v) /\ v.n \in 1..100
  <2>1. BusinessJobParameters["max_attempts"] = Whole(1..100)
    BY NumbersOfTheSchema
  <2> QED BY <2>1, NumbersFit
<1>5. Fits(BusinessJobParameters["retry_delay_seconds"], v) <=> StrictInteger(v) /\ v.n \in Nat
  <2>1. BusinessJobParameters["retry_delay_seconds"] = Whole(Nat)
    BY NumbersOfTheSchema
  <2> QED BY <2>1, NumbersFit
<1>6. Fits(BusinessJobParameters["retry_max_delay_seconds"], v) <=> StrictInteger(v) /\ v.n \in Nat
  <2>1. BusinessJobParameters["retry_max_delay_seconds"] = Whole(Nat)
    BY NumbersOfTheSchema
  <2> QED BY <2>1, NumbersFit
<1>7. Fits(BusinessJobParameters["timeout_seconds"], v) <=>
          StrictInteger(v) /\ v.n \in 1..SecondsPerDay
  <2>1. BusinessJobParameters["timeout_seconds"] = Whole(1..SecondsPerDay)
    BY NumbersOfTheSchema
  <2> QED BY <2>1, NumbersFit
<1> QED BY <1>1, <1>2, <1>3, <1>4, <1>5, <1>6, <1>7

(* ... and the one with an object *)
LEMMA ObjectTaken ==
    ASSUME NEW v
    PROVE  Fits(BusinessJobParameters["i18n"], v) <=> v.kind = "map"
<1>1. BusinessJobParameters["i18n"] = AnObject
  BY NumbersOfTheSchema
<1> QED BY <1>1, ObjectsFit

(* What a document that conforms to the schema has, of what is checked *)
LEMMA ConformsMeans ==
    ASSUME NEW d, Conforms(d)
    PROVE  /\ \A f \in {"interval_hours", "interval_minutes"} : ~Present(d, f)
           /\ TextValue(d["target_type"]) \in
                  {"business_action", "http", "report_snapshot_refresh", "workflow"}
           /\ \A f \in {"max_attempts", "timeout_seconds"} : Present(d, f)
           /\ InRange(d["max_attempts"], 1, 100) /\ InRange(d["timeout_seconds"], 1, SecondsPerDay)
           /\ TextValue(d["missed_window_policy"]) \in
                  {Empty, "catch_up_bounded", "catch_up_one", "skip"}
           /\ d["i18n"].kind \in {"absent", "map"}
           /\ TextValue(d["schedule_type"]) \in ScheduleTypes
           /\ TextValue(d["non_working_day_policy"]) \in {Empty, "roll_forward", "skip"}
           /\ TextValue(d["status"]) \in {"archived", "disabled", "draft", "enabled", "paused"}
<1> DEFINE B == BusinessJobParameters
<1>1. \A f \in Fields : Present(d, f) => f \in DOMAIN B /\ Fits(B[f], d[f])
  BY DEF Conforms
<1>2. \A f \in {"status", "schedule_type", "target_type", "max_attempts", "timeout_seconds"} :
          Present(d, f)
  BY DEF Conforms, RequiredParameters
<1>3. DOMAIN B \subseteq Fields /\ {"interval_hours", "interval_minutes"} \subseteq Fields
  BY CatalogAssumption
<1>4. {"status", "schedule_type", "target_type", "max_attempts", "timeout_seconds", "i18n",
       "missed_window_policy", "non_working_day_policy"} \subseteq DOMAIN B
      /\ "interval_hours" \notin DOMAIN B /\ "interval_minutes" \notin DOMAIN B
  BY SchemaFields
<1>5. \A f \in {"status", "schedule_type", "target_type", "max_attempts", "timeout_seconds"} :
          Fits(B[f], d[f])
  BY <1>1, <1>2, <1>3, <1>4
<1>6. \A f \in {"i18n", "missed_window_policy", "non_working_day_policy"} :
          Present(d, f) => Fits(B[f], d[f])
  BY <1>1, <1>3, <1>4
<1>7. \A f \in {"interval_hours", "interval_minutes"} : ~Present(d, f)
  BY <1>1, <1>3, <1>4
<1> HIDE DEF B
<1>8. TextValue(d["target_type"]) \in {"business_action", "http", "report_snapshot_refresh",
            "workflow"}
  <2>1. d["target_type"].kind = "string" /\ d["target_type"].text \in
              {"business_action", "http", "report_snapshot_refresh", "workflow"}
    BY <1>5, ChoicesTaken DEF B
  <2> QED BY <2>1 DEF TextValue
<1>9. TextValue(d["schedule_type"]) \in ScheduleTypes
  <2>1. ScheduleTypes # {}
    BY DEF ScheduleTypes
  <2>2. d["schedule_type"].kind = "string" /\ d["schedule_type"].text \in ScheduleTypes
    BY <1>5, <2>1, ChoicesTaken DEF B
  <2> QED BY <2>2 DEF TextValue
<1>10. TextValue(d["status"]) \in {"archived", "disabled", "draft", "enabled", "paused"}
  <2>1. d["status"].kind = "string" /\ d["status"].text \in
              {"archived", "disabled", "draft", "enabled", "paused"}
    BY <1>5, ChoicesTaken DEF B
  <2> QED BY <2>1 DEF TextValue
<1>11. InRange(d["max_attempts"], 1, 100) /\ InRange(d["timeout_seconds"], 1, SecondsPerDay)
  <2>1. StrictInteger(d["max_attempts"]) /\ d["max_attempts"].n \in 1..100
    BY <1>5, NumbersTaken DEF B
  <2>2. StrictInteger(d["timeout_seconds"]) /\ d["timeout_seconds"].n \in 1..SecondsPerDay
    BY <1>5, NumbersTaken DEF B
  <2> QED BY <2>1, <2>2 DEF InRange
<1>12. d["i18n"].kind \in {"absent", "map"}
  BY <1>6, ObjectTaken DEF B, Present
<1>13. TextValue(d["missed_window_policy"]) \in {Empty, "catch_up_bounded", "catch_up_one", "skip"}
  <2>1. Present(d, "missed_window_policy") => d["missed_window_policy"].kind = "string"
              /\ d["missed_window_policy"].text \in {"catch_up_bounded", "catch_up_one", "skip"}
    BY <1>6, ChoicesTaken DEF B
  <2> QED BY <2>1 DEF TextValue, Present
<1>14. TextValue(d["non_working_day_policy"]) \in {Empty, "roll_forward", "skip"}
  <2>1. Present(d, "non_working_day_policy")
              => d["non_working_day_policy"].kind = "string"
                    /\ d["non_working_day_policy"].text \in {"roll_forward", "skip"}
    BY <1>6, ChoicesTaken DEF B
  <2> QED BY <2>1 DEF TextValue, Present
<1> QED BY <1>2, <1>7, <1>8, <1>9, <1>10, <1>11, <1>12, <1>13, <1>14

(* No choice is the empty text. *)
LEMMA NoChoiceIsEmpty ==
    /\ Empty \notin {"business_action", "http", "report_snapshot_refresh", "workflow"}
    /\ Empty \notin {"interval", "daily_at", "weekly_at", "monthly_at", "cron"}
    /\ Empty \notin {"catch_up_bounded", "catch_up_one", "skip", "roll_forward"}
    /\ Empty \notin {"archived", "disabled", "draft", "enabled", "paused"}
BY Zenon DEF Empty

(* The fields the checks name are fields. *)
LEMMA FieldsAre ==
    {"key", "name", "schedule_expression", "time_of_day", "timezone", "business_calendar_key",
     "target_key", "target_object", "connection_key", "payload_json", "run_as_role", "next_run_at",
     "status", "schedule_type", "day_of_week", "missed_window_policy", "non_working_day_policy",
     "target_type", "day_of_month", "interval_seconds", "max_catchup_windows", "max_attempts",
     "retry_delay_seconds", "retry_max_delay_seconds", "timeout_seconds", "i18n",
     "interval_hours", "interval_minutes"} \subseteq Fields
BY CatalogAssumption, SchemaFields

(* The checks of what the schema has no part in *)
LEMMA PlainChecks ==
    /\ \A f \in Fields : PlainCheck(f, "field_not_applicable")
    /\ PlainCheck("target_key", "target_key_required")
    /\ PlainCheck("target_key", "workflow_target_invalid")
    /\ PlainCheck("target_key", "report_target_invalid")
    /\ PlainCheck("target_object", "business_action_object_required")
    /\ PlainCheck("run_as_role", "business_action_role_required")
    /\ PlainCheck("payload_json", "payload_invalid")
    /\ PlainCheck("connection_key", "http_connection_required")
    /\ PlainCheck("retry_delay_seconds", "retry_policy_invalid")
    /\ PlainCheck("max_catchup_windows", "max_catchup_windows_invalid")
    /\ PlainCheck("next_run_at", "next_run_at_invalid")
    /\ PlainCheck("timezone", "timezone_invalid")
    /\ PlainCheck("interval_seconds", "interval_invalid")
    /\ PlainCheck("time_of_day", "time_of_day_invalid")
    /\ PlainCheck("day_of_week", "day_of_week_invalid")
    /\ PlainCheck("day_of_month", "day_of_month_invalid")
    /\ PlainCheck("schedule_expression", "cron_invalid")
    /\ PlainCheck("timezone", "business_calendar_timezone_required")
    /\ PlainCheck("key", "key_required")
    /\ PlainCheck("name", "name_required")
<1>1. \A f \in Fields : PlainCheck(f, "field_not_applicable")
  BY DEF PlainCheck, PublishedFor, SchemaCodes
<1>2. PlainCheck("target_key", "target_key_required")
  BY FieldsAre DEF PlainCheck, PublishedFor, SchemaCodes, Unpublished
<1>3. PlainCheck("target_key", "workflow_target_invalid")
  BY FieldsAre DEF PlainCheck, PublishedFor, SchemaCodes, Unpublished
<1>4. PlainCheck("target_key", "report_target_invalid")
  BY FieldsAre DEF PlainCheck, PublishedFor, SchemaCodes, Unpublished
<1>5. PlainCheck("target_object", "business_action_object_required")
  BY FieldsAre DEF PlainCheck, PublishedFor, SchemaCodes, Unpublished
<1>6. PlainCheck("run_as_role", "business_action_role_required")
  BY FieldsAre DEF PlainCheck, PublishedFor, SchemaCodes, Unpublished
<1>7. PlainCheck("payload_json", "payload_invalid")
  BY FieldsAre DEF PlainCheck, PublishedFor, SchemaCodes, Unpublished
<1>8. PlainCheck("connection_key", "http_connection_required")
  BY FieldsAre DEF PlainCheck, PublishedFor, SchemaCodes, Unpublished
<1>9. PlainCheck("retry_delay_seconds", "retry_policy_invalid")
  BY FieldsAre DEF PlainCheck, PublishedFor, SchemaCodes, Unpublished
<1>10. PlainCheck("max_catchup_windows", "max_catchup_windows_invalid")
  BY FieldsAre DEF PlainCheck, PublishedFor, SchemaCodes, Unpublished
<1>11. PlainCheck("next_run_at", "next_run_at_invalid")
  BY FieldsAre DEF PlainCheck, PublishedFor, SchemaCodes, Unpublished
<1>12. PlainCheck("timezone", "timezone_invalid")
  BY FieldsAre DEF PlainCheck, PublishedFor, SchemaCodes, Unpublished
<1>13. PlainCheck("interval_seconds", "interval_invalid")
  BY FieldsAre DEF PlainCheck, PublishedFor, SchemaCodes, Unpublished
<1>14. PlainCheck("time_of_day", "time_of_day_invalid")
  BY FieldsAre DEF PlainCheck, PublishedFor, SchemaCodes, Unpublished
<1>15. PlainCheck("day_of_week", "day_of_week_invalid")
  BY FieldsAre DEF PlainCheck, PublishedFor, SchemaCodes, Unpublished
<1>16. PlainCheck("day_of_month", "day_of_month_invalid")
  BY FieldsAre DEF PlainCheck, PublishedFor, SchemaCodes, Unpublished
<1>17. PlainCheck("schedule_expression", "cron_invalid")
  BY FieldsAre DEF PlainCheck, PublishedFor, SchemaCodes, Unpublished
<1>18. PlainCheck("timezone", "business_calendar_timezone_required")
  BY FieldsAre DEF PlainCheck, PublishedFor, SchemaCodes, Unpublished
<1>19. PlainCheck("key", "key_required")
  BY FieldsAre DEF PlainCheck, PublishedFor, SchemaCodes, Unpublished
<1>20. PlainCheck("name", "name_required")
  BY FieldsAre DEF PlainCheck, PublishedFor, SchemaCodes, Unpublished
<1> QED BY <1>1, <1>2, <1>3, <1>4, <1>5, <1>6, <1>7, <1>8, <1>9, <1>10, <1>11, <1>12, <1>13, <1>14, <1>15, <1>16, <1>17, <1>18, <1>19, <1>20

(* Fields that do not apply are absent from a document that passes. *)
LEMMA NotApplicableAccepted ==
    ASSUME NEW d, NEW when \in BOOLEAN, NEW fields \in Seq(Fields)
    PROVE  LET s == NotApplicable(d, when, fields)
           IN  Sound(d, s) /\ (Passes(s) <=> (when => \A f \in Range(fields) : ~Present(d, f)))
<1> DEFINE s == NotApplicable(d, when, fields)
           P(f) == Check(f, "field_not_applicable", when /\ Present(d, f))
<1>1. s = [i \in DOMAIN fields |-> P(fields[i])]
  BY DEF NotApplicable
<1>2. \A f \in Fields : (P(f).fails <=> when /\ Present(d, f)) /\ Described(d, P(f))
  <2> TAKE f \in Fields
  <2>1. P(f).fails <=> when /\ Present(d, f)
    BY DEF Check
  <2>2. Described(d, P(f))
    BY PlainChecks, DescribedPlain
  <2> QED BY <2>1, <2>2
<1> HIDE DEF P
<1>3. Len(fields) \in Nat /\ DOMAIN fields = 1..Len(fields)
      /\ \A i \in DOMAIN fields : fields[i] \in Fields
  OBVIOUS
<1>4. s \in Seq(Range(s))
  BY <1>1, <1>3 DEF Range
<1>5. Range(s) = {P(f) : f \in Range(fields)} /\ Range(fields) \subseteq Fields
  BY <1>1, <1>3 DEF Range
<1> HIDE DEF s
<1> QED BY <1>2, <1>4, <1>5 DEF s, Sound, Passes

(* What the checks of the target let pass *)
GoodTarget(d) ==
    LET type == TextValue(d["target_type"])
        key == TextValue(d["target_key"])
        Missing(field) == TextValue(d[field]) = Empty
    IN  /\ type \in {"business_action", "workflow", "report_snapshot_refresh", "http"}
        /\ key # Empty
        /\ type = "workflow" => key = "scheduled"
        /\ type = "report_snapshot_refresh" => key # "scheduled"
        /\ type = "business_action" =>
               /\ ~Missing("target_object") /\ ~Missing("run_as_role")
               /\ ~PayloadRefused(d, {"object"}) /\ ~Present(d, "connection_key")
        /\ type = "http" =>
               /\ ~Missing("connection_key") /\ ~PayloadRefused(d, {"object", "array"})
               /\ ~Present(d, "target_object") /\ ~Present(d, "run_as_role")
        /\ type \in {"workflow", "report_snapshot_refresh"} =>
               \A f \in {"target_object", "run_as_role", "connection_key", "payload_json"} :
                   ~Present(d, f)

(* The checks of the target pass for a good target and no other. *)
LEMMA TargetsAccepted ==
    ASSUME NEW d
    PROVE  Sound(d, TargetChecks(d)) /\ (Passes(TargetChecks(d)) <=> GoodTarget(d))
<1> DEFINE type == TextValue(d["target_type"])
           key == TextValue(d["target_key"])
           Missing(field) == TextValue(d[field]) = Empty
           e1 == Check("target_type", "target_type_required", type = Empty)
           e2 == Check("target_type", "target_type_unsupported",
                       type \notin {"business_action", "workflow", "report_snapshot_refresh",
                             "http"})
           e3 == Check("target_key", "target_key_required", key = Empty)
           e4 == Check("target_key", "workflow_target_invalid",
                       type = "workflow" /\ key # "scheduled")
           e5 == Check("target_key", "report_target_invalid",
                       type = "report_snapshot_refresh" /\ key = "scheduled")
           e6 == Check("target_object", "business_action_object_required",
                       type = "business_action" /\ Missing("target_object"))
           e7 == Check("run_as_role", "business_action_role_required",
                       type = "business_action" /\ Missing("run_as_role"))
           e8 == Check("payload_json", "payload_invalid",
                       type = "business_action" /\ PayloadRefused(d, {"object"}))
           s1 == <<e1, e2, e3, e4, e5, e6, e7, e8>>
           s2 == NotApplicable(d, type = "business_action", <<"connection_key">>)
           e9 == Check("connection_key", "http_connection_required",
                       type = "http" /\ Missing("connection_key"))
           s3 == <<e9>>
           s4 == NotApplicable(d, type = "http", <<"target_object", "run_as_role">>)
           e10 == Check("payload_json", "payload_invalid",
                       type = "http" /\ PayloadRefused(d, {"object", "array"}))
           s5 == <<e10>>
           s6 == NotApplicable(d, type \in {"workflow", "report_snapshot_refresh"},
                               <<"target_object", "run_as_role", "connection_key", "payload_json">>)
<1>1. TargetChecks(d) = s1 \o s2 \o s3 \o s4 \o s5 \o s6
  BY DEF TargetChecks
<1>2. Sound(d, s1) /\ (Passes(s1) <=>
         /\ ~e1.fails
         /\ ~e2.fails
         /\ ~e3.fails
         /\ ~e4.fails
         /\ ~e5.fails
         /\ ~e6.fails
         /\ ~e7.fails
         /\ ~e8.fails)
  <2>1. Described(d, e1)
    BY ConformsMeans, DescribedBySchema, NoChoiceIsEmpty, FieldsAre DEF PublishedFor, Unpublished
  <2>2. Described(d, e2)
    BY ConformsMeans, DescribedBySchema, FieldsAre DEF PublishedFor, Unpublished
  <2>3. Described(d, e3)
    BY PlainChecks, DescribedPlain, FieldsAre
  <2>4. Described(d, e4)
    BY PlainChecks, DescribedPlain, FieldsAre
  <2>5. Described(d, e5)
    BY PlainChecks, DescribedPlain, FieldsAre
  <2>6. Described(d, e6)
    BY PlainChecks, DescribedPlain, FieldsAre
  <2>7. Described(d, e7)
    BY PlainChecks, DescribedPlain, FieldsAre
  <2>8. Described(d, e8)
    BY PlainChecks, DescribedPlain, FieldsAre
  <2> HIDE DEF e1, e2, e3, e4, e5, e6, e7, e8
  <2>9. s1 \in Seq(Range(s1)) /\ Range(s1) = {e1, e2, e3, e4, e5, e6, e7, e8}
    BY Eight
  <2> HIDE DEF s1
  <2> QED BY <2>1, <2>2, <2>3, <2>4, <2>5, <2>6, <2>7, <2>8, <2>9 DEF Sound, Passes
<1>3. Sound(d, s3) /\ (Passes(s3) <=> /\ ~e9.fails)
  <2>1. Described(d, e9)
    BY PlainChecks, DescribedPlain, FieldsAre
  <2> HIDE DEF e9
  <2>2. s3 \in Seq(Range(s3)) /\ Range(s3) = {e9}
    BY One
  <2> HIDE DEF s3
  <2> QED BY <2>1, <2>2 DEF Sound, Passes
<1>4. Sound(d, s5) /\ (Passes(s5) <=> /\ ~e10.fails)
  <2>1. Described(d, e10)
    BY PlainChecks, DescribedPlain, FieldsAre
  <2> HIDE DEF e10
  <2>2. s5 \in Seq(Range(s5)) /\ Range(s5) = {e10}
    BY One
  <2> HIDE DEF s5
  <2> QED BY <2>1, <2>2 DEF Sound, Passes
<1>5. /\ e1.fails <=> (type = Empty)
      /\ e2.fails <=> (type \notin {"business_action", "workflow", "report_snapshot_refresh",
               "http"})
      /\ e3.fails <=> (key = Empty)
      /\ e4.fails <=> (type = "workflow" /\ key # "scheduled")
      /\ e5.fails <=> (type = "report_snapshot_refresh" /\ key = "scheduled")
      /\ e6.fails <=> (type = "business_action" /\ Missing("target_object"))
      /\ e7.fails <=> (type = "business_action" /\ Missing("run_as_role"))
      /\ e8.fails <=> (type = "business_action" /\ PayloadRefused(d, {"object"}))
      /\ e9.fails <=> (type = "http" /\ Missing("connection_key"))
      /\ e10.fails <=> (type = "http" /\ PayloadRefused(d, {"object", "array"}))
  BY DEF Check
<1> HIDE DEF e1, e2, e3, e4, e5, e6, e7, e8, e9, e10
<1>6. Sound(d, s2) /\ (Passes(s2) <=> (type = "business_action" =>
               \A f \in {"connection_key"} : ~Present(d, f)))
  <2>1. <<"connection_key">> \in Seq(Fields) /\ Range(<<"connection_key">>) = {"connection_key"}
    BY FieldsAre DEF Range
  <2> QED BY <2>1, NotApplicableAccepted
<1>7. Sound(d, s4) /\ (Passes(s4) <=> (type = "http" =>
               \A f \in {"target_object", "run_as_role"} : ~Present(d, f)))
  <2>1. <<"target_object", "run_as_role">> \in Seq(Fields)
              /\ Range(<<"target_object", "run_as_role">>) = {"target_object", "run_as_role"}
    BY FieldsAre DEF Range
  <2> QED BY <2>1, NotApplicableAccepted
<1>8. Sound(d, s6) /\ (Passes(s6) <=> (type \in {"workflow", "report_snapshot_refresh"} =>
               \A f \in {"target_object", "run_as_role", "connection_key", "payload_json"} :
                     ~Present(d, f)))
  <2> DEFINE fields == <<"target_object", "run_as_role", "connection_key", "payload_json">>
             when == type \in {"workflow", "report_snapshot_refresh"}
  <2>1. fields \in Seq(Fields) /\ Range(fields) = {"target_object", "run_as_role",
              "connection_key", "payload_json"}
    BY FieldsAre DEF Range
  <2>2. when \in BOOLEAN
    OBVIOUS
  <2> HIDE DEF fields, when
  <2>3. Sound(d, NotApplicable(d, when, fields))
        /\ (Passes(NotApplicable(d, when, fields))
                 <=> (when => \A f \in Range(fields) : ~Present(d, f)))
    BY <2>1, <2>2, NotApplicableAccepted
  <2> QED BY <2>1, <2>3 DEF fields, when
<1> HIDE DEF s1, s2, s3, s4, s5, s6
<1>9. Sound(d, s1 \o s2)
      /\ (Passes(s1 \o s2) <=> Passes(s1) /\ Passes(s2))
  BY <1>2, <1>6, Concatenated
<1>10. Sound(d, s1 \o s2 \o s3)
       /\ (Passes(s1 \o s2 \o s3) <=> Passes(s1) /\ Passes(s2) /\ Passes(s3))
  BY <1>9, <1>3, Concatenated
<1>11. Sound(d, s1 \o s2 \o s3 \o s4)
       /\ (Passes(s1 \o s2 \o s3 \o s4) <=> Passes(s1) /\ Passes(s2) /\ Passes(s3) /\ Passes(s4))
  BY <1>10, <1>7, Concatenated
<1>12. Sound(d, s1 \o s2 \o s3 \o s4 \o s5)
       /\ (Passes(s1 \o s2 \o s3 \o s4 \o s5)
                <=> Passes(s1) /\ Passes(s2) /\ Passes(s3) /\ Passes(s4) /\ Passes(s5))
  BY <1>11, <1>4, Concatenated
<1>13. Sound(d, s1 \o s2 \o s3 \o s4 \o s5 \o s6)
       /\ (Passes(s1 \o s2 \o s3 \o s4 \o s5 \o s6)
                <=> Passes(s1) /\ Passes(s2) /\ Passes(s3) /\ Passes(s4) /\ Passes(s5)
                      /\ Passes(s6))
  BY <1>12, <1>8, Concatenated
<1> QED BY <1>1, <1>2, <1>3, <1>4, <1>5, <1>6, <1>7, <1>8, <1>13, NoChoiceIsEmpty DEF GoodTarget

(* What the checks of retries and lateness let pass *)
GoodPolicy(d) ==
    LET missed == MissedWindowPolicy(d)
        delay == OptionalInteger(d["retry_delay_seconds"], 30)
        longest == OptionalInteger(d["retry_max_delay_seconds"], 900)
    IN  /\ Present(d, "max_attempts") /\ InRange(d["max_attempts"], 1, 100)
        /\ Present(d, "timeout_seconds") /\ InRange(d["timeout_seconds"], 1, SecondsPerDay)
        /\ StrictInteger(delay) /\ StrictInteger(longest)
        /\ ~(delay.n < 0) /\ ~(longest.n < 0) /\ (longest.n > 0 => ~(longest.n < delay.n))
        /\ missed = "catch_up_bounded" => InRange(d["max_catchup_windows"], 1, 100)
        /\ missed # "catch_up_bounded" => ~Present(d, "max_catchup_windows")
        /\ missed = "skip" => TextValue(d["missed_window_policy"]) \in {Empty, "skip"}
        /\ TextValue(d["next_run_at"]) \in {Empty, "instant"}
        /\ d["i18n"].kind \in {"absent", "map"}

(* The checks of retries and lateness pass for a good policy and no other. *)
LEMMA PoliciesAccepted ==
    ASSUME NEW d
    PROVE  Sound(d, PolicyChecks(d)) /\ (Passes(PolicyChecks(d)) <=> GoodPolicy(d))
<1> DEFINE missed == MissedWindowPolicy(d)
           delay == OptionalInteger(d["retry_delay_seconds"], 30)
           longest == OptionalInteger(d["retry_max_delay_seconds"], 900)
           refused == \/ ~StrictInteger(delay) \/ ~StrictInteger(longest)
                      \/ delay.n < 0 \/ longest.n < 0
                      \/ longest.n > 0 /\ longest.n < delay.n
           e1 == Check("max_attempts", "max_attempts_required", ~Present(d, "max_attempts"))
           e2 == Check("max_attempts", "max_attempts_invalid",
                       ~InRange(d["max_attempts"], 1, 100))
           e3 == Check("timeout_seconds", "timeout_required", ~Present(d, "timeout_seconds"))
           e4 == Check("timeout_seconds", "timeout_invalid",
                       ~InRange(d["timeout_seconds"], 1, SecondsPerDay))
           e5 == Check("retry_delay_seconds", "retry_policy_invalid", refused)
           e6 == Check("max_catchup_windows", "max_catchup_windows_invalid",
                       missed = "catch_up_bounded" /\ ~InRange(d["max_catchup_windows"], 1, 100))
           s1 == <<e1, e2, e3, e4, e5, e6>>
           s2 == NotApplicable(d, missed # "catch_up_bounded", <<"max_catchup_windows">>)
           e7 == Check("missed_window_policy", "missed_window_policy_invalid",
                       missed = "skip" /\ TextValue(d["missed_window_policy"]) \notin {Empty,
                             "skip"})
           e8 == Check("next_run_at", "next_run_at_invalid",
                       TextValue(d["next_run_at"]) \notin {Empty, "instant"})
           e9 == Check("i18n", "i18n_invalid", d["i18n"].kind \notin {"absent", "map"})
           s3 == <<e7, e8, e9>>
<1>1. PolicyChecks(d) = s1 \o s2 \o s3
  BY DEF PolicyChecks
<1>2. Sound(d, s1) /\ (Passes(s1) <=>
         /\ ~e1.fails
         /\ ~e2.fails
         /\ ~e3.fails
         /\ ~e4.fails
         /\ ~e5.fails
         /\ ~e6.fails)
  <2>1. Described(d, e1)
    BY ConformsMeans, DescribedBySchema, FieldsAre DEF PublishedFor, Unpublished
  <2>2. Described(d, e2)
    BY ConformsMeans, DescribedBySchema, FieldsAre DEF PublishedFor, Unpublished
  <2>3. Described(d, e3)
    BY ConformsMeans, DescribedBySchema, FieldsAre DEF PublishedFor, Unpublished
  <2>4. Described(d, e4)
    BY ConformsMeans, DescribedBySchema, FieldsAre DEF PublishedFor, Unpublished
  <2>5. Described(d, e5)
    BY PlainChecks, DescribedPlain, FieldsAre
  <2>6. Described(d, e6)
    BY PlainChecks, DescribedPlain, FieldsAre
  <2> HIDE DEF e1, e2, e3, e4, e5, e6
  <2>7. s1 \in Seq(Range(s1)) /\ Range(s1) = {e1, e2, e3, e4, e5, e6}
    BY Six
  <2> HIDE DEF s1
  <2> QED BY <2>1, <2>2, <2>3, <2>4, <2>5, <2>6, <2>7 DEF Sound, Passes
<1>3. Sound(d, s3) /\ (Passes(s3) <=> /\ ~e7.fails
                                         /\ ~e8.fails
                                         /\ ~e9.fails)
  <2>1. Described(d, e7)
    BY ConformsMeans, DescribedBySchema, FieldsAre DEF PublishedFor, Unpublished, MissedWindowPolicy
  <2>2. Described(d, e8)
    BY PlainChecks, DescribedPlain, FieldsAre
  <2>3. Described(d, e9)
    BY ConformsMeans, DescribedBySchema, FieldsAre DEF PublishedFor, Unpublished
  <2> HIDE DEF e7, e8, e9
  <2>4. s3 \in Seq(Range(s3)) /\ Range(s3) = {e7, e8, e9}
    BY Three
  <2> HIDE DEF s3
  <2> QED BY <2>1, <2>2, <2>3, <2>4 DEF Sound, Passes
<1>4. /\ e1.fails <=> (~Present(d, "max_attempts"))
      /\ e2.fails <=> (~InRange(d["max_attempts"], 1, 100))
      /\ e3.fails <=> (~Present(d, "timeout_seconds"))
      /\ e4.fails <=> (~InRange(d["timeout_seconds"], 1, SecondsPerDay))
      /\ e5.fails <=> refused
      /\ e6.fails <=> (missed = "catch_up_bounded" /\ ~InRange(d["max_catchup_windows"], 1, 100))
      /\ e7.fails <=> (missed = "skip" /\ TextValue(d["missed_window_policy"]) \notin {Empty,
               "skip"})
      /\ e8.fails <=> (TextValue(d["next_run_at"]) \notin {Empty, "instant"})
      /\ e9.fails <=> (d["i18n"].kind \notin {"absent", "map"})
  <2> HIDE DEF refused
  <2> QED BY DEF Check
<1> HIDE DEF e1, e2, e3, e4, e5, e6, e7, e8, e9
<1>5. Sound(d, s2) /\ (Passes(s2) <=> (missed # "catch_up_bounded" =>
               \A f \in {"max_catchup_windows"} : ~Present(d, f)))
  <2>1. <<"max_catchup_windows">> \in Seq(Fields)
              /\ Range(<<"max_catchup_windows">>) = {"max_catchup_windows"}
    BY FieldsAre DEF Range
  <2> QED BY <2>1, NotApplicableAccepted
<1> HIDE DEF s1, s2, s3
<1>6. Sound(d, s1 \o s2)
      /\ (Passes(s1 \o s2) <=> Passes(s1) /\ Passes(s2))
  BY <1>2, <1>5, Concatenated
<1>7. Sound(d, s1 \o s2 \o s3)
      /\ (Passes(s1 \o s2 \o s3) <=> Passes(s1) /\ Passes(s2) /\ Passes(s3))
  BY <1>6, <1>3, Concatenated
<1>8. Sound(d, PolicyChecks(d)) /\ (Passes(PolicyChecks(d)) <=>
         /\ ~e1.fails
         /\ ~e2.fails
         /\ ~e3.fails
         /\ ~e4.fails
         /\ ~e5.fails
         /\ ~e6.fails
         /\ ~e7.fails
         /\ ~e8.fails
         /\ ~e9.fails
         /\ (missed # "catch_up_bounded" => \A f \in {"max_catchup_windows"} : ~Present(d, f)))
  BY <1>1, <1>2, <1>3, <1>5, <1>7
<1> QED BY <1>8, <1>4 DEF GoodPolicy

(* What the checks of the schedule let pass *)
GoodSchedule(d) ==
    LET type == TextValue(d["schedule_type"])
        calendar == TextValue(d["business_calendar_key"])
        policy == TextValue(d["non_working_day_policy"])
        zone == TextValue(d["timezone"])
    IN  /\ zone # Empty => IsZone(zone)
        /\ type \in ScheduleTypes
        /\ type = "interval" => StrictInteger(d["interval_seconds"])
                 /\ ~(d["interval_seconds"].n <= 0)
        /\ type \in {"daily_at", "weekly_at", "monthly_at"} => IsClock(TextValue(d["time_of_day"]))
        /\ type = "weekly_at" => IsWeekday(TextValue(d["day_of_week"]))
        /\ type = "monthly_at" => InRange(d["day_of_month"], 1, 31)
        /\ type = "cron" => IsCron(TextValue(d["schedule_expression"]))
        /\ \A f \in {"schedule_expression", "interval_seconds", "time_of_day", "day_of_week",
                 "day_of_month"} : f \notin ReadBy(type) => ~Present(d, f)
        /\ calendar = Empty => policy = Empty
        /\ calendar # Empty =>
               type # "interval" /\ zone # Empty /\ policy \in {Empty, "skip", "roll_forward"}

(* The checks of the schedule pass for a good schedule and no other. *)
LEMMA SchedulesAccepted ==
    ASSUME NEW d
    PROVE  Sound(d, ScheduleChecks(d)) /\ (Passes(ScheduleChecks(d)) <=> GoodSchedule(d))
<1> DEFINE type == TextValue(d["schedule_type"])
           calendar == TextValue(d["business_calendar_key"])
           policy == TextValue(d["non_working_day_policy"])
           zone == TextValue(d["timezone"])
           e1 == Check("timezone", "timezone_invalid", zone # Empty /\ ~IsZone(zone))
           e2 == Check("schedule_type", "schedule_type_required", type = Empty)
           e3 == Check("schedule_type", "schedule_type_invalid", type \notin ScheduleTypes)
           e4 == Check("interval_seconds", "interval_invalid",
                       /\ type = "interval"
                       /\ ~StrictInteger(d["interval_seconds"]) \/ d["interval_seconds"].n <= 0)
           e5 == Check("time_of_day", "time_of_day_invalid",
                       /\ type \in {"daily_at", "weekly_at", "monthly_at"}
                       /\ ~IsClock(TextValue(d["time_of_day"])))
           e6 == Check("day_of_week", "day_of_week_invalid",
                       type = "weekly_at" /\ ~IsWeekday(TextValue(d["day_of_week"])))
           e7 == Check("day_of_month", "day_of_month_invalid",
                       type = "monthly_at" /\ ~InRange(d["day_of_month"], 1, 31))
           e8 == Check("schedule_expression", "cron_invalid",
                       type = "cron" /\ ~IsCron(TextValue(d["schedule_expression"])))
           s1 == <<e1, e2, e3, e4, e5, e6, e7, e8>>
           e9 == Check("schedule_expression", "field_not_applicable",
                       "schedule_expression" \notin ReadBy(type)
                             /\ Present(d, "schedule_expression"))
           e10 == Check("interval_seconds", "field_not_applicable",
                       "interval_seconds" \notin ReadBy(type) /\ Present(d, "interval_seconds"))
           e11 == Check("time_of_day", "field_not_applicable",
                       "time_of_day" \notin ReadBy(type) /\ Present(d, "time_of_day"))
           e12 == Check("day_of_week", "field_not_applicable",
                       "day_of_week" \notin ReadBy(type) /\ Present(d, "day_of_week"))
           e13 == Check("day_of_month", "field_not_applicable",
                       "day_of_month" \notin ReadBy(type) /\ Present(d, "day_of_month"))
           s2 == <<e9, e10, e11, e12, e13>>
           e14 == Check("non_working_day_policy", "field_not_applicable",
                       calendar = Empty /\ policy # Empty)
           e15 == Check("business_calendar_key", "field_not_applicable",
                       calendar # Empty /\ type = "interval")
           e16 == Check("timezone", "business_calendar_timezone_required",
                       calendar # Empty /\ zone = Empty)
           e17 == Check("non_working_day_policy", "non_working_day_policy_invalid",
                       calendar # Empty /\ policy \notin {Empty, "skip", "roll_forward"})
           s3 == <<e14, e15, e16, e17>>
<1>1. ScheduleChecks(d) = s1 \o s2 \o s3
  <2>1. [i \in DOMAIN ScheduleFields |->
            Check(ScheduleFields[i], "field_not_applicable",
                  ScheduleFields[i] \notin ReadBy(type) /\ Present(d, ScheduleFields[i]))] = s2
    BY DEF ScheduleFields
  <2> QED BY <2>1 DEF ScheduleChecks
<1>2. Sound(d, s1) /\ (Passes(s1) <=>
         /\ ~e1.fails
         /\ ~e2.fails
         /\ ~e3.fails
         /\ ~e4.fails
         /\ ~e5.fails
         /\ ~e6.fails
         /\ ~e7.fails
         /\ ~e8.fails)
  <2>1. Described(d, e1)
    BY PlainChecks, DescribedPlain, FieldsAre
  <2>2. Described(d, e2)
    BY ConformsMeans, DescribedBySchema, NoChoiceIsEmpty, FieldsAre DEF PublishedFor,
          Unpublished, ScheduleTypes
  <2>3. Described(d, e3)
    BY ConformsMeans, DescribedBySchema, FieldsAre DEF PublishedFor, Unpublished
  <2>4. Described(d, e4)
    BY PlainChecks, DescribedPlain, FieldsAre
  <2>5. Described(d, e5)
    BY PlainChecks, DescribedPlain, FieldsAre
  <2>6. Described(d, e6)
    BY PlainChecks, DescribedPlain, FieldsAre
  <2>7. Described(d, e7)
    BY PlainChecks, DescribedPlain, FieldsAre
  <2>8. Described(d, e8)
    BY PlainChecks, DescribedPlain, FieldsAre
  <2> HIDE DEF e1, e2, e3, e4, e5, e6, e7, e8
  <2>9. s1 \in Seq(Range(s1)) /\ Range(s1) = {e1, e2, e3, e4, e5, e6, e7, e8}
    BY Eight
  <2> HIDE DEF s1
  <2> QED BY <2>1, <2>2, <2>3, <2>4, <2>5, <2>6, <2>7, <2>8, <2>9 DEF Sound, Passes
<1>3. Sound(d, s2) /\ (Passes(s2) <=> /\ ~e9.fails
                                         /\ ~e10.fails
                                         /\ ~e11.fails
                                         /\ ~e12.fails
                                         /\ ~e13.fails)
  <2>1. Described(d, e9)
    BY PlainChecks, DescribedPlain, FieldsAre
  <2>2. Described(d, e10)
    BY PlainChecks, DescribedPlain, FieldsAre
  <2>3. Described(d, e11)
    BY PlainChecks, DescribedPlain, FieldsAre
  <2>4. Described(d, e12)
    BY PlainChecks, DescribedPlain, FieldsAre
  <2>5. Described(d, e13)
    BY PlainChecks, DescribedPlain, FieldsAre
  <2> HIDE DEF e9, e10, e11, e12, e13
  <2>6. s2 \in Seq(Range(s2)) /\ Range(s2) = {e9, e10, e11, e12, e13}
    BY Five
  <2> HIDE DEF s2
  <2> QED BY <2>1, <2>2, <2>3, <2>4, <2>5, <2>6 DEF Sound, Passes
<1>4. Sound(d, s3) /\ (Passes(s3) <=> /\ ~e14.fails
                                         /\ ~e15.fails
                                         /\ ~e16.fails
                                         /\ ~e17.fails)
  <2>1. Described(d, e14)
    BY PlainChecks, DescribedPlain, FieldsAre
  <2>2. Described(d, e15)
    BY PlainChecks, DescribedPlain, FieldsAre
  <2>3. Described(d, e16)
    BY PlainChecks, DescribedPlain, FieldsAre
  <2>4. Described(d, e17)
    BY ConformsMeans, DescribedBySchema, FieldsAre DEF PublishedFor, Unpublished
  <2> HIDE DEF e14, e15, e16, e17
  <2>5. s3 \in Seq(Range(s3)) /\ Range(s3) = {e14, e15, e16, e17}
    BY Four
  <2> HIDE DEF s3
  <2> QED BY <2>1, <2>2, <2>3, <2>4, <2>5 DEF Sound, Passes
<1>5. /\ e1.fails <=> (zone # Empty /\ ~IsZone(zone))
      /\ e2.fails <=> (type = Empty)
      /\ e3.fails <=> (type \notin ScheduleTypes)
      /\ e4.fails <=> (/\ type = "interval"
                       /\ ~StrictInteger(d["interval_seconds"]) \/ d["interval_seconds"].n <= 0)
      /\ e5.fails <=> (/\ type \in {"daily_at", "weekly_at", "monthly_at"}
                       /\ ~IsClock(TextValue(d["time_of_day"])))
      /\ e6.fails <=> (type = "weekly_at" /\ ~IsWeekday(TextValue(d["day_of_week"])))
      /\ e7.fails <=> (type = "monthly_at" /\ ~InRange(d["day_of_month"], 1, 31))
      /\ e8.fails <=> (type = "cron" /\ ~IsCron(TextValue(d["schedule_expression"])))
      /\ e9.fails <=> ("schedule_expression" \notin ReadBy(type)
               /\ Present(d, "schedule_expression"))
      /\ e10.fails <=> ("interval_seconds" \notin ReadBy(type) /\ Present(d, "interval_seconds"))
      /\ e11.fails <=> ("time_of_day" \notin ReadBy(type) /\ Present(d, "time_of_day"))
      /\ e12.fails <=> ("day_of_week" \notin ReadBy(type) /\ Present(d, "day_of_week"))
      /\ e13.fails <=> ("day_of_month" \notin ReadBy(type) /\ Present(d, "day_of_month"))
      /\ e14.fails <=> (calendar = Empty /\ policy # Empty)
      /\ e15.fails <=> (calendar # Empty /\ type = "interval")
      /\ e16.fails <=> (calendar # Empty /\ zone = Empty)
      /\ e17.fails <=> (calendar # Empty /\ policy \notin {Empty, "skip", "roll_forward"})
  BY DEF Check
<1> HIDE DEF e1, e2, e3, e4, e5, e6, e7, e8, e9, e10, e11, e12, e13, e14, e15, e16, e17
<1> HIDE DEF s1, s2, s3
<1>6. Sound(d, s1 \o s2)
      /\ (Passes(s1 \o s2) <=> Passes(s1) /\ Passes(s2))
  BY <1>2, <1>3, Concatenated
<1>7. Sound(d, s1 \o s2 \o s3)
      /\ (Passes(s1 \o s2 \o s3) <=> Passes(s1) /\ Passes(s2) /\ Passes(s3))
  BY <1>6, <1>4, Concatenated
<1>8. Sound(d, ScheduleChecks(d)) /\ (Passes(ScheduleChecks(d)) <=>
         /\ ~e1.fails
         /\ ~e2.fails
         /\ ~e3.fails
         /\ ~e4.fails
         /\ ~e5.fails
         /\ ~e6.fails
         /\ ~e7.fails
         /\ ~e8.fails
         /\ ~e9.fails
         /\ ~e10.fails
         /\ ~e11.fails
         /\ ~e12.fails
         /\ ~e13.fails
         /\ ~e14.fails
         /\ ~e15.fails
         /\ ~e16.fails
         /\ ~e17.fails)
  BY <1>1, <1>2, <1>3, <1>4, <1>7
<1> QED BY <1>8, <1>5, NoChoiceIsEmpty DEF GoodSchedule, ScheduleTypes

(* What the checks of the identity let pass *)
GoodIdentity(d) ==
    /\ TextValue(d["key"]) # Empty /\ TextValue(d["name"]) # Empty
    /\ TextValue(d["status"]) \in {"archived", "disabled", "draft", "enabled", "paused"}

(* The checks of the identity pass for a good identity and no other. *)
LEMMA IdentitiesAccepted ==
    ASSUME NEW d
    PROVE  Sound(d, IdentityChecks(d)) /\ (Passes(IdentityChecks(d)) <=> GoodIdentity(d))
<1> DEFINE e1 == Check("key", "key_required", TextValue(d["key"]) = Empty)
           e2 == Check("name", "name_required", TextValue(d["name"]) = Empty)
           e3 == Check("status", "status_invalid",
                       TextValue(d["status"]) \notin
                                              {"archived", "disabled", "draft", "enabled",
                                                    "paused"})
           s1 == <<e1, e2, e3>>
<1>1. IdentityChecks(d) = s1
  BY DEF IdentityChecks
<1>2. Sound(d, s1) /\ (Passes(s1) <=>
         /\ ~e1.fails
         /\ ~e2.fails
         /\ ~e3.fails)
  <2>1. Described(d, e1)
    BY PlainChecks, DescribedPlain, FieldsAre
  <2>2. Described(d, e2)
    BY PlainChecks, DescribedPlain, FieldsAre
  <2>3. Described(d, e3)
    BY ConformsMeans, DescribedBySchema, FieldsAre DEF PublishedFor, Unpublished
  <2> HIDE DEF e1, e2, e3
  <2>4. s1 \in Seq(Range(s1)) /\ Range(s1) = {e1, e2, e3}
    BY Three
  <2> HIDE DEF s1
  <2> QED BY <2>1, <2>2, <2>3, <2>4 DEF Sound, Passes
<1>3. /\ e1.fails <=> (TextValue(d["key"]) = Empty)
      /\ e2.fails <=> (TextValue(d["name"]) = Empty)
      /\ e3.fails <=> (TextValue(d["status"]) \notin
                                              {"archived", "disabled", "draft", "enabled",
                                                    "paused"})
  BY DEF Check
<1> HIDE DEF e1, e2, e3
<1> QED BY <1>1, <1>2, <1>3 DEF GoodIdentity


(* The keys that are no fields are absent from a document that passes. *)
LEMMA UnsupportedRefused ==
    ASSUME NEW d
    PROVE  /\ Sound(d, UnsupportedFields(d))
           /\ Passes(UnsupportedFields(d)) <=>
                ~Present(d, "interval_hours") /\ ~Present(d, "interval_minutes")
<1> DEFINE e1 == Check("interval_hours", "field_unsupported", Present(d, "interval_hours"))
           e2 == Check("interval_minutes", "field_unsupported", Present(d, "interval_minutes"))
<1>1. UnsupportedFields(d) = <<e1, e2>>
  BY DEF UnsupportedFields, Unsupported
<1>2. Described(d, e1)
  BY ConformsMeans, DescribedBySchema, FieldsAre DEF PublishedFor, Present
<1>3. Described(d, e2)
  BY ConformsMeans, DescribedBySchema, FieldsAre DEF PublishedFor, Present
<1>4. /\ e1.fails <=> Present(d, "interval_hours")
      /\ e2.fails <=> Present(d, "interval_minutes")
  BY DEF Check, Present
<1> HIDE DEF e1, e2
<1>5. <<e1, e2>> \in Seq(Range(<<e1, e2>>)) /\ Range(<<e1, e2>>) = {e1, e2}
  BY DEF Range
<1> QED BY <1>1, <1>2, <1>3, <1>4, <1>5 DEF Sound, Passes

(* What validation accepts *)
Acceptable(d) ==
    /\ ~Present(d, "interval_hours") /\ ~Present(d, "interval_minutes")
    /\ GoodTarget(d) /\ GoodPolicy(d) /\ GoodSchedule(d) /\ GoodIdentity(d)

(* All checks pass for an acceptable document and for no other. *)
LEMMA ChecksAccepted ==
    ASSUME NEW d
    PROVE  Sound(d, Checks(d)) /\ (Passes(Checks(d)) <=> Acceptable(d))
<1> DEFINE s1 == UnsupportedFields(d)
           s2 == TargetChecks(d)
           s3 == PolicyChecks(d)
           s4 == ScheduleChecks(d)
           s5 == IdentityChecks(d)
<1>1. /\ Sound(d, s1) /\ Sound(d, s2) /\ Sound(d, s3) /\ Sound(d, s4) /\ Sound(d, s5)
      /\ Passes(s1) /\ Passes(s2) /\ Passes(s3) /\ Passes(s4) /\ Passes(s5) <=> Acceptable(d)
  BY UnsupportedRefused, TargetsAccepted, PoliciesAccepted, SchedulesAccepted, IdentitiesAccepted
     DEF Acceptable
<1>2. Checks(d) = s1 \o s2 \o s3 \o s4 \o s5
  BY DEF Checks
<1> HIDE DEF s1, s2, s3, s4, s5
<1>3. Sound(d, s1 \o s2) /\ (Passes(s1 \o s2) <=> Passes(s1) /\ Passes(s2))
  BY <1>1, Concatenated
<1>4. Sound(d, s1 \o s2 \o s3) /\ (Passes(s1 \o s2 \o s3) <=> Passes(s1 \o s2) /\ Passes(s3))
  BY <1>1, <1>3, Concatenated
<1>5. /\ Sound(d, s1 \o s2 \o s3 \o s4)
      /\ Passes(s1 \o s2 \o s3 \o s4) <=> Passes(s1 \o s2 \o s3) /\ Passes(s4)
  BY <1>1, <1>4, Concatenated
<1>6. /\ Sound(d, s1 \o s2 \o s3 \o s4 \o s5)
      /\ Passes(s1 \o s2 \o s3 \o s4 \o s5) <=> Passes(s1 \o s2 \o s3 \o s4) /\ Passes(s5)
  BY <1>1, <1>5, Concatenated
<1> QED BY <1>1, <1>2, <1>3, <1>4, <1>5, <1>6

(* A document is accepted when it is acceptable, and refused by a check that *)
(* fails and is described.                                                   *)
LEMMA TheVerdict ==
    ASSUME NEW d
    PROVE  \/ ValidateDefinitionData(d) = Valid /\ Acceptable(d)
           \/ /\ ValidateDefinitionData(d).fails /\ Described(d, ValidateDefinitionData(d))
              /\ ~Acceptable(d)
<1>1. Checks(d) \in Seq(Range(Checks(d))) /\ \A c \in Range(Checks(d)) : Described(d, c)
  BY ChecksAccepted DEF Sound
<1>2. CASE ValidateDefinitionData(d) = Valid /\ \A c \in Range(Checks(d)) : ~c.fails
  BY <1>2, ChecksAccepted DEF Passes
<1>3. CASE ValidateDefinitionData(d) \in Range(Checks(d)) /\ ValidateDefinitionData(d).fails
  BY <1>1, <1>3, ChecksAccepted DEF Passes
<1> QED BY <1>1, <1>2, <1>3, Verdicts

(* Neither "accepted" nor "unasked" is the answer to a failing check. *)
LEMMA ValidIsNoFailure ==
    ~Valid.fails /\ ~Unasked.fails /\ Valid # Unasked
<1>1. ~Valid.fails /\ ~Unasked.fails
  BY DEF Valid, Unasked, Check
<1>2. Valid.code = "accepted" /\ Unasked.code = "unasked"
  BY DEF Valid, Unasked, Check
<1> QED BY <1>1, <1>2

(* A document has a value for every field, and none for what is absent. *)
Document(d) ==
    \A f \in Fields : d[f].n \in Int /\ (d[f].kind = "absent" => d[f] = Absent)

(* What an absent field reads as *)
LEMMA AbsentReads ==
    /\ Absent.kind = "absent" /\ Absent.text = Empty /\ Absent.n = 0
    /\ TextValue(Absent) = Empty /\ IntRead(Absent, 0) = 0
<1>1. Absent.kind = "absent" /\ Absent.text = Empty /\ Absent.n = 0
  BY DEF Absent
<1> QED BY <1>1 DEF TextValue, IntRead

(* A number of a width Int knows is read as it is. *)
LEMMA NumbersRead ==
    ASSUME NEW v, StrictInteger(v), v.kind # "uint32", NEW fallback
    PROVE  IntRead(v, fallback) = v.n
BY DEF IntRead, StrictInteger, StrictIntegers

(* Texts that parse are texts. *)
LEMMA TextsThatParse ==
    ASSUME NEW v
    PROVE  /\ IsClock(TextValue(v)) \/ IsCron(TextValue(v)) \/ IsWeekday(TextValue(v))
                => v.kind = "string" /\ TextValue(v) = v.text /\ TextValue(v) # Empty
<1>1. Empty \notin ClockTexts \cup CronTexts
  BY AuthoringAssumption, Zenon DEF Empty
<1>2. Empty \notin Weekdays \cup WeekdaysInShort
  BY Zenon DEF Empty, Weekdays, WeekdaysInShort
<1>3. TextValue(v) = IF v.kind = "string" THEN v.text ELSE Empty
  BY DEF TextValue
<1> QED BY <1>1, <1>2, <1>3 DEF IsClock, IsCron, IsWeekday

(* The fields of a schedule, and of what a target is run by *)
LEMMA FieldsOfTheSchedule ==
    {"interval_seconds", "time_of_day", "day_of_week", "day_of_month", "schedule_expression",
     "schedule_type", "timezone", "business_calendar_key", "non_working_day_policy",
     "max_attempts", "timeout_seconds", "max_catchup_windows", "retry_delay_seconds",
     "retry_max_delay_seconds", "interval_hours", "interval_minutes"} \subseteq Fields
BY CatalogAssumption, SchemaFields

(* An acceptable document is read as the rule that is written in it, with a *)
(* default for a number Int does not know.                                  *)
LEMMA AcceptableIsReadAsWritten ==
    ASSUME NEW d, Document(d), Acceptable(d)
    PROVE  RulesRead(d) = {WrittenOrDefault(d)}
<1> DEFINE type == TextValue(d["schedule_type"])
<1>1. type \in {"interval", "daily_at", "weekly_at", "monthly_at", "cron"}
  BY DEF Acceptable, GoodSchedule, ScheduleTypes
<1>2. /\ type = "interval" =>
             StrictInteger(d["interval_seconds"]) /\ ~(d["interval_seconds"].n <= 0)
      /\ type \in {"daily_at", "weekly_at", "monthly_at"} => IsClock(TextValue(d["time_of_day"]))
      /\ type = "weekly_at" => IsWeekday(TextValue(d["day_of_week"]))
      /\ type = "monthly_at" => InRange(d["day_of_month"], 1, 31)
      /\ type = "cron" => IsCron(TextValue(d["schedule_expression"]))
  BY DEF Acceptable, GoodSchedule
<1>3. d["interval_hours"] = Absent /\ d["interval_minutes"] = Absent
  BY FieldsOfTheSchedule DEF Document, Acceptable, Present
<1>4. \A f \in {"interval_seconds", "day_of_month"} : d[f].n \in Int
  BY FieldsOfTheSchedule DEF Document
<1> HIDE DEF type
<1>5. CASE type = "interval"
  <2> DEFINE n == d["interval_seconds"].n
             unit == [interval_seconds |-> 1, interval_minutes |-> 60, interval_hours |-> 3600]
             known == d["interval_seconds"].kind # "uint32"
             value == IF known THEN n ELSE 0
             every == IF known THEN n ELSE SecondsPerDay
  <2>1. n \in Int /\ n > 0 /\ IntRead(d["interval_seconds"], 0) = value
    <3>1. n \in Int /\ n > 0
      BY <1>2, <1>4, <1>5
    <3>2. CASE known
      BY <1>2, <1>5, <3>1, <3>2, NumbersRead
    <3>3. CASE ~known
      BY <3>1, <3>3 DEF IntRead
    <3> QED BY <3>2, <3>3, <3>1
  <2>2. IntRead(d["interval_minutes"], 0) = 0 /\ IntRead(d["interval_hours"], 0) = 0
    BY <1>3, AbsentReads
  <2>3. DOMAIN unit = {"interval_seconds", "interval_minutes", "interval_hours"}
        /\ unit["interval_seconds"] = 1
    OBVIOUS
  <2>8. WrittenOrDefault(d) = Rule(type, every, Empty, Empty, 0, Empty)
    BY <1>5 DEF WrittenOrDefault, type, n
  <2>9. SecondsPerDay \in Nat /\ SecondsPerDay > 0
    BY SMT DEF SecondsPerDay
  <2> HIDE DEF unit, n
  <2>4. CASE known
    <3>1. {f \in DOMAIN unit : IntRead(d[f], 0) > 0} = {"interval_seconds"}
      BY <2>1, <2>2, <2>3, <2>4
    <3>2. {IntRead(d[f], 0) * unit[f] : f \in {"interval_seconds"}} = {n}
      BY <2>1, <2>3, <2>4
    <3>3. IntervalSeconds(d) = {n}
      BY <3>1, <3>2 DEF IntervalSeconds, unit
    <3>4. RulesRead(d) = {Rule(type, n, Empty, Empty, 0, Empty)}
      BY <1>5, <2>1, <3>3 DEF RulesRead, type
    <3> QED BY <2>4, <2>8, <3>4
  <2>5. CASE ~known
    <3>1. {f \in DOMAIN unit : IntRead(d[f], 0) > 0} = {}
      BY <2>1, <2>2, <2>3, <2>5
    <3>2. IntervalSeconds(d) = {0}
      BY <3>1 DEF IntervalSeconds, unit
    <3>3. RulesRead(d) = {Rule(type, SecondsPerDay, Empty, Empty, 0, Empty)}
      BY <1>5, <2>9, <3>2 DEF RulesRead, type
    <3> QED BY <2>5, <2>8, <3>3
  <2> QED BY <2>4, <2>5
<1>6. CASE type = "daily_at"
  <2>1. ClockRead(d) = d["time_of_day"].text
    BY <1>2, <1>6, TextsThatParse DEF ClockRead
  <2>2. RulesRead(d) = {Rule(type, 0, ClockRead(d), Empty, 0, Empty)}
    BY <1>6 DEF RulesRead, type
  <2>3. WrittenOrDefault(d) = Rule(type, 0, d["time_of_day"].text, Empty, 0, Empty)
    BY <1>6 DEF WrittenOrDefault, type
  <2> QED BY <2>1, <2>2, <2>3
<1>7. CASE type = "weekly_at"
  <2>1. ClockRead(d) = d["time_of_day"].text /\ WeekdayRead(d) = d["day_of_week"].text
    BY <1>2, <1>7, TextsThatParse DEF ClockRead, WeekdayRead
  <2>2. RulesRead(d) = {Rule(type, 0, ClockRead(d), WeekdayRead(d), 0, Empty)}
    BY <1>7 DEF RulesRead, type
  <2>3. WrittenOrDefault(d) = Rule(type, 0, d["time_of_day"].text, d["day_of_week"].text, 0, Empty)
    BY <1>7 DEF WrittenOrDefault, type
  <2> QED BY <2>1, <2>2, <2>3
<1>8. CASE type = "monthly_at"
  <2>1. ClockRead(d) = d["time_of_day"].text
    BY <1>2, <1>8, TextsThatParse DEF ClockRead
  <2> DEFINE day == IF d["day_of_month"].kind = "uint32" THEN 1 ELSE d["day_of_month"].n
  <2>2. MonthDayRead(d) = day
    <3>1. CASE d["day_of_month"].kind = "uint32"
      BY <3>1 DEF MonthDayRead, IntRead
    <3>2. CASE d["day_of_month"].kind # "uint32"
      BY <1>2, <1>4, <1>8, <3>2, NumbersRead DEF MonthDayRead, InRange
    <3> QED BY <3>1, <3>2
  <2>3. RulesRead(d) = {Rule(type, 0, ClockRead(d), Empty, MonthDayRead(d), Empty)}
    BY <1>8 DEF RulesRead, type
  <2>4. WrittenOrDefault(d) = Rule(type, 0, d["time_of_day"].text, Empty, day, Empty)
    BY <1>8 DEF WrittenOrDefault, type
  <2> QED BY <2>1, <2>2, <2>3, <2>4
<1>9. CASE type = "cron"
  <2>1. TextValue(d["schedule_expression"]) = d["schedule_expression"].text
    BY <1>2, <1>9, TextsThatParse
  <2>2. RulesRead(d) = {Rule(type, 0, Empty, Empty, 0, TextValue(d["schedule_expression"]))}
    BY <1>9 DEF RulesRead, type
  <2>3. WrittenOrDefault(d) = Rule(type, 0, Empty, Empty, 0, d["schedule_expression"].text)
    BY <1>9 DEF WrittenOrDefault, type
  <2> QED BY <2>1, <2>2, <2>3
<1> QED BY <1>1, <1>5, <1>6, <1>7, <1>8, <1>9

(* An acceptable document makes a schedule that is valid. *)
LEMMA AcceptableIsASchedule ==
    ASSUME NEW d, Document(d), Acceptable(d)
    PROVE  ValidTyped(d)
<1> DEFINE type == TextValue(d["schedule_type"])
           clock == TextValue(d["time_of_day"])
           key == TextValue(d["business_calendar_key"])
           written == TextValue(d["non_working_day_policy"])
           zone == TextValue(d["timezone"])
           policy == IF key # Empty /\ written = Empty THEN "skip" ELSE written
<1>1. type \in {"interval", "daily_at", "weekly_at", "monthly_at", "cron"}
  BY DEF Acceptable, GoodSchedule, ScheduleTypes
<1>2. /\ zone # Empty => IsZone(zone)
      /\ type = "interval" => ~(d["interval_seconds"].n <= 0)
      /\ type \in {"daily_at", "weekly_at", "monthly_at"} => IsClock(clock)
      /\ type = "weekly_at" => IsWeekday(TextValue(d["day_of_week"]))
      /\ type = "monthly_at" => d["day_of_month"].n \in 1..31
      /\ type = "cron" => IsCron(TextValue(d["schedule_expression"]))
      /\ key = Empty => written = Empty
      /\ key # Empty =>
             type # "interval" /\ zone # Empty /\ written \in {Empty, "skip", "roll_forward"}
  BY DEF Acceptable, GoodSchedule, InRange
<1>3. d["interval_seconds"].n \in Int
  BY FieldsOfTheSchedule DEF Document
<1>4. type \in ScheduleTypes \cup {"once"}
  BY <1>1 DEF ScheduleTypes
<1>5. type = "interval" => d["interval_seconds"].n > 0
  BY <1>2, <1>3
<1>6. type \in {"daily_at", "weekly_at", "monthly_at"} =>
          IsClock(IF clock # Empty THEN clock ELSE TextValue(d["schedule_expression"]))
  BY <1>2, TextsThatParse
<1>7. IF key # Empty
      THEN /\ type \notin {"once", "interval"} /\ zone # Empty
           /\ policy \in {"skip", "roll_forward"}
      ELSE policy = Empty
  BY <1>1, <1>2
<1>8. zone = Empty \/ IsZone(zone)
  BY <1>2
<1>9. /\ type = "weekly_at" => IsWeekday(TextValue(d["day_of_week"]))
      /\ type = "monthly_at" => d["day_of_month"].n \in 1..31
      /\ type = "cron" => IsCron(TextValue(d["schedule_expression"]))
  BY <1>2
<1> QED BY <1>4, <1>5, <1>6, <1>7, <1>8, <1>9, Zenon DEF ValidTyped


(* The texts and the numbers of the schema *)
LEMMA KindsOfFields ==
    /\ TextFields =
         {"key", "name", "schedule_expression", "time_of_day", "timezone", "business_calendar_key",
          "target_key", "target_object", "connection_key", "payload_json", "run_as_role",
          "description", "next_run_at", "status", "schedule_type", "day_of_week",
          "missed_window_policy", "non_working_day_policy", "target_type"}
    /\ NumberFields =
         {"day_of_month", "interval_seconds", "max_catchup_windows", "max_attempts",
          "retry_delay_seconds", "retry_max_delay_seconds", "timeout_seconds"}
    /\ \A f \in {"status", "schedule_type", "day_of_week", "missed_window_policy",
                 "non_working_day_policy", "target_type"} : BusinessJobParameters[f].enum # {}
<1> DEFINE B == BusinessJobParameters
<1>1. AnyText.type = "string" /\ AnObject.type = "object"
      /\ \A texts : OneOf(texts).type = "string" /\ OneOf(texts).enum = texts
      /\ \A range : Whole(range).type = "integer"
  BY DEF AnyText, AnObject, OneOf, Whole, Parameter
<1> HIDE DEF B
<1>2. \A f \in {"key", "name", "schedule_expression", "time_of_day", "timezone",
                "business_calendar_key", "target_key", "target_object", "connection_key",
                "payload_json", "run_as_role", "description", "next_run_at"} : B[f].type = "string"
  BY <1>1, TextsOfTheSchema DEF B
<1>3. \A f \in {"status", "schedule_type", "day_of_week", "missed_window_policy",
                "non_working_day_policy", "target_type"} : B[f].type = "string"
  BY <1>1, ChoicesOfTheSchema DEF B
<1>4. \A f \in {"day_of_month", "interval_seconds", "max_catchup_windows", "max_attempts",
                "retry_delay_seconds", "retry_max_delay_seconds", "timeout_seconds"} :
          B[f].type = "integer"
  BY <1>1, NumbersOfTheSchema DEF B
<1>5. B["i18n"].type = "object"
  BY <1>1, NumbersOfTheSchema DEF B
<1>6. \A f \in {"status", "schedule_type", "day_of_week", "missed_window_policy",
                "non_working_day_policy", "target_type"} : B[f].enum # {}
  <2>1. ScheduleTypes # {} /\ Weekdays # {}
    BY DEF ScheduleTypes, Weekdays
  <2> QED BY <1>1, <2>1, ChoicesOfTheSchema DEF B
<1> QED BY <1>2, <1>3, <1>4, <1>5, <1>6, SchemaFields DEF TextFields, NumberFields, B

(* What validation accepts conforms to the published schema, apart from the *)
(* known differences.                                                       *)
LEMMA AcceptableConforms ==
    ASSUME NEW d, Document(d), Acceptable(d), ~OutsideTheSchema(d)
    PROVE  Conforms(d)
<1> DEFINE B == BusinessJobParameters
           Ok(f) == Present(d, f) => Fits(B[f], d[f])
<1>20. /\ TakenForAbsent(d) = {} /\ ~Present(d, "revision")
       /\ d["day_of_week"].text \notin WeekdaysInShort
       /\ \A f \in TextFields : B[f].enum # {} /\ Present(d, f) => TextValue(d[f]) # Empty
  BY DEF OutsideTheSchema
<1>1. \A f \in TextFields : Present(d, f) => d[f].kind = "string" /\ TextValue(d[f]) = d[f].text
  BY <1>20 DEF TakenForAbsent, Present, TextValue
<1>2. \A f \in {"status", "schedule_type", "day_of_week", "missed_window_policy",
                "non_working_day_policy", "target_type"} :
          Present(d, f) => /\ d[f].kind = "string" /\ TextValue(d[f]) = d[f].text
                           /\ TextValue(d[f]) # Empty
  BY <1>1, <1>20, KindsOfFields
<1>3. \A f \in {"key", "name", "schedule_expression", "time_of_day", "timezone",
                "business_calendar_key", "target_key", "target_object", "connection_key",
                "payload_json", "run_as_role", "description", "next_run_at"} : Ok(f)
  <2> TAKE f \in {"key", "name", "schedule_expression", "time_of_day", "timezone",
                  "business_calendar_key", "target_key", "target_object", "connection_key",
                  "payload_json", "run_as_role", "description", "next_run_at"}
  <2>1. B[f] = AnyText
    BY TextsOfTheSchema
  <2>2. f \in TextFields
    BY KindsOfFields
  <2> HIDE DEF B
  <2> QED BY <1>1, <2>1, <2>2, TextsFit DEF B
<1>4. Ok("status")
  <2>1. TextValue(d["status"]) \in {"archived", "disabled", "draft", "enabled", "paused"}
    BY DEF Acceptable, GoodIdentity
  <2> QED BY <1>2, <2>1, ChoicesTaken
<1>5. Ok("schedule_type")
  <2>1. TextValue(d["schedule_type"]) \in ScheduleTypes /\ ScheduleTypes # {}
    BY DEF Acceptable, GoodSchedule, ScheduleTypes
  <2> QED BY <1>2, <2>1, ChoicesTaken
<1>6. Ok("target_type")
  <2>1. TextValue(d["target_type"])
            \in {"business_action", "http", "report_snapshot_refresh", "workflow"}
    BY DEF Acceptable, GoodTarget
  <2> QED BY <1>2, <2>1, ChoicesTaken
<1>7. Ok("non_working_day_policy")
  <2>1. TextValue(d["non_working_day_policy"]) \in {Empty, "skip", "roll_forward"}
    BY DEF Acceptable, GoodSchedule
  <2> QED BY <1>2, <2>1, ChoicesTaken
<1>8. Ok("missed_window_policy")
  <2>1. TextValue(d["missed_window_policy"])
            \in {Empty, "skip", "catch_up_one", "catch_up_bounded"}
    BY DEF Acceptable, GoodPolicy, MissedWindowPolicy
  <2>2. Present(d, "missed_window_policy") =>
            /\ d["missed_window_policy"].kind = "string"
            /\ d["missed_window_policy"].text \in {"catch_up_bounded", "catch_up_one", "skip"}
    BY <1>2, <2>1
  <2> QED BY <2>2, ChoicesTaken
<1>9. /\ \A f \in {"schedule_expression", "interval_seconds", "time_of_day", "day_of_week",
                   "day_of_month"} :
             f \notin ReadBy(TextValue(d["schedule_type"])) => ~Present(d, f)
      /\ TextValue(d["schedule_type"]) = "weekly_at" => IsWeekday(TextValue(d["day_of_week"]))
      /\ TextValue(d["schedule_type"]) = "monthly_at" => InRange(d["day_of_month"], 1, 31)
      /\ TextValue(d["schedule_type"]) = "interval" =>
             StrictInteger(d["interval_seconds"]) /\ ~(d["interval_seconds"].n <= 0)
  BY DEF Acceptable, GoodSchedule
<1>10. Ok("day_of_week")
  <2>1. Present(d, "day_of_week") => TextValue(d["schedule_type"]) = "weekly_at"
    BY <1>9 DEF ReadBy
  <2>2. Present(d, "day_of_week") =>
            d["day_of_week"].kind = "string" /\ d["day_of_week"].text \in Weekdays
    BY <1>2, <1>9, <1>20, <2>1 DEF IsWeekday
  <2>3. Weekdays # {}
    BY DEF Weekdays
  <2> QED BY <2>2, <2>3, ChoicesTaken
<1>11. Ok("day_of_month")
  <2>1. Present(d, "day_of_month") => TextValue(d["schedule_type"]) = "monthly_at"
    BY <1>9 DEF ReadBy
  <2>2. Present(d, "day_of_month") =>
            StrictInteger(d["day_of_month"]) /\ d["day_of_month"].n \in 1..31
    BY <1>9, <2>1 DEF InRange
  <2> QED BY <2>2, NumbersTaken
<1>12. Ok("interval_seconds")
  <2>1. Present(d, "interval_seconds") => TextValue(d["schedule_type"]) = "interval"
    BY <1>9 DEF ReadBy
  <2>2. d["interval_seconds"].n \in Int
    BY FieldsOfTheSchedule DEF Document
  <2>3. Present(d, "interval_seconds") =>
            StrictInteger(d["interval_seconds"]) /\ d["interval_seconds"].n \in Nat \ {0}
    BY <1>9, <2>1, <2>2
  <2> QED BY <2>3, NumbersTaken
<1>13. Ok("max_attempts") /\ Ok("timeout_seconds")
  <2>1. /\ StrictInteger(d["max_attempts"]) /\ d["max_attempts"].n \in 1..100
        /\ StrictInteger(d["timeout_seconds"]) /\ d["timeout_seconds"].n \in 1..SecondsPerDay
    BY DEF Acceptable, GoodPolicy, InRange
  <2>2. Fits(B["max_attempts"], d["max_attempts"])
    BY <2>1, NumbersTaken
  <2>3. Fits(B["timeout_seconds"], d["timeout_seconds"])
    BY <2>1, NumbersTaken
  <2> QED BY <2>2, <2>3
<1>14. Ok("max_catchup_windows")
  <2>1. Present(d, "max_catchup_windows") =>
            StrictInteger(d["max_catchup_windows"]) /\ d["max_catchup_windows"].n \in 1..100
    BY DEF Acceptable, GoodPolicy, InRange
  <2> QED BY <2>1, NumbersTaken
<1>15. Ok("retry_delay_seconds") /\ Ok("retry_max_delay_seconds")
  <2>1. \A f \in {"retry_delay_seconds", "retry_max_delay_seconds"} :
            Present(d, f) => StrictInteger(d[f]) /\ ~(d[f].n < 0) /\ d[f].n \in Int
    BY AbsentReads, FieldsOfTheSchedule
       DEF Acceptable, GoodPolicy, OptionalInteger, Present, Document
  <2>2. \A f \in {"retry_delay_seconds", "retry_max_delay_seconds"} :
            Present(d, f) => StrictInteger(d[f]) /\ d[f].n \in Nat
    BY <2>1
  <2>3. Ok("retry_delay_seconds")
    BY <2>2, NumbersTaken
  <2>4. Ok("retry_max_delay_seconds")
    BY <2>2, NumbersTaken
  <2> QED BY <2>3, <2>4
<1>16. Ok("i18n")
  <2>1. d["i18n"].kind \in {"absent", "map"}
    BY DEF Acceptable, GoodPolicy
  <2> QED BY <2>1, ObjectTaken DEF Present
<1>17. \A f \in DOMAIN B : Ok(f)
  <2> HIDE DEF Ok
  <2> QED BY <1>3, <1>4, <1>5, <1>6, <1>7, <1>8, <1>10, <1>11, <1>12, <1>13, <1>14, <1>15, <1>16,
             SchemaFields
<1>18. \A f \in Fields : Present(d, f) => f \in DOMAIN B /\ Fits(B[f], d[f])
  BY <1>17, <1>20, CatalogAssumption DEF Acceptable
<1>19. \A f \in RequiredParameters : Present(d, f)
  <2>1. \A f \in {"key", "name", "status", "schedule_type", "target_type", "target_key"} :
            TextValue(d[f]) # Empty
    BY NoChoiceIsEmpty DEF Acceptable, GoodIdentity, GoodSchedule, GoodTarget, ScheduleTypes
  <2>2. \A f \in {"key", "name", "status", "schedule_type", "target_type", "target_key"} :
            Present(d, f)
    BY <2>1 DEF TextValue, Present
  <2>3. Present(d, "max_attempts") /\ Present(d, "timeout_seconds")
    BY DEF Acceptable, GoodPolicy
  <2> QED BY <2>2, <2>3 DEF RequiredParameters
<1> QED BY <1>18, <1>19 DEF Conforms


(* The projection of an accepted document *)
LEMMA ProjectionOf ==
    ASSUME NEW d, Document(d), TakenForAbsent(d) = {},
           \A f \in NumberFields : d[f].kind # "uint32"
    PROVE  /\ \A f \in TextFields :
                /\ TextValue(Projected(d)[f]) = TextValue(d[f])
                /\ Projected(d)[f].kind \in {"absent", "string"}
                /\ TextValue(d[f]) # Empty => Present(Projected(d), f)
                /\ Present(Projected(d), f) /\ f \notin {"key", "status"} =>
                       Present(d, f) /\ TextValue(d[f]) # Empty
           /\ \A f \in NumberFields :
                /\ StrictInteger(d[f]) /\ d[f].n # 0 =>
                       Projected(d)[f] = Number("float64", d[f].n)
                /\ ~Present(d, f) => Projected(d)[f] = Absent
           /\ Projected(d)["i18n"] = IF d["i18n"].kind = "map" THEN d["i18n"] ELSE Absent
           /\ \A f \in {"revision", "interval_hours", "interval_minutes"} :
                 Projected(d)[f] = Absent
           /\ Document(Projected(d))
<1> DEFINE shown == Projected(d)
<1>1. /\ TextFields \subseteq Fields /\ NumberFields \subseteq Fields /\ "i18n" \in Fields
      /\ {"revision", "interval_hours", "interval_minutes"} \subseteq Fields
      /\ TextFields \cap NumberFields = {} /\ "i18n" \notin TextFields \cup NumberFields
      /\ {"revision", "interval_hours", "interval_minutes"} \cap (TextFields \cup NumberFields) = {}
  BY KindsOfFields, CatalogAssumption, SchemaFields
<1>2. \A f \in TextFields :
          /\ d[f].kind \in {"absent", "string"}
          /\ StringValue(d[f]) = TextValue(d[f])
          /\ TextValue(d[f]) # Empty => Present(d, f)
  <2> TAKE f \in TextFields
  <2>1. d[f].kind \in {"absent", "string"}
    BY DEF TakenForAbsent
  <2> QED BY <2>1, Zenon DEF StringValue, TextValue, Present, Empty
<1>3. \A f \in TextFields :
          shown[f] = IF TextValue(d[f]) # Empty \/ f \in {"key", "status"}
                     THEN Text(TextValue(d[f])) ELSE Absent
  BY <1>1, <1>2 DEF Projected, Shown
<1>4. \A f \in NumberFields :
          shown[f] = IF IntValue(d[f]) # 0 THEN Number("float64", IntValue(d[f])) ELSE Absent
  BY <1>1 DEF Projected, Shown
<1>5. /\ shown["i18n"] = IF d["i18n"].kind = "map" THEN d["i18n"] ELSE Absent
      /\ \A f \in {"revision", "interval_hours", "interval_minutes"} : shown[f] = Absent
  BY <1>1 DEF Projected, Shown
<1>6. \A f \in Fields : f \notin TextFields \cup NumberFields \cup {"i18n"} => shown[f] = Absent
  BY DEF Projected, Shown
<1> HIDE DEF shown
<1>7. \A text : /\ Text(text).kind = "string" /\ TextValue(Text(text)) = text
                /\ Text(text).n = 0
  BY DEF Text, TextValue
<1>8. \A n : Number("float64", n).n = n /\ Number("float64", n).kind = "float64"
  BY DEF Number
<1>9. \A f \in NumberFields : IntValue(d[f]) \in Int /\ d[f].n \in Int
  BY <1>1 DEF IntValue, IntRead, Document
<1>10. ASSUME NEW f \in TextFields
       PROVE  /\ TextValue(shown[f]) = TextValue(d[f])
              /\ shown[f].kind \in {"absent", "string"}
              /\ TextValue(d[f]) # Empty => Present(shown, f)
              /\ Present(shown, f) /\ f \notin {"key", "status"} =>
                     Present(d, f) /\ TextValue(d[f]) # Empty
              /\ shown[f].n \in Int /\ (shown[f].kind = "absent" => shown[f] = Absent)
  BY <1>2, <1>3, <1>7, AbsentReads DEF Present
<1>11. ASSUME NEW f \in NumberFields
       PROVE  /\ StrictInteger(d[f]) /\ d[f].n # 0 => shown[f] = Number("float64", d[f].n)
              /\ ~Present(d, f) => shown[f] = Absent
              /\ shown[f].n \in Int /\ (shown[f].kind = "absent" => shown[f] = Absent)
  <2>1. StrictInteger(d[f]) => IntValue(d[f]) = d[f].n
    BY NumbersRead DEF IntValue
  <2>2. ~Present(d, f) => IntValue(d[f]) = 0
    BY <1>1, AbsentReads DEF IntValue, Present, Document
  <2> QED BY <1>4, <1>8, <1>9, <2>1, <2>2, AbsentReads
<1>12. shown["i18n"].n \in Int /\ (shown["i18n"].kind = "absent" => shown["i18n"] = Absent)
  BY <1>1, <1>5, AbsentReads DEF Document
<1>13. Document(shown)
  BY <1>6, <1>10, <1>11, <1>12, AbsentReads DEF Document
<1> QED BY <1>5, <1>10, <1>11, <1>13 DEF shown


(* The projection of an accepted document is accepted, with the same rule *)
(* and the same policy.                                                   *)
LEMMA ProjectionIsAcceptable ==
    ASSUME NEW d, Document(d), Acceptable(d), TakenForAbsent(d) = {},
           \A f \in NumberFields : d[f].kind # "uint32",
           \A f \in {"retry_delay_seconds", "retry_max_delay_seconds"} :
               Present(d, f) => d[f].n # 0
    PROVE  /\ Document(Projected(d)) /\ Acceptable(Projected(d))
           /\ WrittenOrDefault(Projected(d)) = WrittenOrDefault(d)
           /\ Policy(Projected(d)) = Policy(d)
<1> DEFINE shown == Projected(d)
           type == TextValue(d["schedule_type"])
<1>1. \A f \in TextFields :
          /\ TextValue(shown[f]) = TextValue(d[f])
          /\ shown[f].kind \in {"absent", "string"}
          /\ TextValue(d[f]) # Empty => Present(shown, f)
          /\ Present(shown, f) /\ f \notin {"key", "status"} =>
                 Present(d, f) /\ TextValue(d[f]) # Empty
  BY ProjectionOf
<1>2. \A f \in NumberFields :
          /\ StrictInteger(d[f]) /\ d[f].n # 0 => shown[f] = Number("float64", d[f].n)
          /\ ~Present(d, f) => shown[f] = Absent
  BY ProjectionOf
<1>3. /\ shown["i18n"] = IF d["i18n"].kind = "map" THEN d["i18n"] ELSE Absent
      /\ shown["interval_hours"] = Absent /\ shown["interval_minutes"] = Absent
      /\ Document(shown)
  BY ProjectionOf
<1> HIDE DEF shown
<1>4. \A f \in TextFields : TextValue(d[f]) = Empty \/ TextValue(d[f]) = d[f].text
  BY DEF TextValue
<1>5. \A n : StrictInteger(Number("float64", n)) /\ Number("float64", n).n = n
             /\ Number("float64", n).kind = "float64"
  BY DEF StrictInteger, StrictIntegers, Number
<1>6. \A f \in NumberFields : d[f].n \in Int /\ (~Present(d, f) => d[f] = Absent)
  BY KindsOfFields, CatalogAssumption, SchemaFields DEF Document, Present
(* The numbers *)
<1>7. ASSUME NEW f \in NumberFields, NEW lo \in Nat \ {0}, NEW hi \in Nat, InRange(d[f], lo, hi)
      PROVE  InRange(shown[f], lo, hi) /\ shown[f].n = d[f].n /\ shown[f].kind = "float64"
  BY <1>2, <1>5, <1>6, <1>7 DEF InRange
<1>8. \A f \in {"retry_delay_seconds", "retry_max_delay_seconds"} :
          /\ Present(d, f) => StrictInteger(d[f]) /\ shown[f] = Number("float64", d[f].n)
          /\ ~Present(d, f) => d[f] = Absent /\ shown[f] = Absent
  <2>1. \A f \in {"retry_delay_seconds", "retry_max_delay_seconds"} : f \in NumberFields
    BY KindsOfFields
  <2>2. \A f \in {"retry_delay_seconds", "retry_max_delay_seconds"} :
            Present(d, f) => StrictInteger(d[f])
    BY AbsentReads DEF Acceptable, GoodPolicy, OptionalInteger, Present
  <2> QED BY <1>2, <1>6, <2>1, <2>2
(* The policy *)
<1>9. MissedWindowPolicy(shown) = MissedWindowPolicy(d)
  BY <1>1, KindsOfFields DEF MissedWindowPolicy
<1>10. /\ InRange(d["max_attempts"], 1, 100) /\ InRange(d["timeout_seconds"], 1, SecondsPerDay)
       /\ MissedWindowPolicy(d) = "catch_up_bounded" =>
              InRange(d["max_catchup_windows"], 1, 100)
       /\ MissedWindowPolicy(d) # "catch_up_bounded" => ~Present(d, "max_catchup_windows")
  BY DEF Acceptable, GoodPolicy
<1>11. SecondsPerDay \in Nat
  BY SMT DEF SecondsPerDay
<1>12. /\ InRange(shown["max_attempts"], 1, 100)
       /\ InRange(shown["timeout_seconds"], 1, SecondsPerDay)
       /\ shown["max_attempts"].n = d["max_attempts"].n
       /\ shown["timeout_seconds"].n = d["timeout_seconds"].n
       /\ shown["max_attempts"].kind = "float64" /\ shown["timeout_seconds"].kind = "float64"
  BY <1>7, <1>10, <1>11, KindsOfFields
<1>13. /\ MissedWindowPolicy(d) = "catch_up_bounded" =>
              InRange(shown["max_catchup_windows"], 1, 100)
       /\ MissedWindowPolicy(d) # "catch_up_bounded" => ~Present(shown, "max_catchup_windows")
       /\ shown["max_catchup_windows"].n = d["max_catchup_windows"].n
  <2>1. CASE MissedWindowPolicy(d) = "catch_up_bounded"
    BY <1>7, <1>10, <2>1, KindsOfFields
  <2>2. CASE MissedWindowPolicy(d) # "catch_up_bounded"
    BY <1>2, <1>6, <1>10, <2>2, KindsOfFields, AbsentReads DEF Present
  <2> QED BY <2>1, <2>2
<1>14. ASSUME NEW f \in {"retry_delay_seconds", "retry_max_delay_seconds"}, NEW n \in Int,
              StrictInteger(OptionalInteger(d[f], n))
       PROVE  /\ StrictInteger(OptionalInteger(shown[f], n))
              /\ OptionalInteger(shown[f], n).n = OptionalInteger(d[f], n).n
  <2>1. CASE Present(d, f)
    <3>1. d[f] # Absent /\ Number("float64", d[f].n) # Absent
      BY <2>1, <1>5, AbsentReads DEF Present
    <3> QED BY <1>5, <1>8, <2>1, <3>1 DEF OptionalInteger
  <2>2. CASE ~Present(d, f)
    BY <1>8, <1>14, <2>2
  <2> QED BY <2>1, <2>2
<1>15. GoodPolicy(shown)
  <2>1. /\ TextValue(shown["missed_window_policy"]) = TextValue(d["missed_window_policy"])
        /\ TextValue(shown["next_run_at"]) = TextValue(d["next_run_at"])
    BY <1>1, KindsOfFields
  <2>2. shown["i18n"].kind \in {"absent", "map"}
    BY <1>3, AbsentReads
  <2>3. Present(shown, "max_attempts") /\ Present(shown, "timeout_seconds")
    BY <1>12 DEF Present
  <2>4. LET delay == OptionalInteger(shown["retry_delay_seconds"], 30)
            longest == OptionalInteger(shown["retry_max_delay_seconds"], 900)
        IN  /\ StrictInteger(delay) /\ StrictInteger(longest)
            /\ ~(delay.n < 0) /\ ~(longest.n < 0) /\ (longest.n > 0 => ~(longest.n < delay.n))
    BY <1>14 DEF Acceptable, GoodPolicy
  <2>5. /\ MissedWindowPolicy(d) = "skip" => TextValue(d["missed_window_policy"]) \in
                 {Empty, "skip"}
        /\ TextValue(d["next_run_at"]) \in {Empty, "instant"}
    BY DEF Acceptable, GoodPolicy
  <2> QED BY <1>9, <1>12, <1>13, <2>1, <2>2, <2>3, <2>4, <2>5 DEF GoodPolicy
<1>16. Policy(shown) = Policy(d)
  <2>1. /\ StrictInteger(OptionalInteger(d["retry_delay_seconds"], 30))
        /\ StrictInteger(OptionalInteger(d["retry_max_delay_seconds"], 900))
    BY DEF Acceptable, GoodPolicy
  <2>2. /\ OptionalInteger(shown["retry_delay_seconds"], 30).n =
               OptionalInteger(d["retry_delay_seconds"], 30).n
        /\ OptionalInteger(shown["retry_max_delay_seconds"], 900).n =
               OptionalInteger(d["retry_max_delay_seconds"], 900).n
    BY <1>14, <2>1
  <2> QED BY <1>9, <1>12, <1>13, <2>2 DEF Policy
(* The target *)
<1>17. GoodTarget(shown)
  <2>1. \A f \in {"target_type", "target_key", "target_object", "run_as_role", "connection_key",
                  "payload_json"} :
            /\ TextValue(shown[f]) = TextValue(d[f])
            /\ Present(shown, f) => Present(d, f)
            /\ shown[f].kind \in {"absent", "string"}
    BY <1>1, KindsOfFields
  <2>2. Present(shown, "payload_json") =>
            /\ shown["payload_json"].kind = "string" /\ d["payload_json"].kind = "string"
            /\ shown["payload_json"].text = d["payload_json"].text
    <3>1. "payload_json" \in TextFields
      BY KindsOfFields
    <3> QED BY <1>1, <3>1 DEF Present, TextValue
  <2>3. \A json : PayloadRefused(shown, json) => PayloadRefused(d, json)
    BY <2>2 DEF PayloadRefused, Present
  <2>4. GoodTarget(d)
    BY DEF Acceptable
  <2> QED BY <2>1, <2>3, <2>4 DEF GoodTarget
(* The schedule *)
<1>18. type \in {"interval", "daily_at", "weekly_at", "monthly_at", "cron"}
  BY DEF Acceptable, GoodSchedule, ScheduleTypes
<1>19. \A f \in {"schedule_expression", "time_of_day", "day_of_week", "schedule_type", "timezone",
                 "business_calendar_key", "non_working_day_policy"} :
           TextValue(shown[f]) = TextValue(d[f]) /\ (Present(shown, f) => Present(d, f))
  BY <1>1, KindsOfFields
<1>20. /\ type = "interval" =>
              StrictInteger(d["interval_seconds"]) /\ ~(d["interval_seconds"].n <= 0)
       /\ type = "monthly_at" => InRange(d["day_of_month"], 1, 31)
       /\ type # "interval" => ~Present(d, "interval_seconds")
       /\ type # "monthly_at" => ~Present(d, "day_of_month")
  <2>1. \A f \in {"schedule_expression", "interval_seconds", "time_of_day", "day_of_week",
                  "day_of_month"} : f \notin ReadBy(type) => ~Present(d, f)
    BY DEF Acceptable, GoodSchedule
  <2>2. type # "interval" => "interval_seconds" \notin ReadBy(type)
    BY DEF ReadBy
  <2>3. type # "monthly_at" => "day_of_month" \notin ReadBy(type)
    BY DEF ReadBy
  <2> QED BY <2>1, <2>2, <2>3 DEF Acceptable, GoodSchedule
<1>21. /\ type = "interval" =>
              /\ shown["interval_seconds"] = Number("float64", d["interval_seconds"].n)
              /\ ~(shown["interval_seconds"].n <= 0) /\ StrictInteger(shown["interval_seconds"])
       /\ type # "interval" => shown["interval_seconds"] = Absent
  BY <1>2, <1>5, <1>6, <1>20, KindsOfFields
<1>22. /\ type = "monthly_at" =>
              /\ InRange(shown["day_of_month"], 1, 31)
              /\ shown["day_of_month"].n = d["day_of_month"].n
              /\ shown["day_of_month"].kind = "float64"
       /\ type # "monthly_at" => shown["day_of_month"] = Absent
  <2>1. "day_of_month" \in NumberFields
    BY KindsOfFields
  <2>2. CASE type = "monthly_at"
    BY <1>7, <1>20, <2>1, <2>2
  <2>3. CASE type # "monthly_at"
    BY <1>2, <1>20, <2>1, <2>3
  <2> QED BY <2>2, <2>3
<1>23. \A f \in {"interval_seconds", "day_of_month"} :
           shown[f].kind # "uint32" /\ (Present(shown, f) => Present(d, f))
  <2>1. type = "interval" => Present(d, "interval_seconds")
    BY <1>20 DEF Present, StrictInteger, StrictIntegers
  <2>2. type = "monthly_at" => Present(d, "day_of_month")
    BY <1>20 DEF Present, InRange, StrictInteger, StrictIntegers
  <2> QED BY <1>5, <1>21, <1>22, <2>1, <2>2, AbsentReads DEF Present
<1>24. GoodSchedule(shown)
  <2>1. \A f \in {"schedule_expression", "interval_seconds", "time_of_day", "day_of_week",
                  "day_of_month"} : Present(shown, f) => Present(d, f)
    BY <1>19, <1>23
  <2>2. GoodSchedule(d)
    BY DEF Acceptable
  <2>3. type = TextValue(shown["schedule_type"])
    BY <1>19
  <2>4. \A f \in {"schedule_expression", "interval_seconds", "time_of_day", "day_of_week",
                  "day_of_month"} : f \notin ReadBy(type) => ~Present(shown, f)
    BY <2>1, <2>2 DEF GoodSchedule
  <2> HIDE DEF type
  <2>5. /\ type \in ScheduleTypes
        /\ type \in {"daily_at", "weekly_at", "monthly_at"} => IsClock(TextValue(d["time_of_day"]))
        /\ type = "weekly_at" => IsWeekday(TextValue(d["day_of_week"]))
        /\ type = "cron" => IsCron(TextValue(d["schedule_expression"]))
        /\ TextValue(d["timezone"]) # Empty => IsZone(TextValue(d["timezone"]))
        /\ TextValue(d["business_calendar_key"]) = Empty =>
               TextValue(d["non_working_day_policy"]) = Empty
        /\ TextValue(d["business_calendar_key"]) # Empty =>
               /\ type # "interval" /\ TextValue(d["timezone"]) # Empty
               /\ TextValue(d["non_working_day_policy"]) \in {Empty, "skip", "roll_forward"}
    BY <2>2 DEF GoodSchedule, type
  <2> QED BY <1>19, <1>21, <1>22, <2>3, <2>4, <2>5 DEF GoodSchedule
<1>25. GoodIdentity(shown)
  <2>1. \A f \in {"key", "name", "status"} : TextValue(shown[f]) = TextValue(d[f])
    BY <1>1, KindsOfFields
  <2> QED BY <2>1 DEF Acceptable, GoodIdentity
<1>26. Acceptable(shown)
  <2>1. ~Present(shown, "interval_hours") /\ ~Present(shown, "interval_minutes")
    BY <1>3, AbsentReads DEF Present
  <2> QED BY <1>15, <1>17, <1>24, <1>25, <2>1 DEF Acceptable
<1>27. WrittenOrDefault(shown) = WrittenOrDefault(d)
  <2>1. \A f \in {"schedule_expression", "time_of_day", "day_of_week"} :
            IsClock(TextValue(d[f])) \/ IsWeekday(TextValue(d[f])) \/ IsCron(TextValue(d[f]))
              => shown[f].text = d[f].text
    BY <1>19, TextsThatParse
  <2>2. /\ type \in {"daily_at", "weekly_at", "monthly_at"} => IsClock(TextValue(d["time_of_day"]))
        /\ type = "weekly_at" => IsWeekday(TextValue(d["day_of_week"]))
        /\ type = "cron" => IsCron(TextValue(d["schedule_expression"]))
    BY DEF Acceptable, GoodSchedule
  <2>3. /\ type \in {"daily_at", "weekly_at", "monthly_at"} =>
              shown["time_of_day"].text = d["time_of_day"].text
        /\ type = "weekly_at" => shown["day_of_week"].text = d["day_of_week"].text
        /\ type = "cron" => shown["schedule_expression"].text = d["schedule_expression"].text
    BY <2>1, <2>2
  <2>4. type = TextValue(shown["schedule_type"])
    BY <1>19
  <2>5. /\ type = "interval" => shown["interval_seconds"].n = d["interval_seconds"].n
        /\ type = "monthly_at" => shown["day_of_month"].n = d["day_of_month"].n
    BY <1>5, <1>21, <1>22
  <2>6. \A f \in {"interval_seconds", "day_of_month"} :
            d[f].kind # "uint32" /\ shown[f].kind # "uint32"
    BY <1>23, KindsOfFields
  <2> HIDE DEF type
  <2> QED BY <2>3, <2>4, <2>5, <2>6 DEF WrittenOrDefault, type
<1> QED BY <1>3, <1>16, <1>26, <1>27 DEF shown

(* A document without its lost numbers has no number Int does not know, no  *)
(* retry delay of zero, and the same projection.                            *)
LEMMA NothingLost ==
    ASSUME NEW d, Document(d), Acceptable(d), TakenForAbsent(d) = {}
    PROVE  LET kept == WithoutLost(d)
           IN  /\ Document(kept) /\ TakenForAbsent(kept) = {}
               /\ \A f \in NumberFields : kept[f].kind # "uint32"
               /\ \A f \in {"retry_delay_seconds", "retry_max_delay_seconds"} :
                      Present(kept, f) => StrictInteger(kept[f]) /\ kept[f].n # 0
               /\ Projected(kept) = Projected(d)
               /\ \A f \in Fields : kept[f] = IF f \in LostNumbers(d) THEN Absent ELSE d[f]
<1> DEFINE kept == WithoutLost(d)
<1>1. \A f \in Fields : kept[f] = IF f \in LostNumbers(d) THEN Absent ELSE d[f]
  BY DEF WithoutLost
<1>2. LostNumbers(d) = {f \in NumberFields : Present(d, f) /\ IntValue(d[f]) = 0}
  BY DEF LostNumbers
<1>3. /\ TextFields \subseteq Fields /\ NumberFields \subseteq Fields
      /\ TextFields \cap NumberFields = {} /\ "i18n" \notin NumberFields
      /\ {"retry_delay_seconds", "retry_max_delay_seconds"} \subseteq NumberFields
  BY KindsOfFields, CatalogAssumption, SchemaFields
<1> HIDE DEF kept
<1>4. Document(kept)
  BY <1>1, AbsentReads DEF Document
<1>5. TakenForAbsent(kept) = {}
  BY <1>1, <1>2, <1>3 DEF TakenForAbsent
<1>6. ASSUME NEW f \in NumberFields PROVE kept[f].kind # "uint32"
  <2>1. d[f].kind = "uint32" => IntValue(d[f]) = 0 /\ Present(d, f)
    BY DEF IntValue, IntRead, Present
  <2> QED BY <1>1, <1>2, <1>3, <2>1, AbsentReads
<1>7. ASSUME NEW f \in {"retry_delay_seconds", "retry_max_delay_seconds"}, Present(kept, f)
      PROVE  StrictInteger(kept[f]) /\ kept[f].n # 0
  <2>1. f \in NumberFields /\ f \in Fields
    BY <1>3
  <2>2. f \notin LostNumbers(d) /\ kept[f] = d[f] /\ Present(d, f)
    BY <1>1, <1>7, <2>1, AbsentReads DEF Present
  <2>3. StrictInteger(d[f])
    BY <2>2, AbsentReads DEF Acceptable, GoodPolicy, OptionalInteger, Present
  <2>4. IntValue(d[f]) # 0
    BY <1>2, <2>1, <2>2
  <2>5. IntValue(d[f]) = d[f].n
    BY <1>6, <2>1, <2>2, <2>3, NumbersRead DEF IntValue
  <2> QED BY <2>2, <2>3, <2>4, <2>5
<1>8. Projected(kept) = Projected(d)
  <2>1. ASSUME NEW f \in LostNumbers(d) PROVE Shown(f, Absent) = Shown(f, d[f])
    <3>1. f \in NumberFields /\ f \notin TextFields /\ f # "i18n" /\ IntValue(d[f]) = 0
      BY <1>2, <1>3
    <3>2. IntValue(Absent) = 0
      BY AbsentReads DEF IntValue
    <3> QED BY <3>1, <3>2 DEF Shown
  <2>2. \A f \in Fields : Shown(f, kept[f]) = Shown(f, d[f])
    BY <1>1, <2>1
  <2> QED BY <2>2 DEF Projected
<1> QED BY <1>1, <1>4, <1>5, <1>6, <1>7, <1>8 DEF kept

(* A document whose projection loses no more than retry delays that fit *)
LosesOnlyDelays(d) ==
    /\ LostNumbers(d) \subseteq {"retry_delay_seconds", "retry_max_delay_seconds"}
    /\ Policy(WithoutLost(d)).delay <= Policy(WithoutLost(d)).longest

(* A document that loses no more than retry delays is acceptable without   *)
(* them, and is written to run by the same rule.                           *)
LEMMA AcceptableWithoutDelays ==
    ASSUME NEW d, Document(d), Acceptable(d), TakenForAbsent(d) = {}, LosesOnlyDelays(d)
    PROVE  Acceptable(WithoutLost(d)) /\ WrittenOrDefault(WithoutLost(d)) = WrittenOrDefault(d)
<1> DEFINE kept == WithoutLost(d)
           Retries == {"retry_delay_seconds", "retry_max_delay_seconds"}
<1>1. /\ \A f \in Fields \ Retries : kept[f] = d[f]
      /\ \A f \in Retries : kept[f] \in {d[f], Absent}
  <2>1. LostNumbers(d) \subseteq Retries /\ Retries \subseteq Fields
    BY FieldsOfTheSchedule DEF LosesOnlyDelays
  <2> QED BY <2>1, NothingLost
<1>2. Policy(kept).delay <= Policy(kept).longest
  BY DEF LosesOnlyDelays
<1> HIDE DEF kept
<1>3. /\ {"key", "name", "status", "i18n", "target_type", "target_key", "target_object",
           "run_as_role", "connection_key", "payload_json", "next_run_at", "missed_window_policy"}
              \subseteq Fields \ Retries
      /\ {"interval_seconds", "time_of_day", "day_of_week", "day_of_month", "schedule_expression",
           "schedule_type", "timezone", "business_calendar_key", "non_working_day_policy",
           "max_attempts", "timeout_seconds", "max_catchup_windows", "interval_hours",
           "interval_minutes"} \subseteq Fields \ Retries
  BY CatalogAssumption, SchemaFields
<1>4. GoodTarget(kept)
  <2>1. \A f \in {"target_type", "target_key", "target_object", "run_as_role", "connection_key",
                  "payload_json"} : kept[f] = d[f]
    BY <1>1, <1>3
  <2>2. GoodTarget(d)
    BY DEF Acceptable
  <2> QED BY <2>1, <2>2 DEF GoodTarget, Present, PayloadRefused
<1>5. GoodSchedule(kept) /\ WrittenOrDefault(kept) = WrittenOrDefault(d)
  <2>1. \A f \in {"interval_seconds", "time_of_day", "day_of_week", "day_of_month",
                  "schedule_expression", "schedule_type", "timezone", "business_calendar_key",
                  "non_working_day_policy"} : kept[f] = d[f]
    BY <1>1, <1>3
  <2>2. GoodSchedule(d)
    BY DEF Acceptable
  <2>3. GoodSchedule(kept)
    BY <2>1, <2>2 DEF GoodSchedule, Present
  <2>4. WrittenOrDefault(kept) = WrittenOrDefault(d)
    BY <2>1 DEF WrittenOrDefault
  <2> QED BY <2>3, <2>4
<1>6. GoodIdentity(kept)
  <2>1. \A f \in {"key", "name", "status"} : kept[f] = d[f]
    BY <1>1, <1>3
  <2> QED BY <2>1 DEF Acceptable, GoodIdentity
<1>7. GoodPolicy(kept)
  <2>1. \A f \in {"max_attempts", "timeout_seconds", "max_catchup_windows", "next_run_at", "i18n",
                  "missed_window_policy"} : kept[f] = d[f]
    BY <1>1, <1>3
  <2>2. GoodPolicy(d)
    BY DEF Acceptable
  <2>3. ASSUME NEW f \in Retries, NEW n \in Nat, StrictInteger(OptionalInteger(d[f], n)),
               ~(OptionalInteger(d[f], n).n < 0)
        PROVE  StrictInteger(OptionalInteger(kept[f], n)) /\ OptionalInteger(kept[f], n).n \in Nat
    <3>1. StrictInteger(Number("int", n)) /\ Number("int", n).n = n
      BY DEF StrictInteger, StrictIntegers, Number
    <3>2. d[f].n \in Int
      BY FieldsOfTheSchedule DEF Document
    <3>3. OptionalInteger(Absent, n) = Number("int", n)
      BY DEF OptionalInteger
    <3>4. OptionalInteger(d[f], n).n \in Int
      BY <3>1, <3>2 DEF OptionalInteger
    <3>5. CASE kept[f] = d[f]
      BY <2>3, <3>4, <3>5
    <3>6. CASE kept[f] = Absent
      BY <3>1, <3>3, <3>6
    <3> QED BY <1>1, <3>5, <3>6
  <2> DEFINE delay == OptionalInteger(kept["retry_delay_seconds"], 30)
             longest == OptionalInteger(kept["retry_max_delay_seconds"], 900)
  <2>4. StrictInteger(delay) /\ StrictInteger(longest) /\ delay.n \in Nat /\ longest.n \in Nat
    <3>1. /\ StrictInteger(OptionalInteger(d["retry_delay_seconds"], 30))
          /\ ~(OptionalInteger(d["retry_delay_seconds"], 30).n < 0)
          /\ StrictInteger(OptionalInteger(d["retry_max_delay_seconds"], 900))
          /\ ~(OptionalInteger(d["retry_max_delay_seconds"], 900).n < 0)
      BY <2>2 DEF GoodPolicy
    <3>2. StrictInteger(delay) /\ delay.n \in Nat
      BY <2>3, <3>1
    <3>3. StrictInteger(longest) /\ longest.n \in Nat
      BY <2>3, <3>1
    <3> QED BY <3>2, <3>3
  <2>5. delay.n <= longest.n
    BY <1>2 DEF Policy
  <2>6. MissedWindowPolicy(kept) = MissedWindowPolicy(d)
    BY <2>1 DEF MissedWindowPolicy
  <2> HIDE DEF delay, longest
  <2>7. ~(delay.n < 0) /\ ~(longest.n < 0) /\ (longest.n > 0 => ~(longest.n < delay.n))
    BY <2>4, <2>5
  <2>8. /\ Present(kept, "max_attempts") /\ InRange(kept["max_attempts"], 1, 100)
        /\ Present(kept, "timeout_seconds") /\ InRange(kept["timeout_seconds"], 1, SecondsPerDay)
        /\ MissedWindowPolicy(kept) = "catch_up_bounded" =>
               InRange(kept["max_catchup_windows"], 1, 100)
        /\ MissedWindowPolicy(kept) # "catch_up_bounded" => ~Present(kept, "max_catchup_windows")
        /\ MissedWindowPolicy(kept) = "skip" =>
               TextValue(kept["missed_window_policy"]) \in {Empty, "skip"}
        /\ TextValue(kept["next_run_at"]) \in {Empty, "instant"}
        /\ kept["i18n"].kind \in {"absent", "map"}
    BY <2>1, <2>2, <2>6 DEF GoodPolicy, Present
  <2> QED BY <2>4, <2>7, <2>8 DEF GoodPolicy, delay, longest
<1>8. ~Present(kept, "interval_hours") /\ ~Present(kept, "interval_minutes")
  BY <1>1, <1>3 DEF Acceptable, Present
<1> QED BY <1>4, <1>5, <1>6, <1>7, <1>8 DEF Acceptable, kept

(* A document whose projection is acceptable loses no more than that. *)
LEMMA AcceptableLosesOnlyDelays ==
    ASSUME NEW d, Document(d), Acceptable(d), TakenForAbsent(d) = {}, Acceptable(Projected(d))
    PROVE  LosesOnlyDelays(d)
<1> DEFINE kept == WithoutLost(d)
           shown == Projected(d)
<1>1. /\ Document(kept) /\ TakenForAbsent(kept) = {} /\ Projected(kept) = shown
      /\ \A f \in NumberFields : kept[f].kind # "uint32"
      /\ \A f \in {"retry_delay_seconds", "retry_max_delay_seconds"} :
             Present(kept, f) => StrictInteger(kept[f]) /\ kept[f].n # 0
  BY NothingLost
<1>2. \A f \in Fields : kept[f] = IF f \in LostNumbers(d) THEN Absent ELSE d[f]
  BY NothingLost
<1> HIDE DEF kept
<1>3. \A f \in NumberFields :
          /\ StrictInteger(kept[f]) /\ kept[f].n # 0 => shown[f] = Number("float64", kept[f].n)
          /\ ~Present(kept, f) => shown[f] = Absent
  BY <1>1, ProjectionOf
<1>4. \A f \in TextFields :
          /\ TextValue(shown[f]) = TextValue(kept[f])
  BY <1>1, ProjectionOf
<1>5. \A f \in LostNumbers(d) : ~Present(shown, f) /\ Present(d, f) /\ shown[f] = Absent
  <2>1. \A f \in LostNumbers(d) : f \in NumberFields /\ f \in Fields /\ Present(d, f)
    BY KindsOfFields, CatalogAssumption, SchemaFields DEF LostNumbers
  <2> QED BY <1>2, <1>3, <2>1, AbsentReads DEF Present
<1>6. \A f \in {"schedule_type", "missed_window_policy"} : TextValue(shown[f]) = TextValue(d[f])
  <2>1. \A f \in {"schedule_type", "missed_window_policy"} :
            f \in TextFields /\ f \in Fields /\ f \notin LostNumbers(d)
    BY KindsOfFields, CatalogAssumption, SchemaFields DEF LostNumbers
  <2> QED BY <1>2, <1>4, <2>1
<1> HIDE DEF shown
<1>7. ~StrictInteger(Absent)
  BY AbsentReads DEF StrictInteger, StrictIntegers
<1>8. "max_attempts" \notin LostNumbers(d) /\ "timeout_seconds" \notin LostNumbers(d)
  BY <1>5 DEF Acceptable, GoodPolicy, shown
<1>9. "max_catchup_windows" \notin LostNumbers(d)
  <2>1. MissedWindowPolicy(shown) = MissedWindowPolicy(d)
    BY <1>6 DEF MissedWindowPolicy
  <2>2. Present(d, "max_catchup_windows") => MissedWindowPolicy(d) = "catch_up_bounded"
    BY DEF Acceptable, GoodPolicy
  <2>3. MissedWindowPolicy(shown) = "catch_up_bounded" => StrictInteger(shown["max_catchup_windows"])
    BY DEF Acceptable, GoodPolicy, InRange, shown
  <2> QED BY <1>5, <1>7, <2>1, <2>2, <2>3
<1>10. "interval_seconds" \notin LostNumbers(d) /\ "day_of_month" \notin LostNumbers(d)
  <2> DEFINE type == TextValue(d["schedule_type"])
  <2>1. /\ Present(d, "interval_seconds") => "interval_seconds" \in ReadBy(type)
        /\ Present(d, "day_of_month") => "day_of_month" \in ReadBy(type)
    BY DEF Acceptable, GoodSchedule
  <2>2. /\ "interval_seconds" \in ReadBy(type) => type = "interval"
        /\ "day_of_month" \in ReadBy(type) => type = "monthly_at"
    BY DEF ReadBy
  <2>3. /\ TextValue(shown["schedule_type"]) = "interval" =>
               StrictInteger(shown["interval_seconds"])
        /\ TextValue(shown["schedule_type"]) = "monthly_at" =>
               StrictInteger(shown["day_of_month"])
    BY DEF Acceptable, GoodSchedule, InRange, shown
  <2>4. TextValue(shown["schedule_type"]) = type
    BY <1>6
  <2> HIDE DEF type
  <2> QED BY <1>5, <1>7, <2>1, <2>2, <2>3, <2>4
<1>11. LostNumbers(d) \subseteq {"retry_delay_seconds", "retry_max_delay_seconds"}
  <2>1. LostNumbers(d) \subseteq NumberFields
    BY DEF LostNumbers
  <2> QED BY <1>8, <1>9, <1>10, <2>1, KindsOfFields
<1>12. ASSUME NEW f \in {"retry_delay_seconds", "retry_max_delay_seconds"}, NEW n \in Nat \ {0}
       PROVE  /\ OptionalInteger(shown[f], n).n = OptionalInteger(kept[f], n).n
              /\ OptionalInteger(kept[f], n).n \in Int \ {0}
  <2>1. f \in NumberFields /\ f \in Fields
    BY KindsOfFields, CatalogAssumption, SchemaFields
  <2>2. /\ \A m : Number("float64", m).n = m /\ Number("float64", m).kind = "float64"
        /\ Number("int", n).n = n
    BY DEF Number
  <2>3. CASE Present(kept, f)
    <3>1. shown[f] = Number("float64", kept[f].n) /\ kept[f].n \in Int \ {0}
      BY <1>1, <1>3, <2>1, <2>3 DEF Document
    <3>2. kept[f] # Absent /\ shown[f] # Absent
      BY <2>2, <2>3, <3>1, AbsentReads DEF Present
    <3> QED BY <2>2, <3>1, <3>2 DEF OptionalInteger
  <2>4. CASE ~Present(kept, f)
    <3>1. kept[f] = Absent /\ shown[f] = Absent
      BY <1>1, <1>3, <2>1, <2>4 DEF Document, Present
    <3> QED BY <2>2, <3>1 DEF OptionalInteger
  <2> QED BY <2>3, <2>4
<1>13. Policy(kept).delay <= Policy(kept).longest
  <2> DEFINE delay == OptionalInteger(kept["retry_delay_seconds"], 30).n
             longest == OptionalInteger(kept["retry_max_delay_seconds"], 900).n
  <2>1. /\ OptionalInteger(shown["retry_delay_seconds"], 30).n = delay
        /\ delay \in Int /\ delay # 0
    BY <1>12
  <2>2. /\ OptionalInteger(shown["retry_max_delay_seconds"], 900).n = longest
        /\ longest \in Int /\ longest # 0
    BY <1>12
  <2>3. LET a == OptionalInteger(shown["retry_delay_seconds"], 30)
            b == OptionalInteger(shown["retry_max_delay_seconds"], 900)
        IN  ~(b.n < 0) /\ (b.n > 0 => ~(b.n < a.n))
    BY DEF Acceptable, GoodPolicy, shown
  <2> HIDE DEF delay, longest
  <2>4. delay <= longest
    BY <2>1, <2>2, <2>3
  <2> QED BY <2>4 DEF Policy, delay, longest
<1> QED BY <1>11, <1>13 DEF LosesOnlyDelays, kept

(***************************************************************************)
(* The author's steps                                                      *)
(***************************************************************************)

(* The draft is a document of the values an author may write, and the      *)
(* answer is the verdict on the draft as it is now.                        *)
AuthoringInvariant ==
    /\ draft = [f \in Fields |-> draft[f]] /\ \A f \in Fields : draft[f] \in Choices[f]
    /\ edits \in 0..MaxEdits
    /\ answer = Unasked \/ answer = ValidateDefinitionData(draft)

(* The invariant of authoring holds of the first draft, ... *)
LEMMA AuthoringInvariantInit ==
    Init => AuthoringInvariant
<1> SUFFICES ASSUME Init PROVE AuthoringInvariant
  OBVIOUS
<1>1. draft = [f \in Fields |-> draft[f]] /\ \A f \in Fields : draft[f] \in Choices[f]
  BY AuthoringAssumption DEF Init
<1>2. edits \in 0..MaxEdits
  BY AuthoringAssumption DEF Init
<1> QED BY <1>1, <1>2 DEF Init, AuthoringInvariant

(* ... and is kept by every edit, submission and repair. *)
LEMMA AuthoringInvariantStep ==
    AuthoringInvariant /\ [Next]_authoringVars => AuthoringInvariant'
<1> SUFFICES ASSUME AuthoringInvariant, [Next]_authoringVars PROVE AuthoringInvariant'
  OBVIOUS
<1>1. CASE Edit
  <2>1. PICK f \in Fields : \E v \in Choices[f] : draft' = [draft EXCEPT ![f] = v]
    BY <1>1 DEF Edit
  <2>2. draft' = [g \in Fields |-> draft'[g]] /\ \A g \in Fields : draft'[g] \in Choices[g]
    BY <2>1 DEF AuthoringInvariant
  <2>3. edits' \in 0..MaxEdits
    BY <1>1, AuthoringAssumption DEF Edit, AuthoringInvariant
  <2>4. answer' = Unasked
    BY <1>1 DEF Edit
  <2> QED BY <2>2, <2>3, <2>4 DEF AuthoringInvariant
<1>2. CASE Submit
  BY <1>2 DEF Submit, AuthoringInvariant
<1>3. CASE Repair
  <2>1. PICK change \in [Reported(answer) -> UNION {Choices[f] : f \in Reported(answer)}] :
            /\ \A f \in Reported(answer) : change[f] \in Choices[f]
            /\ draft' = [f \in Fields |->
                            IF f \in Reported(answer) THEN change[f] ELSE draft[f]]
    BY <1>3 DEF Repair
  <2>2. draft' = [g \in Fields |-> draft'[g]] /\ \A g \in Fields : draft'[g] \in Choices[g]
    BY <2>1 DEF AuthoringInvariant
  <2>3. answer' = Unasked /\ edits' = edits
    BY <1>3 DEF Repair
  <2> QED BY <2>2, <2>3 DEF AuthoringInvariant
<1>4. CASE UNCHANGED authoringVars
  BY <1>4 DEF authoringVars, AuthoringInvariant
<1> QED BY <1>1, <1>2, <1>3, <1>4 DEF Next

(* In every reachable state the draft is a document the author may write,   *)
(* and what the author was last answered is the verdict on that draft.      *)
THEOREM AnswersAreAboutTheDraft == AuthoringSpec => []AuthoringInvariant
<1>1. Init => AuthoringInvariant
  BY AuthoringInvariantInit
<1>2. AuthoringInvariant /\ [Next]_authoringVars => AuthoringInvariant'
  BY AuthoringInvariantStep
<1> QED BY <1>1, <1>2, PTL DEF AuthoringSpec

(* What the invariant says of the draft and of the answer about it *)
LEMMA DraftIsADocument ==
    ASSUME AuthoringInvariant
    PROVE  Document(draft) /\ (answer = Valid => Acceptable(draft))
           /\ (answer \notin {Unasked, Valid} => Described(draft, answer) /\ answer.fails)
           /\ (answer.fails => Described(draft, answer))
<1>1. Document(draft)
  BY AuthoringAssumption DEF AuthoringInvariant, Document, Value
<1>2. answer = Unasked \/ answer = ValidateDefinitionData(draft)
  BY DEF AuthoringInvariant
<1>3. \/ ValidateDefinitionData(draft) = Valid /\ Acceptable(draft)
      \/ /\ ValidateDefinitionData(draft).fails
         /\ Described(draft, ValidateDefinitionData(draft))
  BY TheVerdict
<1> QED BY <1>1, <1>2, <1>3, ValidIsNoFailure

(* AuthoringTypeOK, in every reachable state: an answer names a field of the *)
(* document, or none.                                                        *)
THEOREM AuthoringTypeCorrect == AuthoringSpec => []AuthoringTypeOK
<1>1. ASSUME AuthoringInvariant PROVE AuthoringTypeOK
  <2>1. Valid.field = Empty /\ Unasked.field = Empty
    BY DEF Valid, Unasked, Check
  <2>2. answer.field \in Fields \cup {Empty}
    <3>1. CASE answer \in {Unasked, Valid}
      BY <2>1, <3>1
    <3>2. CASE answer \notin {Unasked, Valid}
      BY <1>1, <3>2, DraftIsADocument DEF Described
    <3> QED BY <3>1, <3>2
  <2> QED BY <1>1, <2>2 DEF AuthoringInvariant, AuthoringTypeOK
<1> QED BY <1>1, AnswersAreAboutTheDraft, PTL

(* AcceptedHasOneReading, in every reachable state: an accepted definition  *)
(* is previewed as one rule, which is the one the author wrote, or, exactly *)
(* where its interval or its day of the month is a uint32, that rule with   *)
(* a day or with the first of the month in its place.                       *)
THEOREM AcceptedDefinitionsHaveOneReading == AuthoringSpec => []AcceptedHasOneReading
<1>1. AuthoringInvariant => AcceptedHasOneReading
  BY DraftIsADocument, AcceptableIsReadAsWritten DEF AcceptedHasOneReading
<1> QED BY <1>1, AnswersAreAboutTheDraft, PTL

(* AcceptedIsASchedule, in every reachable state: the schedule made of an   *)
(* accepted definition passes the validation of package schedule.           *)
THEOREM AcceptedDefinitionsAreSchedules == AuthoringSpec => []AcceptedIsASchedule
<1>1. AuthoringInvariant => AcceptedIsASchedule
  BY DraftIsADocument, AcceptableIsASchedule DEF AcceptedIsASchedule
<1> QED BY <1>1, AnswersAreAboutTheDraft, PTL

(* No choice of the schema is the empty text. *)
LEMMA NoChoiceOfTheSchemaIsEmpty ==
    \A f \in TextFields : Empty \notin BusinessJobParameters[f].enum
<1> DEFINE B == BusinessJobParameters
<1>1. AnyText.enum = {} /\ \A texts : OneOf(texts).enum = texts
  BY DEF AnyText, OneOf, Parameter
<1> HIDE DEF B
<1>2. \A f \in {"key", "name", "schedule_expression", "time_of_day", "timezone",
                "business_calendar_key", "target_key", "target_object", "connection_key",
                "payload_json", "run_as_role", "description", "next_run_at"} : B[f].enum = {}
  BY <1>1, TextsOfTheSchema DEF B
<1>3. Empty \notin Weekdays /\ Empty \notin ScheduleTypes
  BY Zenon DEF Empty, Weekdays, ScheduleTypes
<1>4. /\ Empty \notin B["status"].enum /\ Empty \notin B["schedule_type"].enum
      /\ Empty \notin B["day_of_week"].enum
  BY <1>1, <1>3, ChoicesOfTheSchema, NoChoiceIsEmpty DEF B
<1>5. /\ Empty \notin B["missed_window_policy"].enum
      /\ Empty \notin B["non_working_day_policy"].enum /\ Empty \notin B["target_type"].enum
  BY <1>1, ChoicesOfTheSchema, NoChoiceIsEmpty DEF B
<1> QED BY <1>2, <1>4, <1>5, KindsOfFields DEF B

(* What conforms is in none of the ways outside the schema. *)
LEMMA ConformingIsInside ==
    ASSUME NEW d, Document(d), Conforms(d)
    PROVE  ~OutsideTheSchema(d)
<1>1. \A f \in Fields : Present(d, f) =>
          f \in DOMAIN BusinessJobParameters /\ Fits(BusinessJobParameters[f], d[f])
  BY DEF Conforms
<1>2. ~Present(d, "revision")
  <2>1. "revision" \in Fields /\ "revision" \notin DOMAIN BusinessJobParameters
    BY CatalogAssumption, SchemaFields
  <2> QED BY <1>1, <2>1
<1>3. \A f \in TextFields :
          /\ f \in Fields /\ BusinessJobParameters[f].type = "string"
          /\ Present(d, f) => Fits(BusinessJobParameters[f], d[f])
  <2>1. \A f \in TextFields :
            f \in DOMAIN BusinessJobParameters /\ BusinessJobParameters[f].type = "string"
    BY DEF TextFields
  <2>2. DOMAIN BusinessJobParameters \subseteq Fields
    BY CatalogAssumption
  <2> QED BY <1>1, <2>1, <2>2
<1>4. ASSUME NEW f \in TextFields, Present(d, f)
      PROVE  /\ d[f].kind = "string" /\ TextValue(d[f]) = d[f].text
             /\ BusinessJobParameters[f].enum # {} => d[f].text \in BusinessJobParameters[f].enum
  <2>1. Fits(BusinessJobParameters[f], d[f]) /\ BusinessJobParameters[f].type = "string"
    BY <1>3, <1>4
  <2> HIDE DEF BusinessJobParameters
  <2> QED BY <2>1 DEF Fits, TextValue
<1>5. TakenForAbsent(d) = {}
  BY <1>4 DEF TakenForAbsent, Present
<1>6. \A f \in TextFields :
          ~(BusinessJobParameters[f].enum # {} /\ Present(d, f) /\ TextValue(d[f]) = Empty)
  <2>1. \A f \in TextFields : Empty \notin BusinessJobParameters[f].enum
    BY NoChoiceOfTheSchemaIsEmpty
  <2> QED BY <1>4, <2>1
<1>7. d["day_of_week"].text \notin WeekdaysInShort
  <2>1. "day_of_week" \in TextFields /\ BusinessJobParameters["day_of_week"].enum # {}
    BY KindsOfFields
  <2>2. BusinessJobParameters["day_of_week"].enum = Weekdays
    BY ChoicesOfTheSchema DEF OneOf, Parameter
  <2>3. Weekdays \cap WeekdaysInShort = {}
    BY DEF Weekdays, WeekdaysInShort
  <2>4. CASE Present(d, "day_of_week")
    BY <1>4, <2>1, <2>2, <2>3, <2>4
  <2>5. CASE ~Present(d, "day_of_week")
    <3>1. d["day_of_week"].text = Empty
      BY <2>5, FieldsOfTheSchedule, AbsentReads DEF Document, Present
    <3>2. Empty \notin WeekdaysInShort
      BY Zenon DEF Empty, WeekdaysInShort
    <3> QED BY <3>1, <3>2
  <2> QED BY <2>4, <2>5
<1> QED BY <1>2, <1>5, <1>6, <1>7 DEF OutsideTheSchema

(* No field has an error of the nine codes published for it. *)
LEMMA UnpublishedForAll ==
    \A code \in Unpublished : PublishedFor(code) = {}
BY DEF Unpublished, PublishedFor

(* CatalogDescribesTheValidator, in every reachable state: an accepted      *)
(* document conforms to the published schema exactly when it is none of the *)
(* four kinds that are outside of it; one that conforms is not refused for  *)
(* a reason a schema has; and a refusal is published, for the field it is   *)
(* reported for, exactly when its code is none of nine.                     *)
THEOREM CatalogAndValidatorCompared == AuthoringSpec => []CatalogDescribesTheValidator
<1>1. ASSUME AuthoringInvariant PROVE SchemaAndValidatorAgree
  <2>1. answer = Valid => (Conforms(draft) <=> ~OutsideTheSchema(draft))
    BY <1>1, DraftIsADocument, AcceptableConforms, ConformingIsInside
  <2>2. Conforms(draft) => answer.code \notin SchemaCodes
    <3>1. Unasked.code \notin SchemaCodes /\ Valid.code \notin SchemaCodes
      BY DEF Unasked, Valid, Check, SchemaCodes
    <3>2. CASE answer \in {Unasked, Valid}
      BY <3>1, <3>2
    <3>3. CASE answer \notin {Unasked, Valid}
      BY <1>1, <3>3, DraftIsADocument DEF Described
    <3> QED BY <3>2, <3>3
  <2> QED BY <2>1, <2>2 DEF SchemaAndValidatorAgree
<1>2. ASSUME AuthoringInvariant PROVE RefusalsArePublished
  BY <1>2, DraftIsADocument, UnpublishedForAll DEF Described, RefusalsArePublished
<1>3. AuthoringInvariant => CatalogDescribesTheValidator
  BY <1>1, <1>2 DEF CatalogDescribesTheValidator
<1> QED BY <1>3, AnswersAreAboutTheDraft, PTL

(* ProjectionRunsAlike, in every reachable state: the management projection *)
(* of an accepted definition whose texts are texts is accepted exactly when *)
(* it loses no number but retry delays and the delays it is left with fit   *)
(* together; it then has the definition's rule, and its policy with the     *)
(* default for each delay that is lost.                                     *)
THEOREM ProjectionsRunAlike == AuthoringSpec => []ProjectionRunsAlike
<1>1. ASSUME AuthoringInvariant, answer = Valid, TakenForAbsent(draft) = {}
      PROVE  /\ ValidateDefinitionData(Projected(draft)) = Valid <=> LosesOnlyDelays(draft)
             /\ LosesOnlyDelays(draft) =>
                    /\ RulesRead(Projected(draft)) = RulesRead(draft)
                    /\ Policy(Projected(draft)) = Policy(WithoutLost(draft))
  <2> DEFINE kept == WithoutLost(draft)
             shown == Projected(draft)
  <2>1. Document(draft) /\ Acceptable(draft)
    BY <1>1, DraftIsADocument
  <2>2. ASSUME LosesOnlyDelays(draft)
        PROVE  /\ Document(shown) /\ Acceptable(shown)
               /\ WrittenOrDefault(shown) = WrittenOrDefault(draft) /\ Policy(shown) = Policy(kept)
    <3>1. /\ Document(kept) /\ TakenForAbsent(kept) = {} /\ Projected(kept) = shown
          /\ \A f \in NumberFields : kept[f].kind # "uint32"
          /\ \A f \in {"retry_delay_seconds", "retry_max_delay_seconds"} :
                 Present(kept, f) => kept[f].n # 0
      BY <1>1, <2>1, NothingLost
    <3>2. Acceptable(kept) /\ WrittenOrDefault(kept) = WrittenOrDefault(draft)
      BY <1>1, <2>1, <2>2, AcceptableWithoutDelays
    <3> HIDE DEF kept, shown
    <3>3. /\ Document(Projected(kept)) /\ Acceptable(Projected(kept))
          /\ WrittenOrDefault(Projected(kept)) = WrittenOrDefault(kept)
          /\ Policy(Projected(kept)) = Policy(kept)
      BY <3>1, <3>2, ProjectionIsAcceptable
    <3> QED BY <3>1, <3>2, <3>3
  <2>3. ValidateDefinitionData(shown) = Valid => LosesOnlyDelays(draft)
    <3>1. ValidateDefinitionData(shown) = Valid => Acceptable(shown)
      BY TheVerdict, ValidIsNoFailure
    <3> QED BY <1>1, <2>1, <3>1, AcceptableLosesOnlyDelays
  <2>4. LosesOnlyDelays(draft) => ValidateDefinitionData(shown) = Valid
    BY <2>2, TheVerdict
  <2>5. LosesOnlyDelays(draft) => RulesRead(shown) = RulesRead(draft)
    BY <2>1, <2>2, AcceptableIsReadAsWritten
  <2> QED BY <2>2, <2>3, <2>4, <2>5
<1>2. AuthoringInvariant => ProjectionRunsAlike
  BY <1>1 DEF ProjectionRunsAlike, LosesOnlyDelays
<1> QED BY <1>2, AnswersAreAboutTheDraft, PTL

-----------------------------------------------------------------------------
(***************************************************************************)
(* Publication                                                             *)
(***************************************************************************)

USE DEF Refusals

(* A well-typed snapshot has a fence, and issued sessions are sessions.     *)
LEMMA FencesAreTyped ==
    /\ \A m \in Snapshot : PublisherFence(m.publisherSession) \in Fence
    /\ NoFence \in Fence /\ NilSession \in Session
    /\ \A g \in Nat : /\ IssuedSession(g) \in Session
                      /\ PublisherFence(IssuedSession(g)) \in Fence
<1>1. \A n \in Nonce : SHA256(n) \in {"sha256"} \X Nonce
  BY DEF SHA256
<1>2. /\ <<"malformed", 0>> \in Nonce
      /\ \A g \in Nat : <<"issued", g>> \in Nonce
  BY DEF Nonce, NonceKinds
<1>3. \A s \in Session : PublisherFence(s) \in Fence
  BY <1>1 DEF Session, PublisherFence, Fence
<1>4. NoFence \in Fence /\ NilSession \in Session
  BY <1>1, <1>2 DEF NoFence, Fence, NilSession, Session
<1>5. \A g \in Nat : IssuedSession(g) \in Session
  BY <1>2 DEF IssuedSession, Session
<1> QED
  BY <1>3, <1>4, <1>5 DEF Snapshot

(* EvaluateDefinitionSnapshot answers one of seven verdicts. *)
LEMMA VerdictRange ==
    ASSUME NEW application, NEW fence, NEW current, NEW m
    PROVE  EvaluateDefinitionSnapshot(application, fence, current, m)
              \in Refusals \cup {"apply", "replay"}
BY DEF EvaluateDefinitionSnapshot, AgainstActive, RevisionVerdict

(* What "apply" entails: the snapshot's fence is the active one, and the   *)
(* cursor it leads to is beyond the current one.                           *)
LEMMA ApplyMovesForward ==
    ASSUME NEW fence \in Fence, NEW m \in Snapshot, NEW current,
           current = NoCursor \/ (current.publisherFence \in Fence /\ current.revision \in Nat),
           EvaluateDefinitionSnapshot(Application, fence, current, m) = "apply"
    PROVE  /\ PublisherFence(m.publisherSession) = fence
           /\ fence.generation > 0 /\ m.revision > 0
           /\ ContentAccepted(m.definitions)
           /\ CursorBefore(current, NextCursor(Application, m))
<1> DEFINE own == PublisherFence(m.publisherSession)
<1>1. own \in Fence /\ m.revision \in Nat
  BY FencesAreTyped DEF Snapshot
<1>2. /\ ValidFence(fence) /\ m.revision > 0 /\ ContentAccepted(m.definitions)
      /\ AgainstActive(own, fence) = "current"
  BY <1>1 DEF EvaluateDefinitionSnapshot, AgainstActive
<1>3. own = fence
  BY <1>1, <1>2 DEF AgainstActive, FenceEqual, Fence
<1>4. StartsOver(own, current)
        \/ (FenceEqual(own, current.publisherFence) /\ RevisionVerdict(current, m) = "apply")
  BY <1>2 DEF EvaluateDefinitionSnapshot
<1>5. fence.generation \in Nat /\ fence.generation > 0
  BY <1>2 DEF ValidFence, Fence
<1>6. CursorBefore(current, NextCursor(Application, m))
  <2>1. CASE current = NoCursor
    BY <2>1, <1>1, <1>3, <1>5 DEF CursorBefore, Before, NextCursor, NoCursor, NoFence
  <2>2. CASE current.publisherFence \in Fence /\ current.revision \in Nat
    <3>1. current.publisherFence.generation \in Nat
      BY <2>2 DEF Fence
    <3>2. CASE current # NoCursor /\ StartsOver(own, current)
      BY <3>1, <3>2, <1>1, <1>3, <1>5 DEF StartsOver, CursorBefore, Before, NextCursor
    <3>3. CASE FenceEqual(own, current.publisherFence) /\ RevisionVerdict(current, m) = "apply"
      BY <3>1, <3>3, <2>2, <1>1, <1>3, <1>5
      DEF FenceEqual, RevisionVerdict, CursorBefore, Before, NextCursor
    <3> QED BY <1>4, <2>1, <3>2, <3>3
  <2> QED BY <2>1, <2>2
<1> QED BY <1>2, <1>3, <1>5, <1>6

(* "replay" is answered only for the very position of the cursor. *)
LEMMA ReplayIsAtCursor ==
    ASSUME NEW fence \in Fence, NEW m \in Snapshot, NEW current,
           current = NoCursor \/ (current.publisherFence \in Fence /\ current.revision \in Nat),
           EvaluateDefinitionSnapshot(Application, fence, current, m) = "replay"
    PROVE  /\ m.publisherSession.generation = current.publisherFence.generation
           /\ m.revision = current.revision
<1> DEFINE own == PublisherFence(m.publisherSession)
<1>1. /\ ~StartsOver(own, current) /\ FenceEqual(own, current.publisherFence)
      /\ RevisionVerdict(current, m) = "replay"
  BY DEF EvaluateDefinitionSnapshot, AgainstActive
<1>2. current # NoCursor /\ current.revision \in Nat /\ m.revision \in Nat
  BY <1>1 DEF StartsOver, Snapshot
<1>3. m.revision = current.revision
  BY <1>1, <1>2 DEF RevisionVerdict
<1> QED BY <1>1, <1>3 DEF FenceEqual, PublisherFence

(* The verdicts of a snapshot that was published under an issued session,  *)
(* evaluated against a store that has issued that session.                 *)
LEMMA GenuineVerdict ==
    ASSUME NEW fence \in Fence, NEW m \in Snapshot, NEW current,
           IssuedFence(fence), PublishedOnce, PublishedBySession,
           current = NoCursor \/ Accepted(current),
           current.publisherFence \in Fence, current.revision \in Nat,
           m.publisherSession = IssuedSession(m.publisherSession.generation),
           m.publisherSession.generation <= fence.generation,
           EntryOf(m) \in published
    PROVE  /\ EvaluateDefinitionSnapshot(Application, fence, current, m)
                 \notin {"conflict", "mismatch", "required"}
           /\ EvaluateDefinitionSnapshot(Application, fence, current, m) = "stale" =>
                 \/ m.publisherSession.generation < fence.generation
                 \/ Before(m.publisherSession.generation, m.revision,
                           current.publisherFence.generation, current.revision)
<1> DEFINE own == PublisherFence(m.publisherSession)
           g == m.publisherSession.generation
<1>1. /\ g \in Nat /\ g > 0 /\ m.revision \in Nat /\ m.revision > 0
      /\ own.generation = g /\ fence.generation \in Nat /\ fence.generation > 0
  BY DEF PublishedBySession, EntryOf, Snapshot, Session, Fence, PublisherFence
<1>2. ValidFence(fence) /\ ValidSession(m.publisherSession)
  BY <1>1 DEF ValidFence, ValidSession, IssuedSession
<1>3. fence = PublisherFence(IssuedSession(fence.generation))
  BY <1>1 DEF IssuedFence, NoFence
<1>4. g = fence.generation => FenceEqual(own, fence)
  BY <1>3 DEF FenceEqual
<1>5. AgainstActive(own, fence) \in {"current", "stale"}
  BY <1>1, <1>4 DEF AgainstActive
<1>6. AgainstActive(own, fence) = "stale" => g < fence.generation
  BY <1>1, <1>4 DEF AgainstActive
<1>7. CASE current = NoCursor
  <2>1. EvaluateDefinitionSnapshot(Application, fence, current, m)
           \in {"invalid", "apply", AgainstActive(own, fence)}
    BY <1>1, <1>2, <1>7 DEF EvaluateDefinitionSnapshot, StartsOver
  <2> QED BY <2>1, <1>1, <1>5, <1>6
<1>8. CASE current # NoCursor
  <2> DEFINE h == current.publisherFence.generation
  <2>1. /\ h \in Nat /\ h > 0 /\ current.publisherFence = PublisherFence(IssuedSession(h))
        /\ current.application = Application /\ CursorEntry(current) \in published
    BY <1>8 DEF Accepted, IssuedFence, Fence, NoFence
  <2>2. current.revision > 0 /\ ValidCursor(current)
    BY <2>1 DEF PublishedBySession, CursorEntry, ValidCursor, ValidFence
  <2>3. g = h => FenceEqual(own, current.publisherFence)
    BY <2>1 DEF FenceEqual
  <2>4. g = h /\ m.revision = current.revision =>
           ContentSHA256(m.definitions) = current.contentSHA256
    BY <2>1 DEF PublishedOnce, EntryOf, CursorEntry
  <2>5. CASE g < h
    <3>1. EvaluateDefinitionSnapshot(Application, fence, current, m) \in {"invalid", "stale"}
      BY <1>1, <1>2, <1>8, <2>1, <2>2, <2>5 DEF EvaluateDefinitionSnapshot
    <3>2. Before(g, m.revision, h, current.revision)
      BY <2>5 DEF Before
    <3> QED BY <3>1, <3>2
  <2>6. CASE g > h
    <3>1. EvaluateDefinitionSnapshot(Application, fence, current, m)
             \in {"invalid", "apply", AgainstActive(own, fence)}
      BY <1>1, <1>2, <1>8, <2>1, <2>2, <2>6 DEF EvaluateDefinitionSnapshot, StartsOver
    <3> QED BY <3>1, <1>5, <1>6
  <2>7. CASE g = h
    <3>1. EvaluateDefinitionSnapshot(Application, fence, current, m)
             \in {"invalid", AgainstActive(own, fence), "apply", RevisionVerdict(current, m)}
      BY <1>1, <1>2, <1>8, <2>1, <2>2, <2>3, <2>7 DEF EvaluateDefinitionSnapshot, StartsOver
    <3>2. RevisionVerdict(current, m) \in {"stale", "apply", "replay"}
      BY <2>4, <2>7, <1>1 DEF RevisionVerdict
    <3>3. RevisionVerdict(current, m) = "stale" => Before(g, m.revision, h, current.revision)
      BY <2>7, <1>1 DEF RevisionVerdict, Before
    <3>4. CASE AgainstActive(own, fence) = "current"
      <4>1. EvaluateDefinitionSnapshot(Application, fence, current, m)
               \in {"invalid", "apply", RevisionVerdict(current, m)}
        BY <1>1, <1>2, <1>8, <2>1, <2>2, <2>3, <2>7, <3>4
        DEF EvaluateDefinitionSnapshot, StartsOver
      <4> QED BY <4>1, <3>2, <3>3
    <3>5. CASE AgainstActive(own, fence) = "stale"
      BY <3>1, <3>2, <3>5, <1>6
    <3> QED BY <3>4, <3>5, <1>5
  <2> QED BY <1>1, <2>1, <2>5, <2>6, <2>7
<1> QED BY <1>7, <1>8

-----------------------------------------------------------------------------

(* A decision stays consistent while sessions, published entries, requests *)
(* and the cursor only grow.                                               *)
LEMMA DecisionSurvives ==
    ASSUME NEW d, ConsistentDecision(d), TypeOK, TypeOK',
           PublishedBySession,
           requests \subseteq requests', published \subseteq published',
           active.generation <= active'.generation,
           cursor' = cursor \/ CursorBefore(cursor, cursor')
    PROVE  ConsistentDecision(d)'
<1>1. CASE d.status = "idle"
  BY <1>1 DEF ConsistentDecision
<1>2. CASE d.status # "idle"
  <2>1. /\ d.snapshot \in requests'
        /\ d.seenActive \in Fence /\ IssuedFence(d.seenActive)
        /\ d.seenActive.generation <= active'.generation
        /\ Genuine(d.snapshot) =>
              d.snapshot.publisherSession.generation <= d.seenActive.generation
        /\ d.verdict = EvaluateDefinitionSnapshot(
              Application, d.seenActive, d.seenCursor, d.snapshot)
    BY <1>2 DEF ConsistentDecision, TypeOK, Fence
  <2>2. d.seenCursor = NoCursor \/ Accepted(d.seenCursor)'
    BY <1>2 DEF ConsistentDecision, Accepted
  <2>3. ~CursorBefore(cursor', d.seenCursor)
    <3>1. ~CursorBefore(cursor, d.seenCursor)
      BY <1>2 DEF ConsistentDecision
    <3>2. /\ cursor.publisherFence.generation \in Nat /\ cursor.revision \in Nat
          /\ cursor'.publisherFence.generation \in Nat /\ cursor'.revision \in Nat
      BY DEF TypeOK, Fence
    <3>3. d.seenCursor.publisherFence.generation \in Nat /\ d.seenCursor.revision \in Nat
      <4>1. CASE d.seenCursor = NoCursor
        BY <4>1 DEF NoCursor, NoFence
      <4>2. CASE d.seenCursor # NoCursor
        <5>1. CursorEntry(d.seenCursor) \in published
          BY <1>2, <4>2 DEF ConsistentDecision, Accepted
        <5>2. active.generation \in Nat
          BY DEF TypeOK, Fence
        <5> QED BY <5>1, <5>2 DEF PublishedBySession, CursorEntry
      <4> QED BY <4>1, <4>2
    <3> QED BY <3>1, <3>2, <3>3 DEF CursorBefore, Before
  <2> QED BY <1>2, <2>1, <2>2, <2>3 DEF ConsistentDecision
<1> QED BY <1>1, <1>2

(* The same for all workers, when none of them moves. *)
LEMMA DecisionsSurvive ==
    ASSUME PublicationInvariant, TypeOK', worker' = worker,
           requests \subseteq requests', published \subseteq published',
           active.generation <= active'.generation,
           cursor' = cursor
    PROVE  DecisionsAreConsistent'
<1> SUFFICES ASSUME NEW w \in Workers PROVE ConsistentDecision(worker[w])'
  BY DEF DecisionsAreConsistent
<1> PICK d : d = worker[w]
  OBVIOUS
<1>1. ConsistentDecision(d) /\ TypeOK /\ PublishedBySession
  BY DEF PublicationInvariant, DecisionsAreConsistent
<1>2. ConsistentDecision(d)'
  BY <1>1, DecisionSurvives
<1> QED BY <1>2

(* A decision just taken is consistent. *)
LEMMA FreshDecision ==
    ASSUME PublicationInvariant, NEW m \in requests
    PROVE  ConsistentDecision(Evaluated(m))
<1>1. /\ active \in Fence /\ IssuedFence(active) /\ (cursor = NoCursor \/ Accepted(cursor))
      /\ active.generation \in Nat
      /\ cursor.publisherFence.generation \in Nat /\ cursor.revision \in Nat
  BY DEF PublicationInvariant, TypeOK, Fence
<1>2. ~CursorBefore(cursor, cursor)
  BY <1>1 DEF CursorBefore, Before
<1>3. Genuine(m) => m.publisherSession.generation <= active.generation
  <2> SUFFICES ASSUME Genuine(m) PROVE m.publisherSession.generation <= active.generation
    OBVIOUS
  <2>1. EntryOf(m) \in published
    BY DEF PublicationInvariant, RequestsAreKnown
  <2>2. EntryOf(m).generation \in 1..active.generation
    BY <2>1 DEF PublicationInvariant, PublishedBySession
  <2> QED BY <1>1, <2>2 DEF EntryOf
<1> QED BY <1>1, <1>2, <1>3 DEF ConsistentDecision, Evaluated

(* The publisher side of the invariant holds initially ... *)
LEMMA InvariantInit == PublicationInit => PublicationInvariant
<1> SUFFICES ASSUME PublicationInit PROVE PublicationInvariant
  OBVIOUS
<1> USE DEF PublicationInit
<1>1. TypeOK
  <2>1. Down \in [status : {"down", "claiming", "bound"}, attempt : Nat,
                  session : Session, revision : Nat]
    BY FencesAreTyped DEF Down
  <2>2. /\ cursor.application = Application
        /\ cursor.publisherFence \in Fence /\ cursor.revision \in Nat
    BY FencesAreTyped DEF NoCursor
  <2> QED BY <2>1, <2>2, FencesAreTyped DEF TypeOK, Idle
<1>2. IssuedFence(active)
  BY DEF IssuedFence
<1>3. SessionsAreIssued /\ SessionsAreUnique
  BY DEF SessionsAreIssued, SessionsAreUnique, Down
<1>4. PublishedBySession /\ PublishedOnce /\ RequestsAreKnown
  BY DEF PublishedBySession, PublishedOnce, RequestsAreKnown
<1>5. DecisionsAreConsistent
  BY DEF DecisionsAreConsistent, ConsistentDecision, Idle
<1>6. AcknowledgedIsDurable
  BY DEF AcknowledgedIsDurable, Before, NoCursor, NoFence
<1> QED BY <1>1, <1>2, <1>3, <1>4, <1>5, <1>6 DEF PublicationInvariant

(* ... and under every action of a publisher, ... *)
LEMMA ClaimAndCrashPreserve ==
    ASSUME PublicationInvariant, NEW p \in Processes, ClaimSession(p) \/ Crash(p)
    PROVE  PublicationInvariant'
<1> USE DEF PublicationInvariant
<1>1. UNCHANGED <<requests, active, cursor, worker, published, acknowledged>>
  BY DEF ClaimSession, Crash
<1>2. /\ process' \in [Processes -> [status : {"down", "claiming", "bound"}, attempt : Nat,
                                    session : Session, revision : Nat]]
      /\ claims' \subseteq [process : Processes, attempt : Nat]
  BY FencesAreTyped DEF TypeOK, ClaimSession, Crash, Down
<1>3. TypeOK'
  BY <1>1, <1>2 DEF TypeOK
<1>4. /\ process'[p].status # "bound"
      /\ \A q \in Processes \ {p} : process'[q] = process[q]
  BY DEF TypeOK, ClaimSession, Crash, Down
<1>5. SessionsAreIssued' /\ SessionsAreUnique'
  BY <1>1, <1>4 DEF SessionsAreIssued, SessionsAreUnique
<1>6. PublishedBySession'
  BY <1>1, <1>4 DEF PublishedBySession
<1>7. PublishedOnce' /\ RequestsAreKnown' /\ AcknowledgedIsDurable' /\ IssuedFence(active)'
      /\ (cursor = NoCursor \/ Accepted(cursor))'
  BY <1>1 DEF PublishedOnce, RequestsAreKnown, AcknowledgedIsDurable, Accepted
<1>8. active.generation <= active'.generation
  BY <1>1 DEF TypeOK, Fence
<1>9. DecisionsAreConsistent'
  BY <1>1, <1>3, <1>8, DecisionsSurvive
<1> QED BY <1>3, <1>5, <1>6, <1>7, <1>9

LEMMA PublishPreserves ==
    ASSUME PublicationInvariant, NEW p \in Processes, NEW payload \in Payloads,
           PublishSnapshot(p, payload)
    PROVE  PublicationInvariant'
<1> USE DEF PublicationInvariant
<1> DEFINE next == process[p].revision + 1
           sent == [publisherSession |-> process[p].session, revision |-> next,
                    definitions |-> payload]
           g == process[p].session.generation
<1>1. /\ process[p].status = "bound" /\ next \in Nat /\ next > 0
      /\ process' = [process EXCEPT ![p].revision = next]
      /\ requests' = requests \cup {sent} /\ published' = published \cup {EntryOf(sent)}
      /\ UNCHANGED <<claims, active, cursor, worker, acknowledged>>
  BY DEF PublishSnapshot, TypeOK
<1>2. sent \in Snapshot
  BY <1>1 DEF TypeOK, Snapshot
<1>3. TypeOK'
  BY <1>1, <1>2 DEF TypeOK
<1>4. /\ process[p].session = IssuedSession(g) /\ g \in 1..active.generation
      /\ g \in Nat /\ active.generation \in Nat
  BY <1>1 DEF SessionsAreIssued, TypeOK, Fence
<1>5. /\ process'[p].revision = next
      /\ \A q \in Processes : /\ process'[q].status = process[q].status
                              /\ process'[q].session = process[q].session
                              /\ q # p => process'[q].revision = process[q].revision
  BY <1>1 DEF TypeOK
<1>6. SessionsAreIssued' /\ SessionsAreUnique'
  BY <1>1, <1>5 DEF SessionsAreIssued, SessionsAreUnique
<1>7. /\ EntryOf(sent).generation = g /\ EntryOf(sent).revision = next
  BY DEF EntryOf
<1>8. \A e \in published : e.generation = g => e.revision < next
  BY <1>1 DEF PublishedBySession, TypeOK
<1>9. PublishedBySession'
  <2> SUFFICES ASSUME NEW e \in published'
               PROVE  /\ e.generation \in 1..active.generation
                      /\ e.revision \in Nat /\ e.revision > 0
                      /\ \A q \in Processes :
                            process'[q].status = "bound"
                              /\ process'[q].session.generation = e.generation
                            => e.revision <= process'[q].revision
    BY <1>1 DEF PublishedBySession
  <2>1. CASE e \in published
    <3>1. /\ e.generation \in 1..active.generation
          /\ e.revision \in Nat /\ e.revision > 0
      BY <2>1 DEF PublishedBySession
    <3> QED BY <2>1, <1>1, <1>5, <1>8, <3>1 DEF PublishedBySession
  <2>2. CASE e = EntryOf(sent)
    <3>1. \A q \in Processes :
             process'[q].status = "bound" /\ process'[q].session.generation = g => q = p
      BY <1>1, <1>5 DEF SessionsAreUnique
    <3> QED BY <2>2, <3>1, <1>1, <1>4, <1>5, <1>7
  <2> QED BY <2>1, <2>2, <1>1
<1>10. PublishedOnce'
  <2> SUFFICES ASSUME NEW e \in published', NEW f \in published',
                      e.generation = f.generation, e.revision = f.revision
               PROVE  e = f
    BY DEF PublishedOnce
  <2>1. CASE e \in published /\ f \in published
    BY <2>1 DEF PublishedOnce
  <2>2. CASE e = EntryOf(sent) \/ f = EntryOf(sent)
    BY <2>2, <1>1, <1>7, <1>8
  <2> QED BY <1>1, <2>1, <2>2
<1>11. RequestsAreKnown'
  BY <1>1, <1>4 DEF RequestsAreKnown
<1>12. AcknowledgedIsDurable' /\ IssuedFence(active)' /\ (cursor = NoCursor \/ Accepted(cursor))'
  BY <1>1 DEF AcknowledgedIsDurable, Accepted
<1>13. DecisionsAreConsistent'
  BY <1>1, <1>3, <1>4, DecisionsSurvive
<1> QED BY <1>3, <1>6, <1>9, <1>10, <1>11, <1>12, <1>13

(* ... a retry or a stray packet, ... *)
LEMMA SendPreserves ==
    ASSUME PublicationInvariant, PublicationAssumption,
           \/ \E p \in Processes, payload \in Payloads, m \in requests : Retransmit(p, m, payload)
           \/ \E m \in StraySnapshots : SendStray(m)
    PROVE  PublicationInvariant'
<1> USE DEF PublicationInvariant
<1>1. PICK n \in Snapshot : /\ requests' = requests \cup {n}
                            /\ Genuine(n) =>
                                 /\ n.publisherSession = IssuedSession(n.publisherSession.generation)
                                 /\ EntryOf(n) \in published
  <2>1. CASE \E p \in Processes, payload \in Payloads, m \in requests : Retransmit(p, m, payload)
    <3>1. PICK payload \in Payloads, m \in requests :
              /\ ContentSHA256(payload) = ContentSHA256(m.definitions)
              /\ requests' = requests \cup {[m EXCEPT !.definitions = payload]}
      BY <2>1 DEF Retransmit
    <3> DEFINE n == [m EXCEPT !.definitions = payload]
    <3>2. n \in Snapshot /\ m \in Snapshot
      BY <3>1 DEF TypeOK, Snapshot
    <3>3. /\ n.publisherSession = m.publisherSession /\ n.revision = m.revision
          /\ n.definitions = payload
      BY <3>2 DEF Snapshot
    <3>4. EntryOf(n) = EntryOf(m) /\ (Genuine(n) <=> Genuine(m))
      BY <3>1, <3>3 DEF EntryOf, Genuine
    <3> QED BY <3>1, <3>2, <3>3, <3>4 DEF RequestsAreKnown
  <2>2. CASE \E m \in StraySnapshots : SendStray(m)
    BY <2>2 DEF SendStray, PublicationAssumption, Genuine
  <2> QED BY <2>1, <2>2
<1>2. UNCHANGED <<process, claims, active, cursor, worker, published, acknowledged>>
  BY DEF Retransmit, SendStray
<1>3. TypeOK'
  BY <1>1, <1>2 DEF TypeOK
<1>4. /\ SessionsAreIssued' /\ SessionsAreUnique' /\ PublishedBySession' /\ PublishedOnce'
      /\ AcknowledgedIsDurable' /\ IssuedFence(active)' /\ (cursor = NoCursor \/ Accepted(cursor))'
  BY <1>2 DEF SessionsAreIssued, SessionsAreUnique, PublishedBySession, PublishedOnce,
              AcknowledgedIsDurable, Accepted
<1>5. RequestsAreKnown'
  BY <1>1, <1>2 DEF RequestsAreKnown
<1>6. active.generation <= active'.generation
  BY <1>2 DEF TypeOK, Fence
<1>7. DecisionsAreConsistent'
  BY <1>1, <1>2, <1>3, <1>6, DecisionsSurvive
<1> QED BY <1>3, <1>4, <1>5, <1>7

(* ... under the issue of a session, ... *)
LEMMA IssuePreserves ==
    ASSUME PublicationInvariant, NEW c \in claims, NEW delivered \in BOOLEAN,
           IssueSession(c, delivered)
    PROVE  PublicationInvariant'
<1> USE DEF PublicationInvariant
<1> DEFINE next == active.generation + 1
           q == c.process
<1>1. /\ q \in Processes /\ active.generation \in Nat /\ next \in Nat /\ next > 0
      /\ claims' = claims \ {c}
      /\ active' = PublisherFence(IssuedSession(next))
      /\ UNCHANGED <<requests, cursor, worker, published, acknowledged>>
  BY DEF IssueSession, TypeOK, Fence
<1>2. active' \in Fence /\ active'.generation = next /\ IssuedFence(active)'
  BY <1>1, FencesAreTyped DEF PublisherFence, IssuedSession, IssuedFence
<1>3. /\ \A p \in Processes \ {q} : process'[p] = process[p]
      /\ \/ process' = process
         \/ /\ process'[q].status = "bound" /\ process'[q].revision = 0
            /\ process'[q].session = IssuedSession(next)
  BY <1>1 DEF IssueSession, TypeOK
<1>4. process' \in [Processes -> [status : {"down", "claiming", "bound"}, attempt : Nat,
                                  session : Session, revision : Nat]]
  <2>1. IssuedSession(next) \in Session
    BY <1>1, FencesAreTyped
  <2> QED BY <1>1, <2>1 DEF IssueSession, TypeOK
<1>5. TypeOK'
  BY <1>1, <1>2, <1>4 DEF TypeOK
<1>6. IssuedSession(next).generation = next
  BY DEF IssuedSession
<1>7. \A p \in Processes : process[p].status = "bound" =>
          process[p].session.generation \in 1..active.generation
  BY DEF SessionsAreIssued
<1>8. SessionsAreIssued' /\ SessionsAreUnique'
  <2>1. SessionsAreIssued'
    <3> SUFFICES ASSUME NEW p \in Processes, process'[p].status = "bound"
                 PROVE  /\ process'[p].session = IssuedSession(process'[p].session.generation)
                        /\ process'[p].session.generation \in 1..active'.generation
      BY DEF SessionsAreIssued
    <3>1. CASE process'[p] = process[p]
      BY <3>1, <1>1, <1>2 DEF SessionsAreIssued
    <3>2. CASE process'[p].session = IssuedSession(next)
      BY <3>2, <1>1, <1>2, <1>6
    <3> QED BY <3>1, <3>2, <1>3
  <2>2. SessionsAreUnique'
    BY <1>1, <1>3, <1>6, <1>7 DEF SessionsAreUnique
  <2> QED BY <2>1, <2>2
<1>9. PublishedBySession'
  <2> SUFFICES ASSUME NEW e \in published
               PROVE  /\ e.generation \in 1..active'.generation
                      /\ e.revision \in Nat /\ e.revision > 0
                      /\ \A p \in Processes :
                            process'[p].status = "bound"
                              /\ process'[p].session.generation = e.generation
                            => e.revision <= process'[p].revision
    BY <1>1 DEF PublishedBySession
  <2>1. /\ e.generation \in 1..active.generation /\ e.revision \in Nat /\ e.revision > 0
        /\ \A p \in Processes :
              process[p].status = "bound" /\ process[p].session.generation = e.generation
                  => e.revision <= process[p].revision
    BY DEF PublishedBySession
  <2>2. e.generation # next
    BY <2>1, <1>1
  <2> QED BY <2>1, <2>2, <1>1, <1>2, <1>3, <1>6
<1>10. /\ PublishedOnce' /\ RequestsAreKnown' /\ AcknowledgedIsDurable'
       /\ (cursor = NoCursor \/ Accepted(cursor))'
  BY <1>1 DEF PublishedOnce, RequestsAreKnown, AcknowledgedIsDurable, Accepted
<1>11. DecisionsAreConsistent'
  BY <1>1, <1>2, <1>5, DecisionsSurvive
<1> QED BY <1>2, <1>5, <1>8, <1>9, <1>10, <1>11

(* ... and under every action of the Scheduler. *)
LEMMA DecidePreserves ==
    ASSUME PublicationInvariant,
           \/ \E w \in Workers : \/ \E m \in requests : HandleSnapshot(w, m)
                                 \/ RetryCommit(w)
           \/ RestartScheduler
    PROVE  PublicationInvariant'
<1> USE DEF PublicationInvariant
<1>1. UNCHANGED <<process, claims, requests, active, cursor, published, acknowledged>>
  BY DEF HandleSnapshot, RetryCommit, RestartScheduler
<1>2. /\ DOMAIN worker' = Workers
      /\ \A v \in Workers : \/ worker'[v] = worker[v] \/ worker'[v] = Idle
                            \/ \E m \in requests : worker'[v] = Evaluated(m)
  <2>1. CASE RestartScheduler
    BY <2>1 DEF RestartScheduler
  <2>2. CASE \E w \in Workers, m \in requests : HandleSnapshot(w, m)
    BY <2>2 DEF HandleSnapshot, TypeOK
  <2>3. CASE \E w \in Workers : RetryCommit(w)
    <3>1. PICK w \in Workers : RetryCommit(w)
      BY <2>3
    <3>2. worker[w].snapshot \in requests
      BY <3>1 DEF RetryCommit, DecisionsAreConsistent, ConsistentDecision
    <3> QED BY <3>1, <3>2 DEF RetryCommit, TypeOK
  <2> QED BY <2>1, <2>2, <2>3
<1>3. TypeOK'
  <2>1. \A v \in Workers :
          /\ worker'[v].status \in {"idle", "evaluated"}
          /\ worker'[v].verdict \in Refusals \cup {"none", "apply", "replay"}
    <3> SUFFICES ASSUME NEW v \in Workers
                 PROVE  /\ worker'[v].status \in {"idle", "evaluated"}
                        /\ worker'[v].verdict \in Refusals \cup {"none", "apply", "replay"}
      OBVIOUS
    <3>1. CASE worker'[v] = worker[v]
      BY <3>1 DEF TypeOK
    <3>2. CASE worker'[v] = Idle
      BY <3>2 DEF Idle
    <3>3. CASE \E m \in requests : worker'[v] = Evaluated(m)
      BY <3>3, VerdictRange DEF Evaluated
    <3> QED BY <3>1, <3>2, <3>3, <1>2
  <2> QED BY <1>1, <1>2, <2>1 DEF TypeOK
<1>4. /\ SessionsAreIssued' /\ SessionsAreUnique' /\ PublishedBySession' /\ PublishedOnce'
      /\ RequestsAreKnown' /\ AcknowledgedIsDurable' /\ IssuedFence(active)'
      /\ (cursor = NoCursor \/ Accepted(cursor))'
  BY <1>1 DEF SessionsAreIssued, SessionsAreUnique, PublishedBySession, PublishedOnce,
              RequestsAreKnown, AcknowledgedIsDurable, Accepted
<1>5. DecisionsAreConsistent'
  <2>1. \A d : ConsistentDecision(d) => ConsistentDecision(d)'
    BY <1>1 DEF ConsistentDecision, Accepted
  <2>2. \A v \in Workers : ConsistentDecision(worker[v])
    BY DEF DecisionsAreConsistent
  <2>3. ConsistentDecision(Idle)
    BY DEF ConsistentDecision, Idle
  <2>4. \A m \in requests : ConsistentDecision(Evaluated(m))
    BY FreshDecision
  <2> SUFFICES ASSUME NEW v \in Workers PROVE ConsistentDecision(worker[v])'
    BY DEF DecisionsAreConsistent
  <2>5. PICK d : d = worker'[v]
    OBVIOUS
  <2>6. ConsistentDecision(d)
    BY <1>2, <2>2, <2>3, <2>4, <2>5
  <2>7. ConsistentDecision(d)'
    BY <2>1, <2>6
  <2> QED BY <2>5, <2>7
<1> QED BY <1>3, <1>4, <1>5

(* What a decision under way says of the snapshot it is about. *)
LEMMA DecisionFacts ==
    ASSUME PublicationInvariant, NEW w \in Workers, worker[w].verdict # "none"
    PROVE  /\ worker[w].status = "evaluated"
           /\ ConsistentDecision(worker[w])
           /\ worker[w].snapshot \in requests /\ worker[w].snapshot \in Snapshot
           /\ worker[w].seenActive \in Fence
           /\ worker[w].seenCursor.publisherFence \in Fence
           /\ worker[w].seenCursor.revision \in Nat
           /\ worker[w].verdict = EvaluateDefinitionSnapshot(Application,
                 worker[w].seenActive, worker[w].seenCursor, worker[w].snapshot)
<1> USE DEF PublicationInvariant
<1>1. ConsistentDecision(worker[w]) /\ worker[w].status = "evaluated"
  BY DEF DecisionsAreConsistent, ConsistentDecision, TypeOK
<1>2. /\ worker[w].snapshot \in requests /\ worker[w].seenActive \in Fence
      /\ worker[w].seenCursor = NoCursor \/ Accepted(worker[w].seenCursor)
      /\ worker[w].verdict = EvaluateDefinitionSnapshot(Application,
             worker[w].seenActive, worker[w].seenCursor, worker[w].snapshot)
  BY <1>1 DEF ConsistentDecision
<1>3. worker[w].seenCursor.publisherFence \in Fence /\ worker[w].seenCursor.revision \in Nat
  <2>1. CASE worker[w].seenCursor = NoCursor
    BY <2>1, FencesAreTyped DEF NoCursor
  <2>2. CASE Accepted(worker[w].seenCursor)
    <3> PICK f : f = worker[w].seenCursor.publisherFence
      OBVIOUS
    <3>1. CursorEntry(worker[w].seenCursor) \in published /\ IssuedFence(f)
      BY <2>2 DEF Accepted
    <3>2. f.generation \in Nat /\ worker[w].seenCursor.revision \in Nat
      <4>1. active.generation \in Nat
        BY DEF TypeOK, Fence
      <4> QED BY <3>1, <4>1 DEF PublishedBySession, CursorEntry
    <3>3. f \in Fence
      BY <3>1, <3>2, FencesAreTyped DEF IssuedFence
    <3> QED BY <3>2, <3>3
  <2> QED BY <1>2, <2>1, <2>2
<1> QED BY <1>1, <1>2, <1>3 DEF TypeOK

(* A commit moves the cursor forward, to the active session's snapshot. *)
LEMMA CommitMovesForward ==
    ASSUME PublicationInvariant, PublicationAssumption, NEW w \in Workers, CommitSnapshot(w)
    PROVE  /\ CursorBefore(cursor, cursor')
           /\ cursor'.publisherFence = active
           /\ Accepted(cursor)'
           /\ ContentAccepted(worker[w].snapshot.definitions)
<1> USE DEF PublicationInvariant
<1> DEFINE m == worker[w].snapshot
<1>1. /\ worker[w].verdict = "apply" /\ active = worker[w].seenActive
      /\ cursor = worker[w].seenCursor /\ cursor' = NextCursor(Application, m)
      /\ published' = published
  BY DEF CommitSnapshot, Unchanged
<1>2. /\ m \in requests /\ m \in Snapshot
      /\ EvaluateDefinitionSnapshot(Application, active, cursor, m) = "apply"
  BY <1>1, DecisionFacts
<1>3. active \in Fence /\ cursor.publisherFence \in Fence /\ cursor.revision \in Nat
      /\ IssuedFence(active)
  BY DEF TypeOK
<1>4. /\ PublisherFence(m.publisherSession) = active /\ active.generation > 0
      /\ ContentAccepted(m.definitions) /\ CursorBefore(cursor, NextCursor(Application, m))
  BY <1>2, <1>3, ApplyMovesForward
<1>5. active = PublisherFence(IssuedSession(active.generation))
  BY <1>3, <1>4 DEF IssuedFence, NoFence
<1>6. SHA256(m.publisherSession.sessionNonce) = SHA256(<<"issued", active.generation>>)
  BY <1>4, <1>5 DEF PublisherFence, IssuedSession
<1>7. m.publisherSession.sessionNonce = <<"issued", active.generation>>
  BY <1>6 DEF SHA256
<1>8. Genuine(m)
  BY <1>7 DEF Genuine
<1>9. EntryOf(m) \in published
  BY <1>2, <1>8 DEF RequestsAreKnown
<1>10. CursorEntry(cursor') = EntryOf(m)
  BY <1>1 DEF CursorEntry, EntryOf, NextCursor, PublisherFence
<1>11. cursor'.publisherFence = active /\ cursor'.application = Application
  BY <1>1, <1>4 DEF NextCursor
<1>12. Accepted(cursor)'
  BY <1>1, <1>3, <1>4, <1>9, <1>10, <1>11 DEF Accepted
<1> QED BY <1>1, <1>4, <1>11, <1>12

LEMMA CommitPreserves ==
    ASSUME PublicationInvariant, PublicationAssumption, NEW w \in Workers, CommitSnapshot(w)
    PROVE  PublicationInvariant'
<1> USE DEF PublicationInvariant
<1> DEFINE m == worker[w].snapshot
<1>1. /\ worker[w].verdict = "apply" /\ cursor' = NextCursor(Application, m)
      /\ worker' = [worker EXCEPT ![w] = Idle] /\ Acknowledge(m)
      /\ UNCHANGED <<process, claims, requests, active, published>>
  BY DEF CommitSnapshot
<1>2. m \in Snapshot
  BY <1>1, DecisionFacts
<1>3. CursorBefore(cursor, cursor') /\ Accepted(cursor)' /\ cursor'.publisherFence = active
  BY CommitMovesForward
<1>4. /\ m.publisherSession.generation \in Nat /\ m.revision \in Nat
      /\ cursor'.publisherFence.generation = m.publisherSession.generation
      /\ cursor'.revision = m.revision /\ cursor'.application = Application
  BY <1>1, <1>2 DEF NextCursor, PublisherFence, Snapshot, Session
<1>5. acknowledged' \in [generation : Nat, revision : Nat]
  BY <1>1, <1>4 DEF Acknowledge, TypeOK
<1>6. TypeOK'
  BY <1>1, <1>3, <1>4, <1>5 DEF TypeOK, Idle
<1>7. AcknowledgedIsDurable'
  BY <1>1, <1>3, <1>4 DEF AcknowledgedIsDurable, Acknowledge, Before, CursorBefore, TypeOK, Fence
<1>8. /\ SessionsAreIssued' /\ SessionsAreUnique' /\ PublishedBySession' /\ PublishedOnce'
      /\ RequestsAreKnown' /\ IssuedFence(active)'
  BY <1>1 DEF SessionsAreIssued, SessionsAreUnique, PublishedBySession, PublishedOnce,
              RequestsAreKnown
<1>9. DecisionsAreConsistent'
  <2> SUFFICES ASSUME NEW v \in Workers PROVE ConsistentDecision(worker[v])'
    BY DEF DecisionsAreConsistent
  <2> PICK d : d = worker'[v]
    OBVIOUS
  <2>1. CASE v = w
    BY <2>1, <1>1 DEF TypeOK, ConsistentDecision, Idle
  <2>2. CASE v # w
    <3>1. d = worker[v] /\ ConsistentDecision(d)
      BY <2>2, <1>1 DEF TypeOK, DecisionsAreConsistent
    <3>2. active.generation <= active'.generation
      BY <1>1 DEF TypeOK, Fence
    <3>3. ConsistentDecision(d)'
      BY <3>1, <3>2, <1>1, <1>3, <1>6, DecisionSurvives
    <3> QED BY <3>3
  <2> QED BY <2>1, <2>2
<1> QED BY <1>3, <1>6, <1>7, <1>8, <1>9

LEMMA AnswerPreserves ==
    ASSUME PublicationInvariant, PublicationAssumption, NEW w \in Workers, AnswerSnapshot(w)
    PROVE  PublicationInvariant'
<1> USE DEF PublicationInvariant
<1> DEFINE m == worker[w].snapshot
<1>1. /\ worker[w].verdict # "none" /\ worker' = [worker EXCEPT ![w] = Idle]
      /\ \/ acknowledged' = acknowledged
         \/ worker[w].verdict = "replay" /\ Acknowledge(m)
      /\ UNCHANGED <<process, claims, requests, active, cursor, published>>
  BY DEF AnswerSnapshot
<1>2. /\ m \in Snapshot /\ ConsistentDecision(worker[w]) /\ worker[w].status = "evaluated"
      /\ worker[w].seenActive \in Fence
      /\ worker[w].seenCursor.publisherFence \in Fence /\ worker[w].seenCursor.revision \in Nat
      /\ worker[w].verdict = EvaluateDefinitionSnapshot(Application,
             worker[w].seenActive, worker[w].seenCursor, m)
  BY <1>1, DecisionFacts
<1>3. m.publisherSession.generation \in Nat /\ m.revision \in Nat
  BY <1>2 DEF Snapshot, Session
<1>4. worker[w].verdict = "replay" =>
         ~Before(cursor.publisherFence.generation, cursor.revision,
                 m.publisherSession.generation, m.revision)
  <2>1. ~CursorBefore(cursor, worker[w].seenCursor)
    BY <1>2 DEF ConsistentDecision
  <2>2. worker[w].verdict = "replay" =>
           /\ m.publisherSession.generation = worker[w].seenCursor.publisherFence.generation
           /\ m.revision = worker[w].seenCursor.revision
    <3> SUFFICES ASSUME worker[w].verdict = "replay"
                 PROVE  /\ m.publisherSession.generation
                              = worker[w].seenCursor.publisherFence.generation
                        /\ m.revision = worker[w].seenCursor.revision
      OBVIOUS
    <3> HIDE DEF m
    <3>1. EvaluateDefinitionSnapshot(Application, worker[w].seenActive,
                                     worker[w].seenCursor, m) = "replay"
      BY <1>2
    <3> QED BY <1>2, <3>1, ReplayIsAtCursor
  <2> QED BY <2>1, <2>2 DEF CursorBefore
<1>5. acknowledged' \in [generation : Nat, revision : Nat]
  BY <1>1, <1>3 DEF Acknowledge, TypeOK
<1>6. TypeOK'
  BY <1>1, <1>5 DEF TypeOK, Idle
<1>7. AcknowledgedIsDurable'
  BY <1>1, <1>4 DEF AcknowledgedIsDurable, Acknowledge
<1>8. /\ SessionsAreIssued' /\ SessionsAreUnique' /\ PublishedBySession' /\ PublishedOnce'
      /\ RequestsAreKnown' /\ IssuedFence(active)' /\ (cursor = NoCursor \/ Accepted(cursor))'
  BY <1>1 DEF SessionsAreIssued, SessionsAreUnique, PublishedBySession, PublishedOnce,
              RequestsAreKnown, Accepted
<1>9. DecisionsAreConsistent'
  <2> SUFFICES ASSUME NEW v \in Workers PROVE ConsistentDecision(worker[v])'
    BY DEF DecisionsAreConsistent
  <2> PICK d : d = worker'[v]
    OBVIOUS
  <2>1. \/ d.status = "idle" /\ d.verdict = "none"
        \/ ConsistentDecision(d)
    BY <1>1 DEF TypeOK, DecisionsAreConsistent, Idle
  <2>2. ConsistentDecision(d)'
    BY <2>1, <1>1 DEF ConsistentDecision, Accepted
  <2> QED BY <2>2
<1> QED BY <1>6, <1>7, <1>8, <1>9

-----------------------------------------------------------------------------

LEMMA StepPreserves ==
    ASSUME PublicationAssumption, PublicationInvariant, [PublicationNext]_vars
    PROVE  PublicationInvariant'
<1>1. CASE \E p \in Processes : ClaimSession(p) \/ Crash(p)
  BY <1>1, ClaimAndCrashPreserve
<1>2. CASE \E p \in Processes, payload \in Payloads : PublishSnapshot(p, payload)
  BY <1>2, PublishPreserves
<1>3. CASE \/ \E p \in Processes, payload \in Payloads, m \in requests : Retransmit(p, m, payload)
           \/ \E m \in StraySnapshots : SendStray(m)
  BY <1>3, SendPreserves
<1>4. CASE \E c \in claims, delivered \in BOOLEAN : IssueSession(c, delivered)
  BY <1>4, IssuePreserves
<1>5. CASE \/ \E w \in Workers : \/ \E m \in requests : HandleSnapshot(w, m)
                                 \/ RetryCommit(w)
           \/ RestartScheduler
  BY <1>5, DecidePreserves
<1>6. CASE \E w \in Workers : CommitSnapshot(w)
  BY <1>6, CommitPreserves
<1>7. CASE \E w \in Workers : AnswerSnapshot(w)
  BY <1>7, AnswerPreserves
<1>8. CASE UNCHANGED vars
  <2>1. TypeOK' /\ DecisionsAreConsistent'
    BY <1>8 DEF PublicationInvariant, vars, TypeOK, DecisionsAreConsistent, ConsistentDecision,
                Accepted
  <2> QED BY <1>8, <2>1 DEF PublicationInvariant, vars, SessionsAreIssued, SessionsAreUnique,
             PublishedBySession, PublishedOnce, RequestsAreKnown, AcknowledgedIsDurable, Accepted
<1> QED
  BY <1>1, <1>2, <1>3, <1>4, <1>5, <1>6, <1>7, <1>8 DEF PublicationNext, Finish

(* Publication keeps everything it knows issued and published, and every   *)
(* decision under way right for a store no newer than the present one.     *)
THEOREM PublicationSafe == PublicationSpec => []PublicationInvariant
<1>1. PublicationAssumption
  BY PublicationAssumption
<1>2. PublicationInvariant /\ [PublicationNext]_vars => PublicationInvariant'
  BY <1>1, StepPreserves
<1> QED
  BY <1>2, InvariantInit, PTL DEF PublicationSpec

(* Variables keep their shape (sdk.go's sessions, fences and cursors). *)
THEOREM PublicationTypeCorrect == PublicationSpec => []TypeOK
<1>1. PublicationInvariant => TypeOK
  BY DEF PublicationInvariant
<1> QED BY <1>1, PublicationSafe, PTL

(* The Scheduler only ever runs on definitions a process published. *)
THEOREM OnlyPublishedIsAccepted == PublicationSpec => []AcceptedWasPublished
<1>1. PublicationInvariant => AcceptedWasPublished
  BY DEF PublicationInvariant, AcceptedWasPublished, Accepted
<1> QED BY <1>1, PublicationSafe, PTL

(* A success that was answered is never undone. *)
THEOREM AcknowledgementIsDurable == PublicationSpec => []AcknowledgedIsDurable
<1>1. PublicationInvariant => AcknowledgedIsDurable
  BY DEF PublicationInvariant
<1> QED BY <1>1, PublicationSafe, PTL

(* A genuine publisher is never refused for a conflict or for its session, *)
(* and called stale only when it is.                                       *)
LEMMA VerdictsOnGenuine ==
    PublicationInvariant => GenuineNeverConflicts /\ StaleOnlyWhenSuperseded
<1>1. PublicationInvariant => GenuineNeverConflicts /\ StaleOnlyWhenSuperseded
  <2> SUFFICES ASSUME PublicationInvariant, NEW w \in Workers,
                      worker[w].verdict # "none", Genuine(worker[w].snapshot)
               PROVE  LET m == worker[w].snapshot
                      IN  /\ worker[w].verdict \notin {"conflict", "mismatch", "required"}
                          /\ worker[w].verdict = "stale" =>
                                \/ m.publisherSession.generation < active.generation
                                \/ Before(m.publisherSession.generation, m.revision,
                                          cursor.publisherFence.generation, cursor.revision)
    BY DEF GenuineNeverConflicts, StaleOnlyWhenSuperseded
  <2> DEFINE m == worker[w].snapshot
             seen == worker[w].seenCursor
             g == m.publisherSession.generation
  <2>1. /\ ConsistentDecision(worker[w]) /\ m \in requests /\ m \in Snapshot
        /\ worker[w].status = "evaluated" /\ worker[w].seenActive \in Fence
        /\ seen.publisherFence \in Fence /\ seen.revision \in Nat
        /\ worker[w].verdict = EvaluateDefinitionSnapshot(Application,
               worker[w].seenActive, seen, m)
    BY DecisionFacts
  <2>2. /\ IssuedFence(worker[w].seenActive)
        /\ worker[w].seenActive.generation <= active.generation
        /\ seen = NoCursor \/ Accepted(seen)
        /\ ~CursorBefore(cursor, seen)
        /\ g <= worker[w].seenActive.generation
    BY <2>1 DEF ConsistentDecision
  <2>3. /\ m.publisherSession = IssuedSession(g) /\ EntryOf(m) \in published
        /\ PublishedOnce /\ PublishedBySession
    BY <2>1 DEF PublicationInvariant, RequestsAreKnown
  <2>4. /\ worker[w].verdict \notin {"conflict", "mismatch", "required"}
        /\ worker[w].verdict = "stale" =>
              \/ g < worker[w].seenActive.generation
              \/ Before(g, m.revision, seen.publisherFence.generation, seen.revision)
    BY <2>1, <2>2, <2>3, GenuineVerdict
  <2>5. /\ g \in Nat /\ m.revision \in Nat /\ worker[w].seenActive.generation \in Nat
        /\ active.generation \in Nat /\ seen.publisherFence.generation \in Nat
        /\ cursor.publisherFence.generation \in Nat /\ cursor.revision \in Nat
    BY <2>1 DEF PublicationInvariant, TypeOK, Snapshot, Session, Fence
  <2> QED BY <2>1, <2>2, <2>4, <2>5 DEF CursorBefore, Before
<1> QED BY <1>1

(* A genuine publisher is never told that its snapshot conflicts or that   *)
(* its session is missing or another's, whatever was lost, repeated or     *)
(* reordered before (sdk.go:373).                                          *)
THEOREM GenuinePublishersAreServed == PublicationSpec => []GenuineNeverConflicts
BY VerdictsOnGenuine, PublicationSafe, PTL

(* A genuine publisher is called stale only when a newer session is active *)
(* or a later snapshot was accepted.                                       *)
THEOREM StaleMeansSuperseded == PublicationSpec => []StaleOnlyWhenSuperseded
BY VerdictsOnGenuine, PublicationSafe, PTL

(* Whoever changes the cursor moves it forward, under the active session.  *)
LEMMA CursorMoves ==
    PublicationInvariant /\ [PublicationNext]_vars
      => [cursor' # cursor => CursorBefore(cursor, cursor')]_vars
         /\ [cursor' # cursor => cursor'.publisherFence = active]_vars
<1> SUFFICES ASSUME PublicationInvariant, PublicationNext, cursor' # cursor
             PROVE  CursorBefore(cursor, cursor') /\ cursor'.publisherFence = active
  BY DEF vars
<1>1. PICK w \in Workers : CommitSnapshot(w)
  BY DEF PublicationNext, ClaimSession, Crash, PublishSnapshot, Retransmit, SendStray,
         IssueSession, HandleSnapshot, Finish, RetryCommit, AnswerSnapshot, RestartScheduler
<1> QED BY <1>1, PublicationAssumption, CommitMovesForward

(* The accepted cursor never falls back, to an older session or revision   *)
(* (EvaluateDefinitionSnapshot and the store's compare-and-swap).          *)
THEOREM CursorOnlyAdvances == PublicationSpec => CursorAdvances
BY CursorMoves, PublicationSafe, PTL DEF PublicationSpec, CursorAdvances

(* Only a snapshot of the session active at the write is accepted, however *)
(* long ago it was sent or evaluated.                                      *)
THEOREM RetiredSessionsNeverWrite == PublicationSpec => OnlyActiveSessionWrites
BY CursorMoves, PublicationSafe, PTL DEF PublicationSpec, OnlyActiveSessionWrites

-----------------------------------------------------------------------------
(* Publication implements PublicationOrder *)

WithinBounds ==
    /\ active.generation <= MaxGeneration
    /\ published \subseteq Order!Entry

LEMMA BoundsStep ==
    ASSUME PublicationAssumption, PublicationInvariant, WithinBounds, [PublicationNext]_vars
    PROVE  WithinBounds'
<1> USE DEF WithinBounds
<1>1. active.generation \in Nat
  BY DEF PublicationInvariant, TypeOK, Fence
<1>2. CASE \E p \in Processes, payload \in Payloads : PublishSnapshot(p, payload)
  <2>1. PICK p \in Processes, payload \in Payloads : PublishSnapshot(p, payload)
    BY <1>2
  <2> DEFINE sent == [publisherSession |-> process[p].session,
                      revision |-> process[p].revision + 1, definitions |-> payload]
  <2>2. /\ process[p].session.generation \in 1..active.generation
        /\ process[p].revision \in Nat /\ process[p].revision + 1 <= MaxRevision
        /\ published' = published \cup {EntryOf(sent)} /\ active' = active
    BY <2>1 DEF PublishSnapshot, PublicationInvariant, SessionsAreIssued, TypeOK
  <2>3. EntryOf(sent) \in Order!Entry
    BY <1>1, <2>2 DEF EntryOf, Order!Entry, PublicationAssumption
  <2> QED BY <2>2, <2>3
<1>3. CASE \E c \in claims, delivered \in BOOLEAN : IssueSession(c, delivered)
  BY <1>3 DEF IssueSession, PublisherFence, IssuedSession
<1>4. CASE active' = active /\ published' = published
  BY <1>4
<1> QED
  BY <1>2, <1>3, <1>4
  DEF PublicationNext, ClaimSession, Crash, Retransmit, SendStray, HandleSnapshot, Finish,
      CommitSnapshot, RetryCommit, AnswerSnapshot, RestartScheduler, vars

LEMMA StepRefines ==
    ASSUME PublicationAssumption, PublicationInvariant, WithinBounds, WithinBounds',
           [PublicationNext]_vars
    PROVE  [Order!ONext]_(Order!ovars)
<1>1. CASE \E p \in Processes, payload \in Payloads : PublishSnapshot(p, payload)
  <2>1. PICK p \in Processes, payload \in Payloads : PublishSnapshot(p, payload)
    BY <1>1
  <2> DEFINE sent == [publisherSession |-> process[p].session,
                      revision |-> process[p].revision + 1, definitions |-> payload]
             e == EntryOf(sent)
  <2>2. /\ published' = published \cup {e} /\ active' = active /\ cursor' = cursor
        /\ process[p].status = "bound" /\ process[p].revision \in Nat
    BY <2>1 DEF PublishSnapshot, PublicationInvariant, TypeOK
  <2>3. /\ e.generation = process[p].session.generation /\ e.revision = process[p].revision + 1
    BY DEF EntryOf
  <2>4. e.generation <= active.generation
    BY <2>2, <2>3 DEF PublicationInvariant, SessionsAreIssued, TypeOK, Fence
  <2>5. \A f \in published : f.generation = e.generation => f.revision < e.revision
    BY <2>2, <2>3 DEF PublicationInvariant, PublishedBySession
  <2>6. e \in Order!Entry
    BY <2>2 DEF WithinBounds
  <2> HIDE DEF e
  <2>7. Order!Publish(e)
    BY <2>2, <2>4, <2>5 DEF Order!Publish
  <2> QED BY <2>6, <2>7 DEF Order!ONext
<1>2. CASE \E c \in claims, delivered \in BOOLEAN : IssueSession(c, delivered)
  <2>1. active'.generation = active.generation + 1 /\ active'.generation <= MaxGeneration
        /\ UNCHANGED <<published, cursor>>
    BY <1>2 DEF IssueSession, PublisherFence, IssuedSession
  <2>2. Order!Issue
    BY <2>1 DEF Order!Issue, PublicationInvariant, TypeOK, Fence, PublicationAssumption
  <2> QED BY <2>2 DEF Order!ONext
<1>3. CASE \E w \in Workers : CommitSnapshot(w)
  <2>1. PICK w \in Workers : CommitSnapshot(w)
    BY <1>3
  <2> DEFINE e == CursorEntry(cursor')
  <2>2. /\ CursorBefore(cursor, cursor') /\ cursor'.publisherFence = active
        /\ Accepted(cursor)' /\ published' = published /\ active' = active
    BY <2>1, CommitMovesForward DEF CommitSnapshot
  <2>3. e \in published /\ e.generation = active.generation
    BY <2>2 DEF Accepted, CursorEntry
  <2>4. Order!Precedes(CursorEntry(cursor), e)
    BY <2>2 DEF Order!Precedes, CursorEntry, CursorBefore, Before
  <2>5. Order!Accept(e)
    BY <2>2, <2>3, <2>4 DEF Order!Accept
  <2>6. e \in Order!Entry
    BY <2>3 DEF WithinBounds
  <2> QED BY <2>5, <2>6 DEF Order!ONext
<1>4. CASE UNCHANGED <<active, published, cursor>>
  BY <1>4 DEF Order!ovars
<1> QED
  BY <1>1, <1>2, <1>3, <1>4
  DEF PublicationNext, ClaimSession, Crash, Retransmit, SendStray, HandleSnapshot, Finish,
      RetryCommit, AnswerSnapshot, RestartScheduler, vars

(* Publication over the network, with crashes, retries and restarts, does  *)
(* nothing the ordered log of accepted snapshots does not allow.           *)
THEOREM PublicationImplementsOrder == PublicationSpec => ImplementsOrder
<1>1. PublicationInit => Order!OInit /\ WithinBounds
  <2> SUFFICES ASSUME PublicationInit PROVE Order!OInit /\ WithinBounds
    OBVIOUS
  <2>1. active.generation = 0 /\ published = {} /\ cursor = NoCursor
    BY DEF PublicationInit, NoFence
  <2>2. CursorEntry(NoCursor) = Order!NoEntry
    BY DEF CursorEntry, NoCursor, NoFence, Order!NoEntry
  <2>3. Order!OInit
    BY <2>1, <2>2 DEF Order!OInit
  <2>4. 0 <= MaxGeneration
    BY PublicationAssumption DEF PublicationAssumption
  <2> QED BY <2>1, <2>3, <2>4 DEF WithinBounds
<1>2. PublicationInvariant /\ WithinBounds /\ [PublicationNext]_vars => WithinBounds'
  BY PublicationAssumption, BoundsStep
<1>3. PublicationInvariant /\ WithinBounds /\ WithinBounds' /\ [PublicationNext]_vars
        => [Order!ONext]_(Order!ovars)
  BY PublicationAssumption, StepRefines
<1> QED
  BY <1>1, <1>2, <1>3, PublicationSafe, PTL DEF PublicationSpec, ImplementsOrder, Order!OSpec
=============================================================================
