---------------------------- MODULE AuthoringCatalog ----------------------------
(***************************************************************************)
(* What the Scheduler publishes about the documents of Authoring: the      *)
(* JSON schema of a business job, the errors a validation reports, and the *)
(* management projection an operator reads and may send back to be         *)
(* validated.  The three are written apart from ValidateDefinitionData.    *)
(*                                                                         *)
(* The texts of a document are trimmed and in lower case, and so are the   *)
(* schema's enumerations.                                                  *)
(***************************************************************************)
EXTENDS Authoring

(* The parameters of a business job, as their schema has them: a type, and *)
(* an enumeration of texts or a range of whole numbers.                    *)
Parameter(type, enum, range) == [type |-> type, enum |-> enum, range |-> range]

AnyText == Parameter("string", {}, Int)
OneOf(texts) == Parameter("string", texts, Int)
Whole(range) == Parameter("integer", {}, range)
AnObject == Parameter("object", {}, Int)

BusinessJobParameters ==
    [key                     |-> AnyText,
     name                    |-> AnyText,
     status                  |-> OneOf({"archived", "disabled", "draft", "enabled", "paused"}),
     schedule_type           |-> OneOf(ScheduleTypes),
     schedule_expression     |-> AnyText,
     time_of_day             |-> AnyText,
     day_of_week             |-> OneOf(Weekdays),
     day_of_month            |-> Whole(1..31),
     interval_seconds        |-> Whole(Nat \ {0}),
     missed_window_policy    |-> OneOf({"catch_up_bounded", "catch_up_one", "skip"}),
     max_catchup_windows     |-> Whole(1..100),
     timezone                |-> AnyText,
     business_calendar_key   |-> AnyText,
     non_working_day_policy  |-> OneOf({"roll_forward", "skip"}),
     target_type             |-> OneOf({"business_action", "http", "report_snapshot_refresh",
                                        "workflow"}),
     target_key              |-> AnyText,
     target_object           |-> AnyText,
     connection_key          |-> AnyText,
     payload_json            |-> AnyText,
     run_as_role             |-> AnyText,
     max_attempts            |-> Whole(1..100),
     retry_delay_seconds     |-> Whole(Nat),
     retry_max_delay_seconds |-> Whole(Nat),
     timeout_seconds         |-> Whole(1..SecondsPerDay),
     description             |-> AnyText,
     i18n                    |-> AnObject,
     next_run_at             |-> AnyText]

RequiredParameters ==
    {"key", "name", "status", "schedule_type", "target_type", "target_key", "max_attempts",
     "timeout_seconds"}

(* A document has the parameters, a revision, and keys that are no fields. *)
ASSUME CatalogAssumption ==
    Fields = DOMAIN BusinessJobParameters \cup {"revision", "interval_hours", "interval_minutes"}

Fits(parameter, v) ==
    \/ /\ parameter.type = "string" /\ v.kind = "string"
       /\ parameter.enum # {} => v.text \in parameter.enum
    \/ parameter.type = "integer" /\ StrictInteger(v) /\ v.n \in parameter.range
    \/ parameter.type = "object" /\ v.kind = "map"

(* A faulty variant: the schema is open to other properties. *)
ConformsOpen(d) ==
    /\ \A f \in Fields \cap DOMAIN BusinessJobParameters :
           Present(d, f) => Fits(BusinessJobParameters[f], d[f])
    /\ \A f \in RequiredParameters : Present(d, f)

(* schedulerObjectSchema: a closed object *)
Conforms(d) ==
    /\ \A f \in Fields : Present(d, f) =>
           f \in DOMAIN BusinessJobParameters /\ Fits(BusinessJobParameters[f], d[f])
    /\ \A f \in RequiredParameters : Present(d, f)

(* schedulerDefinitionAuthoringErrors: the fields an error is published    *)
(* for; an error published for the document may report any of them.        *)
PublishedFor(code) ==
    CASE code = "key_required" -> {"key"}
      [] code = "name_required" -> {"name"}
      [] code \in {"target_type_required", "target_type_unsupported"} -> {"target_type"}
      [] code = "target_key_required" -> {"target_key"}
      [] code = "business_action_object_required" -> {"target_object"}
      [] code = "business_action_role_required" -> {"run_as_role"}
      [] code = "payload_invalid" -> {"payload_json"}
      [] code = "http_connection_required" -> {"connection_key"}
      [] code \in {"field_unsupported", "field_not_applicable"} -> Fields
      [] code = "status_invalid" -> {"status"}
      [] code = "max_attempts_required" -> {"max_attempts"}
      [] code = "timeout_required" -> {"timeout_seconds"}
      [] code = "next_run_at_invalid" -> {"next_run_at"}
      [] code = "i18n_invalid" -> {"i18n"}
      [] code = "retry_policy_invalid" -> {"retry_delay_seconds"}
      [] code \in {"timezone_invalid", "business_calendar_timezone_required"} -> {"timezone"}
      [] code = "non_working_day_policy_invalid" -> {"non_working_day_policy"}
      [] code \in {"schedule_type_required", "schedule_type_invalid"} -> {"schedule_type"}
      [] code = "interval_invalid" -> {"interval_seconds"}
      [] code = "cron_invalid" -> {"schedule_expression"}
      [] OTHER -> {}

-----------------------------------------------------------------------------
(* ProjectManagementDefinition *)

(* stringValue prints what is not text. *)
StringValue(v) ==
    CASE v.kind = "absent" -> Empty
      [] v.kind = "string" -> v.text
      [] OTHER             -> "printed"

IntValue(v) == IntRead(v, 0)

TextFields == {f \in DOMAIN BusinessJobParameters : BusinessJobParameters[f].type = "string"}
NumberFields == {f \in DOMAIN BusinessJobParameters : BusinessJobParameters[f].type = "integer"}

(* A field of the projection as JSON: what is empty, or zero, is left out, *)
(* but for the key and the status.  The projection falls back on what is   *)
(* no field of a definition (the record's id, cron_expression) and adds    *)
(* created_at; neither is modelled.                                        *)
Shown(f, v) ==
    IF f \in TextFields /\ (StringValue(v) # Empty \/ f \in {"key", "status"})
    THEN Text(StringValue(v))
    ELSE IF f \in NumberFields /\ IntValue(v) # 0 THEN Number("float64", IntValue(v))
    ELSE IF f = "i18n" /\ v.kind = "map" THEN v
    ELSE Absent

(* A faulty variant: the bound of a catch-up is forgotten. *)
ProjectedUnbounded(d) ==
    [f \in Fields |-> IF f = "max_catchup_windows" THEN Absent ELSE Shown(f, d[f])]

Projected(d) == [f \in Fields |-> Shown(f, d[f])]

-----------------------------------------------------------------------------

(* What validation takes for absent, and the schema does not: a value that *)
(* is no text where one is expected.                                       *)
TakenForAbsent(d) == {f \in TextFields : d[f].kind \notin {"absent", "string"}}

(* Every refusal by what the schema itself demands *)
SchemaCodes ==
    {"field_unsupported", "target_type_required", "target_type_unsupported",
     "max_attempts_required", "max_attempts_invalid", "timeout_required", "timeout_invalid",
     "missed_window_policy_invalid", "i18n_invalid", "schedule_type_required",
     "schedule_type_invalid", "non_working_day_policy_invalid", "status_invalid"}

(* What the validator takes, and the schema of the same document does not: *)
(* a revision; a value that is no text where a text is expected, which it  *)
(* takes for absent; an empty text in place of a choice; and the short     *)
(* names of weekdays.                                                      *)
OutsideTheSchema(d) ==
    \/ Present(d, "revision") \/ TakenForAbsent(d) # {}
    \/ \E f \in TextFields :
           BusinessJobParameters[f].enum # {} /\ Present(d, f) /\ TextValue(d[f]) = Empty
    \/ d["day_of_week"].text \in WeekdaysInShort

(* The published schema and the validator compared: an accepted document   *)
(* conforms to the schema but in the four ways named above, and in each of *)
(* these it does not; one that conforms is only refused for what fields    *)
(* mean to each other or for how a text parses.                            *)
SchemaAndValidatorAgree ==
    /\ answer = Valid => (Conforms(draft) <=> ~OutsideTheSchema(draft))
    /\ Conforms(draft) => answer.code \notin SchemaCodes

(* The nine codes the validator reports and the catalog does not publish,  *)
(* two of which the catalog's own examples expect                          *)
Unpublished ==
    {"workflow_target_invalid", "report_target_invalid", "max_attempts_invalid",
     "timeout_invalid", "max_catchup_windows_invalid", "missed_window_policy_invalid",
     "time_of_day_invalid", "day_of_week_invalid", "day_of_month_invalid"}

(* A refusal is one of the published errors, reported for a field it is    *)
(* published for, exactly when it is none of the nine.                     *)
RefusalsArePublished ==
    answer \notin {Unasked, Valid} =>
        (answer.field \in PublishedFor(answer.code) <=> answer.code \notin Unpublished)

(* What is published about documents, and what the validator does: they    *)
(* differ in four kinds of documents and nine codes, and in nothing else.  *)
CatalogDescribesTheValidator == SchemaAndValidatorAgree /\ RefusalsArePublished

(* Retries, lateness and limits, with their defaults *)
Policy(d) ==
    [attempts |-> d["max_attempts"].n, timeout |-> d["timeout_seconds"].n,
     missed |-> MissedWindowPolicy(d), catchup |-> d["max_catchup_windows"].n,
     delay |-> OptionalInteger(d["retry_delay_seconds"], 30).n,
     longest |-> OptionalInteger(d["retry_max_delay_seconds"], 900).n]

(* The numbers the projection has none of: zeros, and those Int does not   *)
(* know.                                                                   *)
LostNumbers(d) == {f \in NumberFields : Present(d, f) /\ IntValue(d[f]) = 0}
WithoutLost(d) == [f \in Fields |-> IF f \in LostNumbers(d) THEN Absent ELSE d[f]]

(* An operator reads the projection of an accepted definition and sends it *)
(* back: it is accepted exactly when no number but the retry delays is     *)
(* lost and the delays left, a default for each that is lost, still fit    *)
(* together.  It then has the same rule, and the same policy but for these *)
(* defaults.  So a delay of zero comes back as thirty seconds, or not at   *)
(* all where the longest delay is shorter.  The definition's texts are     *)
(* texts: what is not is printed, and no longer taken for absent.          *)
ProjectionRunsAlike ==
    answer = Valid /\ TakenForAbsent(draft) = {} =>
        LET shown == Projected(draft)
            policy == Policy(WithoutLost(draft))
            whole == /\ LostNumbers(draft) \subseteq
                            {"retry_delay_seconds", "retry_max_delay_seconds"}
                     /\ policy.delay <= policy.longest
        IN  /\ ValidateDefinitionData(shown) = Valid <=> whole
            /\ whole => RulesRead(shown) = RulesRead(draft) /\ Policy(shown) = policy
=============================================================================
