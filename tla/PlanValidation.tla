---------------------------- MODULE PlanValidation ----------------------------
(***************************************************************************)
(* From a product's plan to its runs: a plan is written, validated by      *)
(* ValidateScheduledPlanCreate, and then polled by the clock, which reads  *)
(* it again in its own way: what validation trims the clock may compare    *)
(* as it stands.                                                           *)
(*                                                                         *)
(* A draft has a value per field, those from type to closed_days of its    *)
(* schedule; type none is the nil schedule.  Texts are trimmed by Trim.    *)
(* Instants and clocks are Nil when they are missing or do not parse.      *)
(* What is checked of the owner, the client ID, the name, the target, the  *)
(* input, the actions, the conversation and the status is one value,       *)
(* facts: nothing here depends on it.                                      *)
(***************************************************************************)
EXTENDS Misfire, Sequences

CONSTANTS FieldValues,   \* for each field, the values a product may send
          Plans,         \* the plans it starts from
          Padding,       \* the texts with spaces around them, and those texts without
          Locations,     \* the zones time.LoadLocation knows, by name
          Calendars,     \* business calendars by name: [zone, days]
          LargestCatchup, LargestAttempts, LongestDuration,
          Limit,         \* the windows one poll may return
          Start,         \* when the plan is created
          MaxEdits, LastNow   \* bounds: changes to a plan, and the clock

Nil == -1
NoText == ""

Fields == DOMAIN FieldValues

IsPlan(p) == DOMAIN p = Fields /\ \A f \in Fields : p[f] \in FieldValues[f]

(* A trimmed text has no spaces to trim, clocks are of one day, and no     *)
(* grace is longer than the search for an open day.                        *)
ASSUME PlansAssumption ==
    /\ {MaxEdits, LongestDuration} \subseteq Nat
    /\ {Start, Limit, SearchDays, DefaultGrace, LargestCatchup, LargestAttempts} \subseteq Nat \ {0}
    /\ LastNow \in Nat /\ Start <= LastNow
    /\ \A p \in Plans : IsPlan(p)
    /\ {"at", "instant", "interval", "clock"} \subseteq Fields
    /\ FieldValues.at \cup FieldValues.instant \subseteq Nat \cup {Nil}
    /\ FieldValues.interval \subseteq Int /\ FieldValues.clock \subseteq Clocks \cup {Nil}
    /\ \A text \in DOMAIN Padding : Padding[text] \notin DOMAIN Padding
    /\ LongestDuration <= SearchDays * DayLength /\ DefaultGrace <= SearchDays * DayLength

VARIABLES draft, answer, edits, now,
          dueAt,     \* the plan's next window
          windows,   \* those its last poll ran
          ended      \* it has no next window

planVars == <<draft, answer, edits, now, dueAt, windows, ended>>

Trim(text) == IF text \in DOMAIN Padding THEN Padding[text] ELSE text

-----------------------------------------------------------------------------
(* ValidateScheduledPlanCreate *)

ValidZone(p) == Trim(p.timezone) \in DOMAIN Locations

(* A schedule without a zone has the plan's. *)
RuleZone(p) == IF p.rule_zone = NoText THEN Trim(p.timezone) ELSE p.rule_zone

(* Validate, and ValidateBusinessCalendar of its calendar *)
ValidWhen(p) ==
    \/ p.type = "once" /\ p.instant # Nil
    \/ p.type = "interval" /\ p.interval > 0
    \/ p.type = "daily_at" /\ p.clock # Nil
    \/ p.type = "weekly_at" /\ p.clock # Nil /\ p.weekday \in 0..6

ValidClosedDays(p) ==
    IF p.calendar = "none" THEN Trim(p.closed_days) = NoPolicy
    ELSE LET calendar == Calendars[p.calendar]
         IN  /\ p.type \notin {"once", "interval"}
             /\ ValidCalendar(calendar.days) /\ Trim(calendar.zone) = Trim(RuleZone(p))
             /\ Trim(p.closed_days) \in {"skip", "roll_forward"}

(* A faulty variant: the zones of plan and schedule are not compared. *)
ValidTriggerInAnyZone(p) ==
    \/ Trim(p.trigger) = "once" /\ p.at \notin {Nil, ZeroTime} /\ p.type = "none"
    \/ /\ Trim(p.trigger) = "recurring" /\ p.at = Nil /\ p.type # "none"
       /\ RuleZone(p) \in DOMAIN Locations
       /\ ValidWhen(p) /\ ValidClosedDays(p)

(* A plan is for one instant or has a schedule, never both. *)
ValidTrigger(p) ==
    \/ Trim(p.trigger) = "once" /\ p.at \notin {Nil, ZeroTime} /\ p.type = "none"
    \/ /\ Trim(p.trigger) = "recurring" /\ p.at = Nil /\ p.type # "none"
       /\ RuleZone(p) = Trim(p.timezone)
       /\ ValidWhen(p) /\ ValidClosedDays(p)

ValidPolicy(p) ==
    /\ \/ p.misfire \in {NoPolicy, "skip", "catch_up_one"} /\ p.max_catchup = 0
       \/ /\ p.misfire = "catch_up_bounded" /\ Trim(p.trigger) # "once"
          /\ p.max_catchup \in 1..LargestCatchup
    /\ p.max_attempts \in 0..LargestAttempts
    /\ \A d \in {p.grace, p.retry_initial, p.retry_max, p.timeout} : d \in 0..LongestDuration
    /\ p.retry_max > 0 => p.retry_initial <= p.retry_max

Accepts(p) == ValidZone(p) /\ ValidTrigger(p) /\ ValidPolicy(p) /\ p.facts = "sound"

-----------------------------------------------------------------------------
(* The plan on the clock *)

(* The schedule of a plan for one instant, and the one of a rule *)
OneTime(p) ==
    [type |-> "once", zone |-> Locations[Trim(p.timezone)], clock |-> Nil, weekday |-> Nil,
     monthDay |-> 0, interval |-> 0, at |-> p.at, policy |-> NoPolicy, calendar |-> NoCalendar]

Rule(p, zone, closedDays, calendar) ==
    [type |-> p.type, zone |-> zone, clock |-> p.clock, weekday |-> p.weekday, monthDay |-> 0,
     interval |-> p.interval, at |-> IF p.type = "once" THEN p.instant ELSE Start,
     policy |-> closedDays, calendar |-> calendar]

(* A calendar whose zone does not load has no open day. *)
Unloadable == [weekly |-> {}, holidays |-> {}, open |-> {}, closed |-> 0..LastDay]

(* As the clock reads it: the calendar's zone and the policy as they stand. *)
AsRead(p) ==
    IF p.type = "none" THEN OneTime(p)
    ELSE Rule(p, Locations[RuleZone(p)],
         IF p.closed_days \in {"skip", "roll_forward"} THEN p.closed_days ELSE NoPolicy,
         IF p.calendar = "none" THEN NoCalendar
         ELSE IF Calendars[p.calendar].zone \in DOMAIN Locations
              THEN Calendars[p.calendar].days ELSE Unloadable)

(* The policy, with what the Scheduler normalizes before it stores a plan *)
PolicyOf(p) ==
    [misfire |-> IF p.misfire # NoPolicy THEN p.misfire
                 ELSE IF Trim(p.trigger) = "once" THEN "catch_up_one" ELSE "skip",
     grace |-> p.grace, maxCatchup |-> p.max_catchup]

FirstWindow(s) == IF s.type = "once" THEN s.at ELSE NextSchedule(s, Start)

PlanInit ==
    /\ draft \in Plans /\ answer = "none" /\ edits = 0
    /\ now = Start /\ dueAt = ZeroTime /\ windows = {} /\ ended = FALSE

Edit(f) ==
    /\ answer = "none" /\ edits < MaxEdits /\ edits' = edits + 1
    /\ \E value \in FieldValues[f] : draft' = [draft EXCEPT ![f] = value]
    /\ UNCHANGED <<answer, now, dueAt, windows, ended>>

MoveCursor(next) ==
    ended' = (next = ZeroTime) /\ dueAt' = IF next = ZeroTime THEN dueAt ELSE next

Submit ==
    /\ answer = "none"
    /\ \/ ~Accepts(draft) /\ answer' = "refused" /\ UNCHANGED <<dueAt, ended>>
       \/ /\ Accepts(draft) /\ answer' = "accepted"
          /\ MoveCursor(FirstWindow(AsRead(draft)))
    /\ UNCHANGED <<draft, edits, now, windows>>

(* A poll, on time or late, runs the windows it is given. *)
Poll(time) ==
    /\ answer = "accepted" /\ ~ended /\ dueAt <= time /\ now <= time
    /\ \E s \in {AsRead(draft)} :
       \E r \in {ResolveMisfire(s, PolicyOf(draft), dueAt, time, Limit)} :
           /\ windows' = {r.windows[i] : i \in DOMAIN r.windows}
           /\ \E next \in {IF r.windows # <<>> /\ r.cursorAfter = ZeroTime
                           THEN NextFromCursor(s, r.windows[Len(r.windows)]) ELSE r.cursorAfter} :
                  MoveCursor(next)
    /\ now' = time /\ UNCHANGED <<draft, answer, edits>>

PlanNext == Submit \/ (\E f \in Fields : Edit(f)) \/ (\E time \in Start..LastNow : Poll(time))

PlanSpec == PlanInit /\ [][PlanNext]_planVars

-----------------------------------------------------------------------------

TypeOK ==
    /\ IsPlan(draft)
    /\ answer \in {"none", "accepted", "refused"} /\ edits \in 0..MaxEdits
    /\ now \in Start..LastNow /\ dueAt \in Nat /\ windows \subseteq Nat /\ ended \in BOOLEAN

(* The texts of a calendar that validation trims and the clock does not    *)
(* are written without spaces.                                             *)
WrittenPlainly(p) ==
    /\ p.closed_days \notin DOMAIN Padding
    /\ p.calendar # "none" => Calendars[p.calendar].zone \notin DOMAIN Padding

(* What the plan says, in its own zone *)
Meant(p) ==
    IF p.type = "none" THEN OneTime(p)
    ELSE Rule(p, Locations[Trim(p.timezone)], Trim(p.closed_days),
         IF p.calendar = "none" THEN NoCalendar ELSE Calendars[p.calendar].days)

MeantBetween(p, first, last) ==
    LET s == Meant(p)
    IN  IF s.type = "once" THEN {s.at} \cap (first..last)
        ELSE {t \in OccurrencesBetween(s, first - 1, last) :
                 WorkingDay(s.calendar, LocalDay(s.zone, t))}

(* An accepted plan runs as it is written, in its own zone and on the days *)
(* its calendar leaves: what a poll runs are occurrences of the plan, and  *)
(* it passes over one only when the cursor it finds is late by more than   *)
(* the grace.                                                              *)
StepAsMeant ==
    answer' = "accepted" /\ WrittenPlainly(draft) =>
        LET first == IF answer = "none" THEN Start + 1 ELSE dueAt
            last == IF ended' THEN now' ELSE dueAt' - 1
            meant == MeantBetween(draft, first, last)
        IN  /\ windows' \subseteq meant
            /\ meant # windows' => /\ answer = "accepted"
                                   /\ now' > dueAt + Grace(PolicyOf(draft))

RunsAsMeant == [][StepAsMeant]_planVars

(* Every poll of a plan moves its cursor on or ends it: no plan stays due  *)
(* at one instant, a recurring one with a one-time schedule included.      *)
PollsMoveOn ==
    [][answer = "accepted" => dueAt' > dueAt \/ ended']_planVars

(* The plans of which these are proved: the zones are steady, and none is  *)
(* made while an occurrence of its own is on its way to an open day.       *)
SteadyPlans == \A name \in DOMAIN Locations : Steady(Locations[name])

RegularPlans ==
    answer = "accepted" =>
        LocalDay(Meant(draft).zone, Start) >= 0 /\ NonePending(Meant(draft), Start)
=============================================================================
