# Verification of domainry-scheduler-sdk

This directory holds TLA+ models of the Scheduler SDK, the TLC configurations
that check them on small instances, and proofs that the TLA+ proof system
checks. Paths below are relative to the repository (`src/` is its root).

- `tlasany M.tla` parses a module, `tlc -config X.cfg M` checks a run, `tlapm
  M.tla` checks the proofs of `M`: the eight modules named `...Proofs`.
- `PROJECT.json` lists the runs, the lines every definition stands for, a
  mutation of the code for each property (an operator beside the definition it
  changes, marked "a faulty variant"), the findings and the hazards.

## 1. Inventory

The repository is an SDK: data types, pure algorithms, a client for a SaaS
Scheduler, a client for a Runtime callback, and interfaces with contracts for
the Scheduler's own store and workers, which are implemented elsewhere.

| Component | State | Operations | Interacts with |
| --- | --- | --- | --- |
| Definition publication (`sdk.go` 233-446, `persistence/definitions.go`, `saashost/factory.go`) | the active session's fence and the cursor of the accepted snapshot, both durable; a session and a revision counter in each Runtime process | begin a session, reconcile a snapshot (`EvaluateDefinitionSnapshot`), sync definitions by compare-and-swap | the HTTP transport carries claims and snapshots |
| Recurrence (`schedule/schedule.go`) | none | `Next`, `NextSchedule`, `Validate`, `WindowSuffix` | business calendars; used by previews and misfire |
| Business calendars (`schedule/business_calendar.go`) | none | validation, closed days, rolling forward | recurrence |
| Preview (`schedule/preview.go`) | the loop's cursor | `PreviewSchedule` | recurrence |
| Misfire (`schedule/misfire.go`) | none | `ResolveMisfire`, `NextAfter` | recurrence; called by the run store's `Due` |
| Run store and workers (`modulehost/host.go`, `sdk.go` 444-507) | durable cursor, claimed windows, runs, leases, dead letters | `Due`, `Claim`, `Renew`, `Accept`, `Fail`, `Retry`, dead letters, backlog | misfire resolution; the dispatcher |
| Dispatch gateway (`dispatchgateway/remote.go`, `gateway.go`) | attempts of one call | `Dispatch`, `perform`, error classes | a Runtime over HTTP |
| Callback signatures and replay (`dispatchgateway/signature.go`) | none; receivers keep claims | sign, verify, `EvaluateCallbackReplay` | the receiving Runtime |
| Scheduled plans (`scheduled_plan.go`, `persistence/scheduled_plans.go`, deletion reader) | plans with revisions, tombstones | create, get, list, update, pause, resume, delete, read a deletion | the HTTP transport; plans become definitions |
| Plan validation (`schedule/scheduled_plan.go`) | none | `ValidateScheduledPlanCreate` | recurrence validation; the clock reads what it accepts |
| SaaS HTTP transport (`saashost/httptransport`) | the application it is bound to | `BindApplication`, one request per SDK call | every remote part |
| Authoring validation (`schedule/authoring.go`) | none | acceptance of definition data | recurrence validation |
| Authoring catalog, schemas, management (`authoring/`) | none | published schemas, errors and examples; `ProjectManagementDefinition` | describe what authoring validation accepts; operators read the projection |
| Trusted-host adapter (`http_adapter.go`) | none | the contract: actions, routes, required evidence, the boundary a host attests to | a host that authorizes and calls the Binding |
| Browser client (`browser/src`) | none | one request per call, evidence for commands | the adapter's routes |
| Worker configuration (`sdk.go` 509-549) | none | `NormalizeWorkerConfig` | workers |
| Ownership, module factory | none | constants, interfaces | - |

### What is hard, and what makes each part correct

- **Publication.** Several processes of one Runtime, alive or not known to be
  dead, send snapshots over a network that delays, repeats and reorders, to a
  Scheduler whose requests race and which restarts. Revisions start again with
  every process. Correct: what is in force was published under the newest
  session that wrote, nothing acknowledged falls back, genuine publishers are
  neither refused falsely nor starved.
- **Recurrence, calendars, previews.** Month ends, clock changes, week
  boundaries, holidays and exceptions meet. Correct: the occurrences are those
  the rule names, on the days the calendar leaves, each in a window of its own.
- **Misfire and the clock.** Several workers act on polls that are no longer
  true, stop between the claims of one catch-up, and are late by any amount.
  Correct: every occurrence is run or given up, once; only lateness gives up.
- **Leases.** A worker stops, loses its lease or comes late with a result, while
  another takes the run over and operators intervene. Correct: one result per
  run, committed by the lease's holder, of work that was done; the backlog keeps
  to its limit; every run ends.
- **Dispatch.** A timed-out request may have been executed; an expired claim is
  taken over while its handler still works. Correct: one body per key, an
  accepted dispatch was executed, a conflict is one of content, calls return.
- **Plans.** Creations and changes are repeated without knowing what became of
  the first attempt, and changes replace a plan that was read before. Correct:
  one plan per ClientID, no lost change, receipts that stay true, tombstones
  that stay, complete listings. What validation accepts is read again by the
  clock, in its own way. Correct: an accepted plan runs as it is written.
- **Authoring.** Validator, schedule code, schema, error list and projection
  are written apart. Correct: they agree, and an author who repairs what is
  reported gets there.
- **Commands.** A command passes from a client through a contract, a host and a
  transport, each with its own table of names. Correct: it acts on the object
  meant, never without permission and evidence, and can be given at all.

`PROJECT.json` lists the hazards one by one at their lines, with the properties
that cover them.

## 2. Modules

### Publication

- `DefinitionSnapshots`: the pure part of `sdk.go`: sessions, fences (a hash of
  the nonce is taken to be injective), cursors, the content hash (independent of
  order, refusing duplicate keys and malformed definitions) and
  `EvaluateDefinitionSnapshot`, whose verdicts are named after its errors.
- `DefinitionPublication`: the protocol. `ClaimSession`, `PublishSnapshot`,
  `Retransmit`, `Crash` are the Runtime's binding; `IssueSession` is
  `BeginDefinitionPublisherSession` (its answer may be lost);
  `HandleSnapshot` reads the store and evaluates, `CommitSnapshot` writes if
  nothing read has changed and `RetryCommit` evaluates again, as
  `persistence/definitions.go` demands; `AnswerSnapshot` reports a replay or a
  refusal; `RestartScheduler` forgets requests under way. `requests` keeps
  every packet for ever: it can be handled late, repeatedly or never.
- `PublicationOrder`: the abstract promise: sessions are issued in order, each
  publishes numbered contents, and the accepted entry only moves forward along
  published entries of the newest session.
- `DefinitionProofs`: the theorems of section 5 about publication, and those
  about authoring.

### Schedules

- `WallClock`: time as a count of units; a zone is one offset before an instant
  and one after it. `Date`, `AddDays` and `AddMonths` normalize as Go's `time`
  does, wall clocks in a gap and overflowing days of a month included.
- `Recurrence`: `nextDaily`, `nextWeekly`, `nextMonthly`, `Next`,
  `NextSchedule`, closed days, rolling forward, `WindowSuffix`, validation; and
  the reference the models are compared with, `OccurrencesBetween`, which is
  written from the meaning of a rule ("the days it names, or the first working
  day after them") and shares none of the code's case analysis.
- `SchedulePreview`: the loop of `PreviewSchedule`, one attempt per step.
- `Misfire`: `NextAfter` and `ResolveMisfire`.
- `SchedulerClock`: workers that poll (`Due` calls `ResolveMisfire`), claim the
  windows one by one under compare-and-swap on the cursor (`Claim`), persist a
  cursor without windows, and crash. `passed` records what was given up.
- `RecurrenceProofs` (lemmas), `PreviewAndPlanProofs` and
  `SchedulerClockProofs`. `WindowsFrom` of `Misfire` is a recursive function, so
  that proofs can speak of it. `RegularRule`, `MonthlyRule` and `Regular` (in
  `Recurrence`), `RegularPreview`, `MonthlyPreview` and `RegularSchedules` name the schedules for which the next
  window is always the next occurrence; the `MC` modules assume that their
  steady schedules are of this kind, so the theorems are about what the runs
  check, and more.

### Runs

- `RunLeases`: a window after its claim. `NormalizeWorkerConfig` makes the
  configuration; `Claim` grants a lease with the next fencing token (to a new
  window while `BacklogHasRoom`, to a due retry, to a run whose lease ran out),
  `Renew` extends it, `Accept` and `Fail` commit what a dispatch returned if the
  worker is still `Fenced`, and drop it otherwise. `Execute` and `Reject` are
  the downstream owner, which may get a request late, twice or never; `TimeOut`
  is the dispatch timeout; `RetryRun`, `CancelRun`, `ResolveDeadLetter` and
  `RequeueDeadLetter` are the operators' commands. Timers hold what is left of
  them and `Tick` lowers them all, so time is not bounded. A store is an
  implementation of `RunStore`; these actions are what its comments demand.
- `RunOutcomes`: the abstract promise. A run is entered once and ends once;
  only what was done is accepted.
- `RunLeasesProofs`: `LeaseInvariant` is inductive, and what follows.

### Dispatch

- `CallbackDispatch`: `Begin` to `Cancel` are `Remote.Dispatch` and `perform`
  with their error classes; `Fresh` and `EvaluateCallbackReplay` are
  `signature.go`; the receiver (claims, handlers, downstream owner) is the state
  machine its comment describes: terminal receipts are repeated, active claims
  are retryable, expired ones are claimed again with a new fence.
- `CallbackDispatchProofs`: `DispatchInvariant` is inductive, and what follows.

### Plans

- `ScheduledPlans`: `Call` binds the transport and `Send` builds the path from
  what it is bound to; answers map to errors as `request` maps them. The
  Scheduler's side follows the contracts: `HandleCreate` by ClientID and
  request hash, changes as a read (`ReadForChange`) and a compare-and-swap
  (`ReplacePlan`), tombstones seen by the deletion reader only, pages by the
  last identity returned. Repeating a deletion on its own tombstone is a
  replay (`ScheduledPlanDeleteReceipt.Replay`); repeating another change that
  did succeed is a conflict. `since` (what a listing must show) is a history
  variable: no guard reads it.
- `ScheduledPlansProofs`: `PlansInvariant` is inductive, and what follows.

- `PlanValidation`: a product writes a plan (`Edit`), `Submit` is
  `ValidateScheduledPlanCreate` (`ValidZone`, `ValidTrigger` with `Validate` and
  `ValidateBusinessCalendar` of a rule, `ValidPolicy`), and `Poll` is the clock
  that calls `ResolveMisfire` with the plan as it reads it (`AsRead`): validation
  trims texts that `IsNonWorkingOccurrence` and `NextSchedule` compare as they
  stand. The host fills in a rule's empty zone and the default policy, as
  `scheduled_plan.go` 71-74 says. The theorems about it are in
  `PreviewAndPlanProofs`; `SteadyPlans` and `RegularPlans` name the plans they
  speak of, and `MCPlanValidation` assumes of every zone, and of every weekly
  rule that rolls forward, that the run's plans are among them.

### Commands

- `OperatorCommands`: `SchedulerAuthorizationActions` with their routes and
  approvals, `Prerequisites` (the headers they require), `Mounted` (nothing
  unless every guard is attested), `ClientCall` (the browser client),
  `Resource` and `Send` (the transport's paths, escaped once by its calls and
  once more by `URL.Path`) and `ErrorOf` (plan errors told by the path). `Host`
  and `Scheduler` are the parties around them, external to the repository.
- `OperatorCommandsProofs`: lemmas about escaped names, `CommandsInvariant` is
  inductive, and what follows.

### Authoring

- `AuthoringCatalog` (on top of `Authoring`): the business job's schema
  (`Conforms`), the fields each error is published for (`PublishedFor`) and
  `ProjectManagementDefinition` as JSON (`Projected`).
- `Authoring`: a document is a map from fields to values with the dynamic types
  Go finds in them. `ValidateDefinitionData` is its checks in the code's order,
  each with the field its error reports, and the answer is the first that
  fails (`FirstFailing` of `Checks`). The author (`Edit`, `Submit`, `Repair`) changes nothing but the
  reported fields, to values the next answer does not refuse again. `RulesRead`
  is what `Next` makes of a document, through `Int`, `IntervalSeconds` (which
  ranges over a Go map), `clock`, `weekday` and `monthDay`; `ValidTyped` is
  `Validate` on the typed schedule. Texts are trimmed and in lower case;
  `ClockTexts`, `CronTexts` and `ZoneTexts` are those that parse.

The `MC*` modules give the constants of the runs.

## 3. Runs

| Run | Instance | What it shows |
| --- | --- | --- |
| `publication_fencing` | 2 processes, 2 sessions, 2 workers, a legacy and a foreign client, 4 payloads | only snapshots of the session active at the write are accepted; the protocol implements `PublicationOrder` |
| `publication_ordering` | 2 processes, 2 sessions of 2 revisions, 2 workers | no false conflict or staleness, acknowledgements last, the cursor advances; `PublicationInvariant`, the invariant of the proofs |
| `publication_live` | 2 processes, 2 sessions of 2 revisions, a lost claim each, 1 worker | the newest snapshot of a lasting publisher comes into force |
| `preview` | 94 schedules of every type but once: zones west and east of UTC, a clock going back or forward, clocks in the gap, a work week with a holiday, an open Saturday and a closed Thursday, a closure of two weeks, a calendar without a working day in reach, the 1st and the 31st; every start in January | unbroken previews are exactly the occurrences, one in a window; when the next occurrence is the first one, and when it is lost, moved or repeated |
| `clock` | 2 workers, 1 crash, polls of 2 windows, every policy, daily, interval and one-time schedules, two calendar policies over a long weekend | every occurrence decided once, working days only, given up only when the cursor is late, cursor never back, catching up |
| `dispatch` | 2 calls of 2 attempts for the same run: the same bytes, other bytes, or another Runtime; receipts wrong, empty or cut off | one body per key, accepted means executed, conflicts are final, calls return |
| `plans` | 2 products (3 and 2 requests): creating one plan, for one owner, two owners or two applications; changing a plan; listing against creation and deletion | idempotent creation, no lost change, true and lasting receipts, complete pages, one application per transport |
| `leases` | 2 workers, 2 runs of 2 attempts, 1 lost worker or lease, 1 operation; the default configuration, and one with a lease shorter than the timeout | two workers on one run only after a loss, the backlog limit, only the holder commits, every run ends; implements `RunOutcomes` |
| `plan_validation` | 6 plans, 2 changes out of 70 values, polls at any time over a long weekend with a holiday | accepted plans run as written, in their own zone and on the days their calendar leaves, and every poll moves on |
| `commands` | 5 names (a slash, its escaped form, names like resources), 3 applications, every subset of the guards, one permission missing, every evidence | commands act on the object of the name as the transport escapes it, never without evidence; the contract has a route for each call of the client but `versions`; which errors which calls get |
| `authoring` | workflow, HTTP and business-action documents, every schedule type, 2 unasked changes | an author who repairs what is refused is accepted; accepted documents have one reading and pass `Validate`; where schema, published errors and validator differ, and that they do nowhere else; when a projection is accepted and what it then says |
| `preview_month_end` | violation: a monthly rule asked in a month's last days | see findings |

Every module of a component with state of its own (all but the preview's loop, the
abstract specifications and the modules of operators) has a type invariant `TypeOK`,
which holds on its instance. `publication_ordering` checks
the inductive invariant of the proofs, `PublicationInvariant`, of which it is a
conjunct, along with `AcceptedWasPublished` (through `Accepted`) and
`AcknowledgedIsDurable`. The invariants `LeaseInvariant`, `DispatchInvariant`,
`PlansInvariant`, `CommandsInvariant` and `ClockInvariant` hold on the instances
of their runs too, which need not list them: they are theorems.

`EveryOccurrenceDecidedOnce` counts up to the occurrence before the cursor, and
the cursor itself is one: that is what makes it say the same for a schedule that
has ended, which keeps its last window for its cursor.

**Bounds.** Two sessions suffice for a retired and an active one, two revisions
for a late and a new one, two workers for a race, two payload orders for the
content hash. Days have four units (two in the clock) so that midnight,
offsets and gaps fall on different units; a preview of five occurrences crosses
a week and a month end. One crash is enough to lose the rest of a catch-up, and
ten units of time (a long weekend and a working day of two units each) let a
cursor be on time, late within the grace and late beyond it. Two attempts make a
retry. In `plans` a product can read, change and repeat.
Two changes make a document wrong in two places, which is what one check hiding
another takes; the same holds of a plan. Two runs and a backlog of one make a
full backlog, two attempts a retry and a last attempt, one fault a take-over and
a late result; the lease is two units, since one unit would leave no moment for
a renewal. One request at a time is enough in `commands`: nothing there is kept
between requests. Every bound is a
constant whose comment calls it a bound. Runs switch deadlock checking off
because time, sends or sessions are bounded and the systems then stop.

**Fairness.** In `publication_live` the newest snapshot of a lasting publisher
is handled and finished again and again (strong fairness, since a Scheduler
restart may interrupt it): the binding retries its reconcile. In `clock` time
passes, and a worker that holds a resolution or finds the cursor due works: it
polls on a timer (`WorkerConfig.PollInterval`). The formula spells out the
ENABLED of weak fairness as `CanWork`, for speed. In `dispatch` a call goes on:
its request has a timeout and its pauses end; nothing is assumed of the network
or the receiver. In
`leases` time passes, and workers poll on their timer, renew while they
dispatch, give up at the timeout and commit; nothing is assumed of the owner,
and the lost workers and leases are bounded, as they must be for a run to end.
In `authoring` the author goes on. The safety runs assume
nothing.

## 4. Findings

**A month is left out after its last days** (`preview_month_end`,
`schedule.go:351`). `nextMonthly` goes to the next month with `AddDate(0, 1,
0)`. From January 29-31 that lands in March; February's occurrence is never
due. `misfire.go:82` promises the first aligned occurrence after now.

The other ways in which that promise is not kept have no run that refutes it:
`NextIsFirstUnlessLost` (`preview`) lists them, and says that the next occurrence
is the first one in every other case and in none of them.

- *Clocks in a spring gap* (`schedule.go:328`). West of UTC a daily time that the
  change skips is moved back, and the next day is counted from the moved instant
  with `AddDate`, which keeps its clock: on the day after the schedule fires early
  and then at its own time, in one window. A weekly midnight in a gap fires on the
  day before (`schedule.go:340`).
- *Midnight in a gap.* A daily midnight that is skipped is moved to the evening
  before, and from there the next occurrence is the cursor itself: a preview
  lists it again and again, and a cursor that moves by `NextSchedule` stays
  where it is. If that day is closed and the schedule skips, the loop of
  `misfire.go:32` does not end. Zones whose clocks change at midnight are such.
- *Rolled-forward occurrences* (`misfire.go:100`). Between a raw occurrence on a
  closed day and the open day it rolls to, `NextAfter` answers the raw occurrence
  after it, rolled forward, and not the one on its way. A late worker that polls
  over the weekend between a Friday that is a holiday and its Monday gives up
  Monday's window before it is due. Weekly and monthly schedules that roll forward
  may also share a window key.

Observed while modelling:

- *Grace.* `misfire.go:21-22` says that a *window* becomes missed only after the
  grace. The grace is compared with the cursor (`misfire.go:46`): once that is
  late, skip and catch_up_one pass over every window up to now, younger ones
  included. `GivenUpOnlyWhenLate` says what the code does.
- *Bounded catch-up.* Cut short by the poll's limit it gives up the windows it
  left out (`misfire.go:60`), and it counts anew behind a closed day and after a
  crash.
- *Previews* that find fewer occurrences than asked report that there are none
  (`preview.go:84`).
- *Numbers.* Authoring accepts whole numbers of every width; `Int`
  (`schedule.go:260`) reads those it does not know as absent, so that an hourly
  `uint32` interval is previewed as a daily one (`AcceptedHasOneReading` says so). An interval of more than 292
  years overflows `time.Duration` (`schedule.go:132`).
- *Plans.* A padded `non_working_day_policy` is accepted (`schedule.go:89`) and
  then equals neither policy (`schedule.go:33`, `misfire.go:28`); a padded
  calendar zone is accepted (`business_calendar.go:20`) and then does not load
  (`business_calendar.go:101`). An empty rule zone is filled on a copy
  (`scheduled_plan.go:57`). An instant in the past is accepted, though
  `scheduled_plan.go:64` of the root speaks of a future one.
- *Repeated changes.* An update repeated after its answer was lost is told of a
  conflict with itself. A command repeated by an operator has a new key
  (`client.ts:81`), and the transport's commands carry none.
- *Names.* They are escaped twice on the way to the SaaS (`transport.go:269`),
  which then looks for the escaped name: `ActsOnTheNamed` says which object that
  is. A path with `/plans` anywhere gets plan errors (`transport.go:298`), which
  `ErrorsAnswerTheirCalls` is exact about.
- *The catalog.* Nine refusals are not in the published list
  (`AuthoringCatalog.Unpublished`), two of them expected by its own examples
  (`schema.go:117`, `schema.go:125`). The schema has neither `revision` nor the
  short names of weekdays nor an empty text in place of a choice, such as a
  policy left blank; all are accepted. These are the differences
  `CatalogDescribesTheValidator` names. The projection omits a retry delay of
  zero: the default is read back, or the definition is refused where the longest
  delay is shorter than it (`ProjectionRunsAlike`). `ManagementContract` leaves out the
  status draft, the schema's default (`management.go:104`).
- *Routes.* The client's `versions` (`client.ts:55`) has no route in the adapter's
  contract; it is the only such call (`ContractServesTheClient`).

## 5. Proofs

Each theorem holds for every value of the constants that the module's named
assumption allows: any sets of processes, workers, runs, calls, products, plans,
names and schedules, any bounds, any length of a day and any calendar.

**Authoring** (`DefinitionProofs`), from `AuthoringAssumption` (a field may be
absent, documents have values of their fields, the empty text is no clock and no
cron expression) and `CatalogAssumption` (the fields of a document):

- `AnswersAreAboutTheDraft`: `AuthoringInvariant` is inductive: the draft is a
  document and an answer is the verdict on that very draft.
  `AuthoringTypeCorrect` follows.
- The rest is about `ValidateDefinitionData`. `Verdicts` says that a document is
  accepted when no check fails and is else refused by one that does, by the
  least of the failing positions. One lemma for each group of checks
  (`TargetsAccepted`, `PoliciesAccepted`, `SchedulesAccepted`,
  `IdentitiesAccepted`, `UnsupportedRefused`) turns "no check fails" into a
  condition on the document and says of each check, in the same pass, that it is
  published for its field and that a document of the schema does not fail it if
  its code is one of the schema's (`Sound`); `Concatenated` puts the groups
  together, and `ChecksAccepted` has the result: a document is accepted exactly
  if it is `Acceptable`.
- `AcceptedDefinitionsHaveOneReading`, `AcceptedDefinitionsAreSchedules` and
  `CatalogAndValidatorCompared` follow from `AcceptableIsReadAsWritten`,
  `AcceptableIsASchedule`, `AcceptableConforms` and the descriptions of the
  checks; `ProjectionsRunAlike` from `ProjectionIsAcceptable`, which follows each
  field of an acceptable document through the projection and back. Each states
  both sides: where the parts agree, and that they differ in the cases of
  section 4 (a `uint32`, four kinds of documents, nine codes, lost numbers). One
  hypothesis is left, in `ProjectionsRunAlike`: the definition's texts are texts.

**Publication** (`DefinitionProofs`), from `PublicationAssumption`
(the bounds are naturals, stray snapshots are not the issuer's):

- `PublicationSafe`: `PublicationInvariant` always holds. It is the inductive
  invariant: type correctness; the active fence is of an issued session; the
  cursor is empty or an entry that was published; bound processes hold distinct
  issued sessions; a session's revisions are published once and never beyond its
  process's counter; genuine packets are published entries; and every decision
  under way was right for a store it read that is not newer than the present
  one. The last conjunct is needed because a decision outlives the state it was
  taken in: with it the compare-and-swap makes a commit right for the present
  store, and a refusal right for some earlier one.
- `PublicationTypeCorrect`, `OnlyPublishedIsAccepted`,
  `AcknowledgementIsDurable`, `GenuinePublishersAreServed` and
  `StaleMeansSuperseded` follow from it. The lemma `GenuineVerdict` says why
  genuine snapshots meet no conflict, and are stale only when superseded.
- `CursorOnlyAdvances` and `RetiredSessionsNeverWrite`: the action properties,
  from the same invariant and the lemma `ApplyMovesForward`.
- `PublicationImplementsOrder`: each step is one of `PublicationOrder`'s or a
  stutter under the mapping of `Order`.

**Leases** (`RunLeasesProofs`), from `LeasesAssumption` (finitely many runs,
positive defaults, no default above its largest value: lines 509-549 of `sdk.go`):

- `LeasesSafe`: `LeaseInvariant` is inductive. A worker's token was granted and
  is no newer than its run's, tokens tell tasks apart, and a worker has the
  newest token of its run until a lease is lost: without these a renewal
  or a commit could be another worker's. What was sent was entered and what a
  worker calls done was executed, which makes an acceptance true. The bound on
  the backlog counts without what operators put back, since a claim does.
- `LeasesExclude`, `BacklogIsBounded` follow; `HoldersCommit` is the action
  property, and `LeasesImplementOutcomes` the refinement of `RunOutcomes`.

**Dispatch** (`CallbackDispatchProofs`), from `DispatchAssumption` (naturals):

- `DispatchSafe`: `DispatchInvariant` is inductive. Attempts are counted and
  each is answered at most once and only while its call waits for it, so a late
  answer is never taken for another attempt's; a key once claimed keeps its
  body, terminal claims were executed, and every answer under way is true. The
  last is stable because claims and executions are never undone.
- `KeysHaveOneBody`, `AcceptedMeansExecuted`, and the action property
  `ConflictsAreFinal`. A call whose response was cut off after the work was done
  ends in an error all the same (`remote.go:119`, `Truncate`); what is said of it
  is that a later call with its bytes meets no conflict.

**Plans** (`ScheduledPlansProofs`), from `PlansAssumption` (callers name an
application, the plans of a setting are in their first revision, with one per
owner and ClientID):

- `PlansSafe`: `PlansInvariant` is inductive. `OneCallAtATime` and
  `AnsweredOnce` make an answer that of the call its product waits on.
  `KnowledgeIsReal` and `HandlersHaveRead` say that what products and handlers
  hold was once the plan's, so that equal revisions mean that it has not changed
  since it was read: the compare-and-swap then loses no change. `HistoryTells`
  relates a plan to the changes that made it, so that a replayed deletion is the
  one that made the tombstone. `OnePlanPerClientID` is the store's uniqueness,
  `AnswersAreTrue` is stable because identities are not used again, and
  `ListingsSkipNone` carries a listing from page to page.
- `CallersKeepTheirApplication`, `CreationsMakeOnePlan`, `ChangesAreKept`,
  `ReceiptsStayTrue`, `ListingsAreComplete`.

**Commands** (`OperatorCommandsProofs`), from `CommandsAssumption` and
`PrefixAssumption`, which say of names what `url.PathEscape` does: distinct texts
stay distinct, an escaped text is escaped again for its percent signs, the words
of paths are not changed, and a text keeps its beginning.

- `CommandsSafe`: `CommandsInvariant` is inductive. `RequestsAreCalls` and
  `CommandsAreAuthorized` follow a request from its caller to the Scheduler (every
  request is one that some call makes, with the authority it had), and
  `DoneIsAnswered` joins what was done with what was reported.
- `CommandsReachTheirObject`, `CommandsNeedEvidence`, `ClientIsServedButForVersions`,
  `ErrorsNameTheirCalls`. The first rests on `ReceivedEscaped`: a name in a path,
  escaped twice and unescaped once by the router, arrives escaped once, which is
  itself where escaping leaves it alone. The last rests on `PrefixesAreReceived`,
  since errors are told by the path. None of them excludes a name: each says what
  becomes of every name and of every call.

**Schedules** (`RecurrenceProofs`, lemmas). `WindowsFollow` solves the recursion
of `WindowsFrom`: its initial pieces agree and can each be extended, by the least
counterexample. `NextDailyIsFirst` and `NextWeeklyIsFirst` prove Go's case
analysis against the rule, `RolledForward` the search for an open day against its
meaning, and `NextOnTheClock` puts them together: in a steady zone the next
window is an occurrence, and the first if none is on its way to an open day.
`NothingPending` says when none is: what a weekly rule has named so far has
found its working day (`NonePending`), as it has after every window.
`StepsOfAnInterval` and `NextAfterInterval` do the same for intervals, whose
phase `NextAfter` keeps. `ResolutionsAdvance` says of every schedule in a steady
zone, daily, weekly, interval or one-time, whatever its policies, that
`ResolveMisfire` goes on at a later window or at none; `RecurringRuns` says what it runs of a regular one: due occurrences on
working days, and all of them unless the cursor was late. `MonthsFollow` solves
the recursion of `MonthStart` in the same way; from it `DaysOfAMonth` and
`DaysHaveMonths` give each day of the calendar its month, and
`NextMonthlyIsFirst` proves `nextMonthly` against the rule, from a day of every
month: `AddDate(0, 1, 0)` then lands in the month that follows.

**Previews** (`PreviewAndPlanProofs`), for any schedules, starts and counts;
`RegularPreview` is a hypothesis about the preview at hand, so that other
previews may be made beside it:

- `PreviewsAreExact` and `WindowsAreSingle`, from the invariant that what has
  been found are the working ones of the occurrences up to the cursor, in order
  and at least an interval apart. A regular preview is of a daily, weekly or
  interval rule in a steady zone, under any calendar and policy, from an instant
  at which no weekly occurrence waits for an open day. `WindowsAreSingle` leaves
  out the weekly rules that roll forward, which may share a window (section 4).
- `RegularRulesAreAligned`: the promise of `misfire.go:82`, which section 4
  denies to monthly rules, clocks in a gap and pending rolls, is kept by daily and
  weekly rules in steady zones with no roll pending: `NextIsFirstUnlessLost`
  holds, and nothing is lost.
- `MonthlyPreviewsAreExact` and `MonthlyRulesAreAligned`: monthly rules keep it
  too, and each occurrence has a month of its own, when the day of the rule and
  that of the start are in every month (1 to 28) and the rule does not roll
  forward. So the finding needs a cursor on a day that some month does not have.
  `WithinCalendar`, that a month follows while the preview searches, is about the
  finite calendar of the model; it holds on the instance of `preview`, whose
  `PlainSchedules` in steady zones are within these theorems or those above.

**Plans** (`PreviewAndPlanProofs`), from `PlansAssumption`: clocks are of one
day, a trimmed text has no spaces left, and neither the default grace (a minute,
`misfire.go:44`) nor the longest (24 hours, `scheduled_plan.go:88`) outlasts the
search for an open day (3660 days, `business_calendar.go:12`). All are in
`SteadyPlans`, plans whose zones keep one offset:

- `PlansTypeCorrect` and `PlansMoveOn`, from `PlanInvariant`: a stored plan was
  accepted, and its next window is an instant of the epoch. They are about
  *every* accepted plan, with padded policies and calendar zones that do not load
  included: `AcceptedIsTimely` has what validation makes sure of for each way a
  plan is read, and `ResolutionsAdvance` the rest.
- `PlansRunAsMeant`, from `MeantInvariant`: the next window of a plan written
  without spaces is an occurrence of what it says, on a day its calendar leaves.
  `AcceptedIsMeant` shows that the clock reads such a plan as it is meant, its
  own zone instead of the rule's included; `SubmitIsMeant` and `PollIsMeant`
  follow it from its first window through every poll. `RegularPlans` asks that
  none of its occurrences waits for an open day when it is made: a plan made
  between a weekly occurrence on a closed day and the open day it rolls to may
  miss that one (section 4).

**The clock** (`SchedulerClockProofs`), from `ClockAssumption` (valid schedules,
bounds that are naturals):

- `WorkIsOnWorkingDays`: for *every* schedule and zone, monthly rules, clock
  changes and pending rolls included. Its invariant, `WorkInvariant`, adds that
  what workers hold, and the cursor of a schedule that rolls forward, are on
  working days: both outlive the poll that found them.
- `ClockSafe`, `OccurrencesAreDecided`, `GivenUpWhenTheCursorIsLate`, `CursorMovesOn`: for
  `RegularSchedules`, from `ClockInvariant`. What a worker holds are occurrences
  in order, whatever became of the cursor since, and what it would pass over is
  late or on closed days (`HeldAreOccurrences`). A claim that succeeds finds the
  cursor where its poll found it, and moves it to the next of them; the lemmas
  `PastClosedDaysIsPlaced` and `CatchUpIsPlaced` say this of what
  `ResolveMisfire` returns, by way of `NextIsNextOccurrence` and `FutureIsLater`.
- `RegularSchedules` are one-time, interval, daily and weekly ones in a steady
  zone, started within the epoch; a weekly one that rolls forward starts while
  none of its occurrences is on its way to an open day. The others are left out
  because the property is false of some of them, of monthly ones, pending rolls
  and clocks in a gap as section 4 says. `GivenUpWhenTheCursorIsLate`
  says what the code does about lateness, which is less than its comment says
  (section 4): the cursor was late, the window one from that cursor on and,
  unless a weekly window was rolling forward, due.

**Only model-checked.** Liveness (`NewestEventuallyInForce`, `ClockCatchesUp`,
`DispatchReturns`, `EveryRunEnds`, `RepairsConverge`): fairness and ENABLED are
beyond the prover. Previews in zones that change, in the last days of a month and
with a roll pending: `NextIsFirstUnlessLost` is checked of them on the instance. Of plans in such
zones nothing is proved or run, nor of monthly rules that roll forward; of the
clock in such zones, and of monthly rules on it, only `WorkIsOnWorkingDays` is.

## 6. Not modelled

- Cron expressions (a library) and the legacy string forms of a schedule type;
  the width of `time.Duration`; monthly rules and cron in `PlanValidation`, whose
  validation differs by one range check.
- The canonical form and the HMAC of callback signatures, the validation of a
  dispatch request, and the parsing of receipts beyond "it names the execution
  or it does not". Both sides of the freshness window share one clock.
- `Reschedule` and the store's synchronization of definitions (`Reconcile`,
  `DisableMissing`) beyond the publication protocol; the recovery list of plans;
  the transport's plain reads.
- Of a plan, the checks of owner, identifiers, target, input, actions,
  conversation and status (`scheduled_plan.go` 28-36, 94-140): each looks at one
  value, and nothing that runs depends on it.
- The OpenAPI schemas of `http_adapter.go`, the leaf schedule's schema, examples
  and command capabilities of the catalog, ownership lists and interfaces:
  static text. The shaping of answers in the browser client.

## 7. Plan

1. (done) Publication with its abstract specification and proofs; recurrence,
   previews, misfire and the clock; dispatch; plans; authoring.
2. (done) `RunLeases` and `RunOutcomes`; `PlanValidation`; `AuthoringCatalog`;
   `OperatorCommands`; weekly rules across clock changes.
3. (done) Proofs of the invariants and action properties of authoring and its
   catalog, publication, leases, dispatch, plans and their validation, commands,
   the clock and previews, and of both refinements.
4. (done) Monthly rules in `RecurrenceProofs`, from days that every month has.
5. Zones that change: the lemmas `SteadyDate` and `DaysInOrder` for clocks that
   exist on every day, as `Unbroken` has them.
6. Monthly rules on the clock: `RecurringResolution` for them, from
   `NextMonthlyIsFirst`.
