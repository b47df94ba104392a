---------------------------- MODULE OperatorCommands ----------------------------
(***************************************************************************)
(* An operator's command on its way to the Scheduler: the browser client,  *)
(* or another caller, asks a host that mounts the routes of the Scheduler  *)
(* HTTP adapter and holds every request to the adapter's contract; the     *)
(* host calls the Binding; the SaaS transport puts the object's name into  *)
(* a path.  Products read their plans through the same transport.          *)
(*                                                                         *)
(* A path is a sequence of segments, and a name is one segment.  Escape    *)
(* gives url.PathEscape of the texts it changes.  The browser's encoding   *)
(* is undone by the host's router and left out: names are not empty and no *)
(* dot segments.                                                           *)
(***************************************************************************)
EXTENDS Naturals, Sequences, FiniteSets

CONSTANTS Names,         \* what an operator or a product may name
          Escape,        \* texts PathEscape changes, with what it makes of them
          PlansPrefix,   \* texts that begin with "plans"
          ReceiptPrefix, \* texts that begin with "deletion-receipt"
          Applications,  \* Runtime identities
          Existing       \* for each kind of object, the names there are

Kinds == {"definitions", "runs", "dead-letters", "plans"}

(* What stands where nothing is named *)
NoName == "(none)"

(* The texts the transport's paths are made of *)
PathWords == Kinds \cup {"triggers", "reschedule", "retry", "cancel", "resolve", "requeue",
                        "deletion-receipt"}

(* What escaping makes of a text has a percent sign: escaping changes it   *)
(* again.  No word of a path is changed.                                   *)
ASSUME CommandsAssumption ==
    /\ DOMAIN Existing = Kinds /\ \A kind \in Kinds : Existing[kind] \subseteq Names
    /\ NoName \notin Names
    /\ \A s, t \in DOMAIN Escape : Escape[s] = Escape[t] => s = t
    /\ \A s \in DOMAIN Escape :
           s \in Names \cup Applications \/ Escape[s] \in Names \cup Applications \cup PathWords =>
               Escape[s] \in DOMAIN Escape
    /\ PathWords \cap DOMAIN Escape = {}

(* The words themselves begin with "plans" or with "deletion-receipt", and *)
(* escaping keeps the beginning of a text.                                 *)
ASSUME PrefixAssumption ==
    /\ (Names \cup Applications) \cap {"plans"} \subseteq PlansPrefix
    /\ (Names \cup Applications) \cap {"deletion-receipt"} \subseteq ReceiptPrefix
    /\ PlansPrefix \cap PathWords \subseteq {"plans"}
    /\ ReceiptPrefix \cap PathWords \subseteq {"deletion-receipt"}
    /\ \A s \in DOMAIN Escape :
           /\ Escape[s] \in PlansPrefix <=> s \in PlansPrefix
           /\ Escape[s] \in ReceiptPrefix <=> s \in ReceiptPrefix

VARIABLES boundary,     \* the guards the host attests to
          permitted,    \* the actions the caller has the permission of
          application,  \* the Runtime the transport is bound to
          asked,        \* what the caller means, who it is and its evidence
          request,      \* the request on its way
          at,           \* who has it
          effects,      \* what the Scheduler has done
          answer

vars == <<boundary, permitted, application, asked, request, at, effects, answer>>
fixed == <<boundary, permitted, application>>

Object(kind, name, verb) == [kind |-> kind, name |-> name, verb |-> verb]
Asked(caller, object, evidence) == [caller |-> caller, object |-> object, evidence |-> evidence]

-----------------------------------------------------------------------------
(* The adapter's contract *)

Id == "{id}"

(* schedulerRoute *)
Route(key, method, template, idempotency, approvals) ==
    [key |-> key, method |-> method, template |-> template,
     idempotency |-> idempotency, approvals |-> approvals]
Reads(key, method, template) == Route(key, method, template, "not_applicable", {})
Writes(key, template, approvals) == Route(key, "POST", template, "caller_key_required", approvals)

SchedulerAuthorizationActions ==
    {Reads("definitions.list", "GET", <<"definitions">>),
     Reads("definitions.get", "GET", <<"definitions", Id>>),
     Reads("authoring_contract.get", "GET", <<"authoring-contract">>),
     Reads("definitions.validate", "POST", <<"definitions", "validate">>),
     Reads("schedules.preview", "POST", <<"schedules", "preview">>),
     Reads("definitions.simulate", "POST", <<"definitions", Id, "simulate">>),
     Reads("state.get", "GET", <<"state">>),
     Writes("definitions.run", <<"definitions", Id, "run">>, {"reason"}),
     Writes("definitions.reschedule", <<"definitions", Id, "reschedule">>, {"reason"}),
     Writes("runs.retry", <<"runs", Id, "retry">>, {"reason"}),
     Writes("runs.cancel", <<"runs", Id, "cancel">>, {"reason", "confirmation"}),
     Writes("dead_letters.resolve", <<"dead-letters", Id, "resolve">>, {"reason", "confirmation"}),
     Writes("dead_letters.requeue", <<"dead-letters", Id, "requeue">>, {"reason", "confirmation"})}

(* A faulty variant: a reason stands for a confirmation. *)
PrerequisitesByReason(route) ==
    (IF route.idempotency = "caller_key_required" THEN {"Idempotency-Key"} ELSE {})
    \cup (IF "reason" \in route.approvals THEN {"X-Operation-Reason"} ELSE {})

(* applySchedulerOperationPrerequisites: the headers a route requires *)
Prerequisites(route) ==
    (IF route.idempotency = "caller_key_required" THEN {"Idempotency-Key"} ELSE {})
    \cup (IF "reason" \in route.approvals THEN {"X-Operation-Reason"} ELSE {})
    \cup (IF "confirmation" \in route.approvals THEN {"X-Operation-Confirmation"} ELSE {})

Guards == {"TrustedHumanPrincipal", "ActionPermissionGuard", "OperationEvidenceGuard"}

(* SchedulerHTTPAdapterContractForTrustedHost *)
Mounted == IF boundary = Guards THEN SchedulerAuthorizationActions ELSE {}

-----------------------------------------------------------------------------
(* The callers *)

Request(method, path, headers, body) ==
    [method |-> method, path |-> path, headers |-> headers, body |-> body]

Init ==
    /\ boundary \in SUBSET Guards
    /\ \E without \in SUBSET {r.key : r \in SchedulerAuthorizationActions} :
           /\ Cardinality(without) <= 1
           /\ permitted = {r.key : r \in SchedulerAuthorizationActions} \ without
    /\ application \in Applications
    /\ asked = Asked("nobody", Object("none", NoName, "none"), {})
    /\ request = Request("none", <<>>, {}, NoName)
    /\ at = "caller" /\ effects = {} /\ answer = "none"

Call(object, method, path, headers) ==
    [object |-> object, method |-> method, path |-> path, headers |-> headers]

Ask(caller, c) ==
    /\ at = "caller" /\ answer = "none" /\ at' = "host"
    /\ asked' = Asked(caller, c.object, c.headers)
    /\ request' = Request(c.method, c.path, c.headers, NoName)
    /\ UNCHANGED <<fixed, effects, answer>>

(* A faulty variant: nothing is confirmed. *)
EvidenceUnconfirmed(confirmed) == {"Idempotency-Key", "X-Operation-Reason"}

(* The evidence the client's dependencies make of a reason *)
Evidence(confirmed) ==
    {"Idempotency-Key", "X-Operation-Reason"}
    \cup (IF confirmed THEN {"X-Operation-Confirmation"} ELSE {})

Command(kind, name, verb, confirmed) ==
    Call(Object(kind, name, verb), "POST", <<kind, name, verb>>, Evidence(confirmed))

(* SchedulerClient.  For versions() the contract has no route. *)
CallsOfTheClient ==
    {Call(Object(resource, NoName, "read"), "GET", <<resource>>, {}) :
        resource \in {"definitions", "state", "authoring-contract"}}
    \cup {Call(Object("definitions", NoName, "validate"), "POST", <<"definitions", "validate">>, {})}
    \cup UNION {
        {Call(Object("definitions", name, "read"), "GET", <<"definitions", name>>, {}),
         Call(Object("definitions", name, "versions"), "GET", <<"definitions", name, "versions">>, {}),
         Call(Object("definitions", name, "simulate"), "POST", <<"definitions", name, "simulate">>, {}),
         Command("definitions", name, "run", FALSE),
         Command("runs", name, "retry", FALSE),
         Command("runs", name, "cancel", TRUE),
         Command("dead-letters", name, "resolve", TRUE)} : name \in Names}

(* Another caller of the listener, with whatever evidence it likes *)
CallsOfOthers ==
    {Call(Object(r.template[1], name, r.template[3]), r.method, [r.template EXCEPT ![2] = name], headers) :
        r \in {s \in SchedulerAuthorizationActions : Len(s.template) = 3}, name \in Names,
        headers \in SUBSET {"Idempotency-Key", "X-Operation-Reason", "X-Operation-Confirmation"}}

ClientCall == \E c \in CallsOfTheClient : Ask("client", c)
OtherCall == \E c \in CallsOfOthers : Ask("other", c)

-----------------------------------------------------------------------------
(* The host and the transport *)

Escaped(text) == IF text \in DOMAIN Escape THEN Escape[text] ELSE text

(* A faulty variant: a dead letter is addressed as the run it came from. *)
ResourceOfTheRun(key) ==
    CASE key = "definitions.run"        -> <<"triggers">>
      [] key = "definitions.reschedule" -> <<"definitions", Id, "reschedule">>
      [] key \in {"runs.retry", "dead_letters.requeue"}  -> <<"runs", Id, "retry">>
      [] key \in {"runs.cancel", "dead_letters.resolve"} -> <<"runs", Id, "cancel">>

(* The resources of Transport's calls; TriggerNow has its name in the body. *)
Resource(key) ==
    CASE key = "definitions.run"        -> <<"triggers">>
      [] key = "definitions.reschedule" -> <<"definitions", Id, "reschedule">>
      [] key = "runs.retry"             -> <<"runs", Id, "retry">>
      [] key = "runs.cancel"            -> <<"runs", Id, "cancel">>
      [] key = "dead_letters.resolve"   -> <<"dead-letters", Id, "resolve">>
      [] key = "dead_letters.requeue"   -> <<"dead-letters", Id, "requeue">>

(* The path a call gives to Transport.request *)
CallPath(resource, name) ==
    <<Escaped(application)>>
        \o [i \in DOMAIN resource |-> IF resource[i] = Id THEN Escaped(name) ELSE resource[i]]

(* Transport.request: what it is given becomes URL.Path, which is a        *)
(* decoded path: URL.String escapes it once more.                          *)
Sent(method, resource, name) ==
    LET path == CallPath(resource, name)
    IN  Request(method, [i \in DOMAIN path |-> Escaped(path[i])], {},
                IF Id \in {resource[i] : i \in DOMAIN resource} THEN NoName ELSE name)

Send(method, resource, name) ==
    request' = Sent(method, resource, name) /\ at' = "scheduler" /\ UNCHANGED answer

Return(result) == at' = "caller" /\ answer' = result /\ UNCHANGED request

Matches(route) ==
    /\ route.method = request.method /\ Len(route.template) = Len(request.path)
    /\ \A i \in DOMAIN request.path : route.template[i] \in {Id, request.path[i]}

(* The host authorizes, asks for the evidence and calls the Binding; the   *)
(* reads, which no name reaches the transport from, it answers itself.     *)
Host ==
    /\ at = "host"
    /\ \/ (\A r \in Mounted : ~Matches(r)) /\ Return("no route")
       \/ \E r \in Mounted :
              /\ Matches(r)
              /\ \/ r.key \notin permitted /\ Return("forbidden")
                 \/ /\ r.key \in permitted /\ ~(Prerequisites(r) \subseteq request.headers)
                    /\ Return("evidence required")
                 \/ /\ r.key \in permitted /\ Prerequisites(r) \subseteq request.headers
                    /\ IF r.idempotency = "not_applicable" THEN Return("ok")
                       ELSE Send("POST", Resource(r.key), request.path[2])
    /\ UNCHANGED <<fixed, asked, effects>>

(* A product reads a plan, or the receipt of its deletion. *)
PlanResources == {<<"plans", Id>>, <<"plans", Id, "deletion-receipt">>}

PlanCall ==
    \E name \in Names, resource \in PlanResources :
        /\ at = "caller" /\ answer = "none"
        /\ asked' = Asked("product", Object("plans", name, resource[Len(resource)]), {})
        /\ Send("GET", resource, name) /\ UNCHANGED <<fixed, effects>>

(* The path as the Scheduler's router decodes it, which undoes one escaping *)
Unescaped(text) ==
    IF \E t \in DOMAIN Escape : Escape[t] = text
    THEN CHOOSE t \in DOMAIN Escape : Escape[t] = text ELSE text

Decoded == [i \in DOMAIN request.path |-> Unescaped(request.path[i])]

(* A faulty variant: a status means the same for every call. *)
ErrorOfAnyCall(status) ==
    CASE status = 400 -> "plan invalid" [] status = 404 -> "plan not found"
      [] status = 409 -> "plan conflict" [] OTHER -> "status 500"

PathContains(prefixes) == \E i \in DOMAIN Decoded : Decoded[i] \in prefixes

(* An error that says no more than the status *)
BareError(status) ==
    CASE status = 400 -> "status 400"
      [] status = 403 -> "status 403"
      [] status = 404 -> "status 404"
      [] status = 409 -> "status 409"
      [] status = 501 -> "status 501"
      [] OTHER        -> "status 500"

PlanError(status) ==
    CASE status = 400 -> "plan invalid"
      [] status = 404 -> "plan not found"
      [] status = 409 -> "plan conflict"
      [] status = 501 -> IF PathContains({"deletion-receipt"} \cup ReceiptPrefix)
                         THEN "deletion read unsupported" ELSE "status 501"

(* Transport.request: calls whose path contains /plans get the plan errors. *)
ErrorOf(status) ==
    IF PathContains({"plans"} \cup PlansPrefix) /\ status \in {400, 404, 409, 501}
    THEN PlanError(status) ELSE BareError(status)

(* What the Scheduler takes the request for *)
Addressed ==
    IF Decoded[2] = "triggers" THEN Object("definitions", request.body, "run")
    ELSE Object(Decoded[2], Decoded[3], IF Len(Decoded) = 3 THEN Id ELSE Decoded[4])

(* The Scheduler refuses what it does not know, or does not want; the      *)
(* answer to what it has done may be lost.                                 *)
Scheduler ==
    LET known == Decoded[1] = application /\ Addressed.name \in Existing[Addressed.kind]
    IN  /\ at = "scheduler"
        /\ \/ /\ \E status \in IF known THEN {400, 409, 500, 501} ELSE {403, 404} :
                     Return(ErrorOf(status))
              /\ UNCHANGED effects
           \/ /\ known /\ effects' = effects \cup {Addressed}
              /\ Return("ok") \/ Return("transport error")
        /\ UNCHANGED <<fixed, asked>>

Next == ClientCall \/ OtherCall \/ PlanCall \/ Host \/ Scheduler

CommandsSpec == Init /\ [][Next]_vars

-----------------------------------------------------------------------------

TypeOK ==
    /\ boundary \subseteq Guards /\ application \in Applications
    /\ at \in {"caller", "host", "scheduler"} /\ Cardinality(effects) <= 1
    /\ asked.object.name \in Names \cup {NoName}

(* What the host has is a call as its caller made it. *)
RequestsAreCalls ==
    at = "host" =>
        \/ \E c \in CallsOfTheClient :
               /\ asked = Asked("client", c.object, c.headers)
               /\ request = Request(c.method, c.path, c.headers, NoName)
        \/ \E c \in CallsOfOthers :
               /\ asked = Asked("other", c.object, c.headers)
               /\ request = Request(c.method, c.path, c.headers, NoName)

(* What the Scheduler has is a product's read, or a command that a route   *)
(* of the guarded host let pass, addressed to what the caller asked for.   *)
CommandsAreAuthorized ==
    at = "scheduler" =>
        \/ \E name \in Names, resource \in PlanResources :
               /\ asked = Asked("product", Object("plans", name, resource[Len(resource)]), {})
               /\ request = Sent("GET", resource, name)
        \/ \E r \in Mounted, name \in Names :
               /\ r.idempotency = "caller_key_required" /\ r.key \in permitted
               /\ Prerequisites(r) \subseteq asked.evidence
               /\ asked.object = Object(r.template[1], name, r.template[3])
               /\ request = Sent("POST", Resource(r.key), name)

(* Nothing is done before it is answered. *)
DoneIsAnswered == (at # "caller" => answer = "none") /\ (answer = "none" => effects = {})

(* What the Scheduler does is what the caller meant, to the one object its *)
(* name comes out as: the name itself where it goes in the body, as that   *)
(* of a definition to run does, and elsewhere the name escaped once.  The  *)
(* transport escapes what URL.String escapes again, so a name that         *)
(* escaping changes is another object's; every other name is its own.      *)
ActsOnTheNamed ==
    \A done \in effects :
        done = [asked.object EXCEPT !.name = IF asked.object.verb = "run" THEN @ ELSE Escaped(@)]

(* Nothing is done for an operator unless the host attests to every guard, *)
(* the caller has the permission of that very action, and a key and a      *)
(* reason came with the request; what ends a run, or touches a dead        *)
(* letter, was confirmed too.                                              *)
NothingWithoutEvidence ==
    \A done \in {d \in effects : d.kind # "plans"} :
        /\ boundary = Guards
        /\ \E r \in SchedulerAuthorizationActions :
               r.key \in permitted /\ r.template = <<done.kind, Id, done.verb>>
        /\ {"Idempotency-Key", "X-Operation-Reason"} \subseteq asked.evidence
        /\ done.verb = "cancel" \/ done.kind = "dead-letters" =>
               "X-Operation-Confirmation" \in asked.evidence

(* The client and the contract compared: a guarded host has no route for   *)
(* versions() and one for every other call of the client, and asks for no  *)
(* evidence the client does not send.                                      *)
ContractServesTheClient ==
    asked.caller = "client" /\ boundary = Guards /\ answer # "none" =>
        /\ answer = "no route" <=> asked.object.verb = "versions"
        /\ answer # "evidence required"

(* What the texts a path is made of begin with.  A name in the body is     *)
(* none of them.                                                           *)
TextsOfThePath ==
    {application} \cup (IF asked.object.verb = "run" THEN {} ELSE {asked.object.name})
TakenForAPlan == asked.object.kind = "plans" \/ TextsOfThePath \cap PlansPrefix # {}
TakenForAReceipt ==
    asked.object.verb = "deletion-receipt" \/ TextsOfThePath \cap ReceiptPrefix # {}

(* A caller is told of plans exactly when it asked for one, or when the    *)
(* Runtime or the object it named begins like the resource, and then never *)
(* gets the plain status of a call that was about something else; the same *)
(* of a deletion's receipt.                                                *)
ErrorsAnswerTheirCalls ==
    /\ answer \in {"plan invalid", "plan not found", "plan conflict"} => TakenForAPlan
    /\ answer \in {"status 400", "status 404", "status 409"} => ~TakenForAPlan
    /\ answer = "deletion read unsupported" => TakenForAPlan /\ TakenForAReceipt
    /\ answer = "status 501" => ~(TakenForAPlan /\ TakenForAReceipt)

(* The inductive invariant: a request is followed from its caller to the   *)
(* Scheduler, and what was done and answered stays.                        *)
CommandsInvariant ==
    /\ TypeOK
    /\ RequestsAreCalls /\ CommandsAreAuthorized /\ DoneIsAnswered
    /\ ActsOnTheNamed /\ NothingWithoutEvidence
    /\ ContractServesTheClient /\ ErrorsAnswerTheirCalls
=============================================================================
