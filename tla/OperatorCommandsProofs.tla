------------------------- MODULE OperatorCommandsProofs -------------------------
(***************************************************************************)
(* Proofs about OperatorCommands for every set of names, applications and  *)
(* existing objects, and every way of escaping texts that marks what it    *)
(* has escaped.                                                            *)
(***************************************************************************)
EXTENDS OperatorCommands, FiniteSetTheorems, TLAPS

(* A text as it comes out of the Scheduler's router *)
Received(text) == Unescaped(Escaped(Escaped(text)))

-----------------------------------------------------------------------------
(* Escaping *)

LEMMA UnescapedInverts ==
    ASSUME CommandsAssumption, NEW t \in DOMAIN Escape
    PROVE  Unescaped(Escape[t]) = t
<1>1. \A s \in DOMAIN Escape : Escape[s] = Escape[t] => s = t
  BY DEF CommandsAssumption
<1>2. (CHOOSE s \in DOMAIN Escape : Escape[s] = Escape[t]) = t
  BY <1>1
<1> QED BY <1>2 DEF Unescaped

LEMMA WordsAreReceived ==
    ASSUME CommandsAssumption, NEW word \in PathWords
    PROVE  Escaped(word) = word /\ Unescaped(word) = word
<1>1. word \notin DOMAIN Escape
  BY DEF CommandsAssumption
<1>2. ~ \E t \in DOMAIN Escape : Escape[t] = word
  BY <1>1 DEF CommandsAssumption
<1> QED BY <1>1, <1>2 DEF Escaped, Unescaped

(* A name is escaped twice and the router undoes one of these.             *)
LEMMA ReceivedEscaped ==
    ASSUME CommandsAssumption, NEW text \in Names \cup Applications
    PROVE  Received(text) = Escaped(text)
<1>1. CASE text \notin DOMAIN Escape
  <2>1. ~ \E t \in DOMAIN Escape : Escape[t] = text
    BY <1>1 DEF CommandsAssumption
  <2> QED BY <1>1, <2>1 DEF Received, Escaped, Unescaped
<1>2. CASE text \in DOMAIN Escape
  <2>1. Escape[text] \in DOMAIN Escape
    BY <1>2 DEF CommandsAssumption
  <2>2. Escaped(text) = Escape[text] /\ Escaped(Escaped(text)) = Escape[Escape[text]]
    BY <1>2, <2>1 DEF Escaped
  <2> QED BY <2>1, <2>2, UnescapedInverts DEF Received
<1> QED BY <1>1, <1>2

(* The names that begin with a word are those that are received as it, or  *)
(* as a text that begins with it.                                          *)
LEMMA PrefixesAreReceived ==
    ASSUME CommandsAssumption, PrefixAssumption, NEW text \in Names \cup Applications
    PROVE  /\ Received(text) \in {"plans"} \cup PlansPrefix <=> text \in PlansPrefix
           /\ Received(text) \in {"deletion-receipt"} \cup ReceiptPrefix <=> text \in ReceiptPrefix
<1>1. CASE text \notin DOMAIN Escape
  <2>1. Received(text) = text
    BY <1>1, ReceivedEscaped DEF Escaped
  <2> QED BY <2>1 DEF PrefixAssumption
<1>2. CASE text \in DOMAIN Escape
  <2>1. Received(text) = Escape[text] /\ Escape[text] \in DOMAIN Escape
    BY <1>2, ReceivedEscaped DEF Escaped, CommandsAssumption
  <2>2. "plans" \notin DOMAIN Escape /\ "deletion-receipt" \notin DOMAIN Escape
    BY DEF CommandsAssumption, PathWords, Kinds
  <2>3. /\ Escape[text] \in PlansPrefix <=> text \in PlansPrefix
        /\ Escape[text] \in ReceiptPrefix <=> text \in ReceiptPrefix
    BY <1>2 DEF PrefixAssumption
  <2> QED BY <2>1, <2>2, <2>3
<1> QED BY <1>1, <1>2

-----------------------------------------------------------------------------
(* Paths *)

LEMMA ShortTuples ==
    /\ \A f : DOMAIN f = 1..2 /\ f = [i \in DOMAIN f |-> f[i]] => f = <<f[1], f[2]>>
    /\ \A f : DOMAIN f = 1..3 /\ f = [i \in DOMAIN f |-> f[i]] => f = <<f[1], f[2], f[3]>>
    /\ \A f : DOMAIN f = 1..4 /\ f = [i \in DOMAIN f |-> f[i]] => f = <<f[1], f[2], f[3], f[4]>>
OBVIOUS

LEMMA OneBeforeOne ==
    ASSUME NEW s, NEW a
    PROVE  <<s>> \o <<a>> = <<s, a>>
<1> DEFINE S == {s, a}  f == <<s>> \o <<a>>
<1>1. <<s>> \in Seq(S) /\ <<a>> \in Seq(S)
  OBVIOUS
<1> HIDE DEF S
<1>2. f \in Seq(S) /\ Len(f) = 2 /\ f[1] = s /\ f[2] = a
  BY <1>1
<1> HIDE DEF f
<1>3. DOMAIN f = 1..2 /\ f = [i \in DOMAIN f |-> f[i]]
  BY <1>2
<1>4. f = <<s, a>>
  BY <1>2, <1>3, ShortTuples
<1> QED BY <1>4 DEF f

LEMMA OneBeforeTwo ==
    ASSUME NEW s, NEW a, NEW b
    PROVE  <<s>> \o <<a, b>> = <<s, a, b>>
<1> DEFINE S == {s, a, b}  f == <<s>> \o <<a, b>>
<1>1. <<s>> \in Seq(S) /\ <<a, b>> \in Seq(S)
  OBVIOUS
<1> HIDE DEF S
<1>2. f \in Seq(S) /\ Len(f) = 3 /\ f[1] = s /\ f[2] = a /\ f[3] = b
  BY <1>1
<1> HIDE DEF f
<1>3. DOMAIN f = 1..3 /\ f = [i \in DOMAIN f |-> f[i]]
  BY <1>2
<1>4. f = <<s, a, b>>
  BY <1>2, <1>3, ShortTuples
<1> QED BY <1>4 DEF f

LEMMA OneBeforeThree ==
    ASSUME NEW s, NEW a, NEW b, NEW c
    PROVE  <<s>> \o <<a, b, c>> = <<s, a, b, c>>
<1> DEFINE S == {s, a, b, c}  f == <<s>> \o <<a, b, c>>
<1>1. <<s>> \in Seq(S) /\ <<a, b, c>> \in Seq(S)
  OBVIOUS
<1> HIDE DEF S
<1>2. f \in Seq(S) /\ Len(f) = 4 /\ f[1] = s /\ f[2] = a /\ f[3] = b /\ f[4] = c
  BY <1>1
<1> HIDE DEF f
<1>3. DOMAIN f = 1..4 /\ f = [i \in DOMAIN f |-> f[i]]
  BY <1>2
<1>4. f = <<s, a, b, c>>
  BY <1>2, <1>3, ShortTuples
<1> QED BY <1>4 DEF f

(* What the Scheduler's router makes of the transport's paths              *)
LEMMA TriggerDecoded ==
    ASSUME CommandsAssumption, NEW method, NEW name, NEW resource, resource = <<"triggers">>,
           request = Sent(method, resource, name)
    PROVE  Decoded = <<Received(application), "triggers">> /\ request.body = name
<1>1. DOMAIN resource = {1} /\ resource[1] = "triggers" /\ "triggers" # Id
  BY DEF Id
<1>2. Escaped("triggers") = "triggers" /\ Unescaped("triggers") = "triggers"
  BY WordsAreReceived DEF PathWords
<1>3. [i \in DOMAIN resource |-> IF resource[i] = Id THEN Escaped(name) ELSE resource[i]] = <<"triggers">>
  BY <1>1
<1>4. CallPath(resource, name) = <<Escaped(application), "triggers">>
  BY <1>3, OneBeforeOne DEF CallPath
<1>5. request.path = <<Escaped(Escaped(application)), Escaped("triggers")>>
  BY <1>4 DEF Sent, Request
<1>6. Decoded = <<Unescaped(Escaped(Escaped(application))), Unescaped(Escaped("triggers"))>>
  BY <1>5 DEF Decoded
<1>7. Id \notin {resource[i] : i \in DOMAIN resource}
  BY <1>1
<1>8. request.body = name
  BY <1>7 DEF Sent, Request
<1> QED BY <1>2, <1>6, <1>8 DEF Received

LEMMA ShortDecoded ==
    ASSUME CommandsAssumption, NEW method, NEW name, NEW kind \in PathWords,
           NEW resource, resource = <<kind, Id>>, request = Sent(method, resource, name)
    PROVE  Decoded = <<Received(application), kind, Received(name)>>
<1>1. kind # Id
  BY DEF PathWords, Kinds, Id
<1>2. Escaped(kind) = kind /\ Unescaped(kind) = kind
  BY WordsAreReceived
<1>3. [i \in DOMAIN resource |-> IF resource[i] = Id THEN Escaped(name) ELSE resource[i]]
        = <<kind, Escaped(name)>>
  BY <1>1
<1>4. CallPath(resource, name) = <<Escaped(application), kind, Escaped(name)>>
  BY <1>3, OneBeforeTwo DEF CallPath
<1>5. request.path = <<Escaped(Escaped(application)), Escaped(kind), Escaped(Escaped(name))>>
  BY <1>4 DEF Sent, Request
<1>6. Decoded = <<Unescaped(Escaped(Escaped(application))), Unescaped(Escaped(kind)),
                  Unescaped(Escaped(Escaped(name)))>>
  BY <1>5 DEF Decoded
<1> QED BY <1>2, <1>6 DEF Received

LEMMA LongDecoded ==
    ASSUME CommandsAssumption, NEW method, NEW name, NEW kind \in PathWords, NEW verb \in PathWords,
           NEW resource, resource = <<kind, Id, verb>>, request = Sent(method, resource, name)
    PROVE  Decoded = <<Received(application), kind, Received(name), verb>>
<1>1. kind # Id /\ verb # Id
  BY DEF PathWords, Kinds, Id
<1>2. /\ Escaped(kind) = kind /\ Unescaped(kind) = kind
      /\ Escaped(verb) = verb /\ Unescaped(verb) = verb
  BY WordsAreReceived
<1>3. [i \in DOMAIN resource |-> IF resource[i] = Id THEN Escaped(name) ELSE resource[i]]
        = <<kind, Escaped(name), verb>>
  BY <1>1
<1>4. CallPath(resource, name) = <<Escaped(application), kind, Escaped(name), verb>>
  BY <1>3, OneBeforeThree DEF CallPath
<1>5. request.path
        = <<Escaped(Escaped(application)), Escaped(kind), Escaped(Escaped(name)), Escaped(verb)>>
  BY <1>4 DEF Sent, Request
<1>6. Decoded = <<Unescaped(Escaped(Escaped(application))), Unescaped(Escaped(kind)),
                  Unescaped(Escaped(Escaped(name))), Unescaped(Escaped(verb))>>
  BY <1>5 DEF Decoded
<1> QED BY <1>2, <1>6 DEF Received

-----------------------------------------------------------------------------
(* Routes *)

WritingRoutes ==
    {Writes("definitions.run", <<"definitions", Id, "run">>, {"reason"}),
     Writes("definitions.reschedule", <<"definitions", Id, "reschedule">>, {"reason"}),
     Writes("runs.retry", <<"runs", Id, "retry">>, {"reason"}),
     Writes("runs.cancel", <<"runs", Id, "cancel">>, {"reason", "confirmation"}),
     Writes("dead_letters.resolve", <<"dead-letters", Id, "resolve">>, {"reason", "confirmation"}),
     Writes("dead_letters.requeue", <<"dead-letters", Id, "requeue">>, {"reason", "confirmation"})}

LEMMA RoutesThatWrite ==
    ASSUME NEW r \in SchedulerAuthorizationActions
    PROVE  /\ r.idempotency \in {"not_applicable", "caller_key_required"}
           /\ r.idempotency = "caller_key_required" => r \in WritingRoutes
BY DEF SchedulerAuthorizationActions, WritingRoutes, Reads, Writes, Route

(* The template and the resource of a writing route name the same object,  *)
(* but for the one whose object is named in the body.                      *)
LEMMA RoutesAndResources ==
    ASSUME NEW r \in WritingRoutes
    PROVE  \/ /\ r.template = <<"definitions", Id, "run">> /\ Resource(r.key) = <<"triggers">>
           \/ \E kind \in {"definitions", "runs", "dead-letters"},
                verb \in {"reschedule", "retry", "cancel", "resolve", "requeue"} :
                  /\ r.template = <<kind, Id, verb>> /\ Resource(r.key) = <<kind, Id, verb>>
<1>1. CASE r.key = "definitions.run"
  BY <1>1 DEF WritingRoutes, Writes, Route, Resource
<1>2. CASE r.key = "definitions.reschedule"
  <2>1. r.template = <<"definitions", Id, "reschedule">>
    BY <1>2 DEF WritingRoutes, Writes, Route
  <2>2. Resource(r.key) = <<"definitions", Id, "reschedule">>
    BY <1>2 DEF Resource
  <2> QED BY <2>1, <2>2
<1>3. CASE r.key = "runs.retry"
  <2>1. r.template = <<"runs", Id, "retry">>
    BY <1>3 DEF WritingRoutes, Writes, Route
  <2>2. Resource(r.key) = <<"runs", Id, "retry">>
    BY <1>3 DEF Resource
  <2> QED BY <2>1, <2>2
<1>4. CASE r.key = "runs.cancel"
  <2>1. r.template = <<"runs", Id, "cancel">>
    BY <1>4 DEF WritingRoutes, Writes, Route
  <2>2. Resource(r.key) = <<"runs", Id, "cancel">>
    BY <1>4 DEF Resource
  <2> QED BY <2>1, <2>2
<1>5. CASE r.key = "dead_letters.resolve"
  <2>1. r.template = <<"dead-letters", Id, "resolve">>
    BY <1>5 DEF WritingRoutes, Writes, Route
  <2>2. Resource(r.key) = <<"dead-letters", Id, "resolve">>
    BY <1>5 DEF Resource
  <2> QED BY <2>1, <2>2
<1>6. CASE r.key = "dead_letters.requeue"
  <2>1. r.template = <<"dead-letters", Id, "requeue">>
    BY <1>6 DEF WritingRoutes, Writes, Route
  <2>2. Resource(r.key) = <<"dead-letters", Id, "requeue">>
    BY <1>6 DEF Resource
  <2> QED BY <2>1, <2>2
<1> QED BY <1>1, <1>2, <1>3, <1>4, <1>5, <1>6 DEF WritingRoutes, Writes, Route

(* A route that writes requires a key and a reason, and a confirmation of  *)
(* what ends a run or touches a dead letter.                               *)
LEMMA RoutesAndEvidence ==
    ASSUME NEW r \in WritingRoutes
    PROVE  /\ {"Idempotency-Key", "X-Operation-Reason"} \subseteq Prerequisites(r)
           /\ r.template[3] = "cancel" \/ r.template[1] = "dead-letters" =>
                  "X-Operation-Confirmation" \in Prerequisites(r)
<1>1. r.idempotency = "caller_key_required" /\ "reason" \in r.approvals
  BY DEF WritingRoutes, Writes, Route
<1>2. r.template[3] = "cancel" \/ r.template[1] = "dead-letters" => "confirmation" \in r.approvals
  BY DEF WritingRoutes, Writes, Route
<1> QED BY <1>1, <1>2 DEF Prerequisites

-----------------------------------------------------------------------------
(* What reaches the Scheduler *)

Authorized(kind, verb) ==
    \E r \in WritingRoutes :
        /\ r \in Mounted /\ r.key \in permitted /\ r.template = <<kind, Id, verb>>
        /\ Prerequisites(r) \subseteq asked.evidence

(* The four forms of a request, as the Scheduler's router decodes it       *)
ReceiptForm(name) ==
    /\ asked.object = Object("plans", name, "deletion-receipt")
    /\ Decoded = <<Received(application), "plans", Received(name), "deletion-receipt">>

PlanForm(name) ==
    /\ asked.object = Object("plans", name, Id)
    /\ Decoded = <<Received(application), "plans", Received(name)>>

TriggerForm(name) ==
    /\ asked.object = Object("definitions", name, "run") /\ Authorized("definitions", "run")
    /\ Decoded = <<Received(application), "triggers">> /\ request.body = name

CommandForm(name, kind, verb) ==
    /\ asked.object = Object(kind, name, verb) /\ Authorized(kind, verb)
    /\ Decoded = <<Received(application), kind, Received(name), verb>>

CommandKinds == {"definitions", "runs", "dead-letters"}
CommandVerbs == {"reschedule", "retry", "cancel", "resolve", "requeue"}

LEMMA FormsOfRequests ==
    ASSUME CommandsAssumption, CommandsAreAuthorized, at = "scheduler"
    PROVE  \E name \in Names :
               \/ ReceiptForm(name) \/ PlanForm(name) \/ TriggerForm(name)
               \/ \E kind \in CommandKinds, verb \in CommandVerbs : CommandForm(name, kind, verb)
<1>1. CASE \E name \in Names, resource \in PlanResources :
               /\ asked = Asked("product", Object("plans", name, resource[Len(resource)]), {})
               /\ request = Sent("GET", resource, name)
  <2>1. PICK name \in Names, resource \in PlanResources :
            /\ asked = Asked("product", Object("plans", name, resource[Len(resource)]), {})
            /\ request = Sent("GET", resource, name)
    BY <1>1
  <2>2. "plans" \in PathWords /\ "deletion-receipt" \in PathWords
    BY DEF PathWords, Kinds
  <2>3. CASE resource = <<"plans", Id>>
    <3>1. Decoded = <<Received(application), "plans", Received(name)>>
      BY <2>1, <2>2, <2>3, ShortDecoded
    <3>2. asked.object = Object("plans", name, Id)
      BY <2>1, <2>3 DEF Asked
    <3> QED BY <3>1, <3>2 DEF PlanForm
  <2>4. CASE resource = <<"plans", Id, "deletion-receipt">>
    <3>1. Decoded = <<Received(application), "plans", Received(name), "deletion-receipt">>
      BY <2>1, <2>2, <2>4, LongDecoded
    <3>2. asked.object = Object("plans", name, "deletion-receipt")
      BY <2>1, <2>4 DEF Asked
    <3> QED BY <3>1, <3>2 DEF ReceiptForm
  <2> QED BY <2>3, <2>4 DEF PlanResources
<1>2. CASE \E r \in Mounted, name \in Names :
               /\ r.idempotency = "caller_key_required" /\ r.key \in permitted
               /\ Prerequisites(r) \subseteq asked.evidence
               /\ asked.object = Object(r.template[1], name, r.template[3])
               /\ request = Sent("POST", Resource(r.key), name)
  <2>1. PICK r \in Mounted, name \in Names :
            /\ r.idempotency = "caller_key_required" /\ r.key \in permitted
            /\ Prerequisites(r) \subseteq asked.evidence
            /\ asked.object = Object(r.template[1], name, r.template[3])
            /\ request = Sent("POST", Resource(r.key), name)
    BY <1>2
  <2>2. r \in WritingRoutes
    BY <2>1, RoutesThatWrite DEF Mounted
  <2>3. CASE r.template = <<"definitions", Id, "run">> /\ Resource(r.key) = <<"triggers">>
    <3>1. Decoded = <<Received(application), "triggers">> /\ request.body = name
      BY <2>1, <2>3, TriggerDecoded
    <3>2. Authorized("definitions", "run")
      BY <2>1, <2>2, <2>3 DEF Authorized
    <3>3. asked.object = Object("definitions", name, "run")
      BY <2>1, <2>3
    <3> QED BY <3>1, <3>2, <3>3 DEF TriggerForm
  <2>4. ASSUME NEW kind \in CommandKinds, NEW verb \in CommandVerbs,
               r.template = <<kind, Id, verb>>, Resource(r.key) = <<kind, Id, verb>>
        PROVE  CommandForm(name, kind, verb)
    <3>1. kind \in PathWords /\ verb \in PathWords
      BY DEF PathWords, Kinds, CommandKinds, CommandVerbs
    <3>2. Decoded = <<Received(application), kind, Received(name), verb>>
      BY <2>1, <2>4, <3>1, LongDecoded
    <3>3. Authorized(kind, verb)
      BY <2>1, <2>2, <2>4 DEF Authorized
    <3>4. asked.object = Object(kind, name, verb)
      BY <2>1, <2>4
    <3> QED BY <3>2, <3>3, <3>4 DEF CommandForm
  <2> QED BY <2>2, <2>3, <2>4, RoutesAndResources DEF CommandKinds, CommandVerbs
<1> QED BY <1>1, <1>2 DEF CommandsAreAuthorized

(* What the Scheduler takes a request for *)
LEMMA AddressedByForm ==
    ASSUME NEW name \in Names
    PROVE  /\ ReceiptForm(name) => Addressed = Object("plans", Received(name), "deletion-receipt")
           /\ PlanForm(name) => Addressed = Object("plans", Received(name), Id)
           /\ TriggerForm(name) => Addressed = Object("definitions", name, "run")
           /\ \A kind \in CommandKinds, verb \in CommandVerbs :
                  CommandForm(name, kind, verb) => Addressed = Object(kind, Received(name), verb)
<1>1. ASSUME ReceiptForm(name) PROVE Addressed = Object("plans", Received(name), "deletion-receipt")
  BY <1>1 DEF ReceiptForm, Addressed
<1>2. ASSUME PlanForm(name) PROVE Addressed = Object("plans", Received(name), Id)
  BY <1>2 DEF PlanForm, Addressed
<1>3. ASSUME TriggerForm(name) PROVE Addressed = Object("definitions", name, "run")
  BY <1>3 DEF TriggerForm, Addressed
<1>4. ASSUME NEW kind \in CommandKinds, NEW verb \in CommandVerbs, CommandForm(name, kind, verb)
      PROVE  Addressed = Object(kind, Received(name), verb)
  <2>1. kind # "triggers"
    BY DEF CommandKinds
  <2> QED BY <1>4, <2>1 DEF CommandForm, Addressed
<1> QED BY <1>1, <1>2, <1>3, <1>4

(* What is done is the object asked for, by the name that is in the body,  *)
(* or escaped once where it is in the path.                                *)
LEMMA DoneAsAsked ==
    ASSUME CommandsAssumption, CommandsAreAuthorized, at = "scheduler"
    PROVE  Addressed = [asked.object EXCEPT !.name =
                            IF asked.object.verb = "run" THEN @ ELSE Escaped(@)]
<1>1. PICK name \in Names :
          \/ ReceiptForm(name) \/ PlanForm(name) \/ TriggerForm(name)
          \/ \E kind \in CommandKinds, verb \in CommandVerbs : CommandForm(name, kind, verb)
  BY FormsOfRequests
<1>2. Received(name) = Escaped(name)
  BY ReceivedEscaped
<1>3. ASSUME NEW kind, NEW verb, asked.object = Object(kind, name, verb)
      PROVE  [asked.object EXCEPT !.name = IF asked.object.verb = "run" THEN @ ELSE Escaped(@)]
                 = Object(kind, IF verb = "run" THEN name ELSE Escaped(name), verb)
  BY <1>3 DEF Object
<1>4. CASE ReceiptForm(name)
  <2>1. asked.object = Object("plans", name, "deletion-receipt")
    BY <1>4 DEF ReceiptForm
  <2>2. Addressed = Object("plans", Escaped(name), "deletion-receipt")
    BY <1>2, <1>4, AddressedByForm
  <2> QED BY <1>3, <2>1, <2>2
<1>5. CASE PlanForm(name)
  <2>1. asked.object = Object("plans", name, Id) /\ Id # "run"
    BY <1>5 DEF PlanForm, Id
  <2>2. Addressed = Object("plans", Escaped(name), Id)
    BY <1>2, <1>5, AddressedByForm
  <2> QED BY <1>3, <2>1, <2>2
<1>6. CASE TriggerForm(name)
  <2>1. asked.object = Object("definitions", name, "run")
    BY <1>6 DEF TriggerForm
  <2>2. Addressed = Object("definitions", name, "run")
    BY <1>6, AddressedByForm
  <2> QED BY <1>3, <2>1, <2>2
<1>7. ASSUME NEW kind \in CommandKinds, NEW verb \in CommandVerbs, CommandForm(name, kind, verb)
      PROVE  Addressed = [asked.object EXCEPT !.name =
                              IF asked.object.verb = "run" THEN @ ELSE Escaped(@)]
  <2>1. asked.object = Object(kind, name, verb) /\ verb # "run"
    BY <1>7 DEF CommandForm, CommandVerbs
  <2>2. Addressed = Object(kind, Escaped(name), verb)
    BY <1>2, <1>7, AddressedByForm
  <2> QED BY <1>3, <2>1, <2>2
<1> QED BY <1>1, <1>4, <1>5, <1>6, <1>7

LEMMA DoneWithEvidence ==
    ASSUME CommandsAssumption, CommandsAreAuthorized, at = "scheduler", Addressed.kind # "plans"
    PROVE  /\ boundary = Guards
           /\ \E r \in SchedulerAuthorizationActions :
                  r.key \in permitted /\ r.template = <<Addressed.kind, Id, Addressed.verb>>
           /\ {"Idempotency-Key", "X-Operation-Reason"} \subseteq asked.evidence
           /\ Addressed.verb = "cancel" \/ Addressed.kind = "dead-letters" =>
                  "X-Operation-Confirmation" \in asked.evidence
<1>1. PICK name \in Names :
          \/ ReceiptForm(name) \/ PlanForm(name) \/ TriggerForm(name)
          \/ \E kind \in CommandKinds, verb \in CommandVerbs : CommandForm(name, kind, verb)
  BY FormsOfRequests
<1>2. ~ReceiptForm(name) /\ ~PlanForm(name)
  BY AddressedByForm DEF Object
<1>3. Authorized(Addressed.kind, Addressed.verb)
  <2>1. CASE TriggerForm(name)
    BY <2>1, AddressedByForm DEF TriggerForm, Object
  <2>2. ASSUME NEW kind \in CommandKinds, NEW verb \in CommandVerbs, CommandForm(name, kind, verb)
        PROVE  Authorized(Addressed.kind, Addressed.verb)
    BY <2>2, AddressedByForm DEF CommandForm, Object
  <2> QED BY <1>1, <1>2, <2>1, <2>2
<1>4. PICK r \in WritingRoutes :
          /\ r \in Mounted /\ r.key \in permitted
          /\ r.template = <<Addressed.kind, Id, Addressed.verb>>
          /\ Prerequisites(r) \subseteq asked.evidence
  BY <1>3 DEF Authorized
<1>5. boundary = Guards /\ r \in SchedulerAuthorizationActions
  BY <1>4 DEF Mounted
<1>6. r.template[1] = Addressed.kind /\ r.template[3] = Addressed.verb
  BY <1>4
<1> QED BY <1>4, <1>5, <1>6, RoutesAndEvidence

(* Which errors a status is mapped to *)
PlanErrors == {"plan invalid", "plan not found", "plan conflict"}
BareErrors ==
    {"status 400", "status 403", "status 404", "status 409", "status 501", "status 500"}

(* The path contains a word exactly when the request is taken for one      *)
(* about it.                                                               *)
LEMMA PathsByForm ==
    ASSUME CommandsAssumption, PrefixAssumption, TypeOK, CommandsAreAuthorized, at = "scheduler"
    PROVE  /\ PathContains({"plans"} \cup PlansPrefix) <=> TakenForAPlan
           /\ PathContains({"deletion-receipt"} \cup ReceiptPrefix) <=> TakenForAReceipt
<1>1. PICK name \in Names :
          \/ ReceiptForm(name) \/ PlanForm(name) \/ TriggerForm(name)
          \/ \E kind \in CommandKinds, verb \in CommandVerbs : CommandForm(name, kind, verb)
  BY FormsOfRequests
<1> DEFINE plan == {"plans"} \cup PlansPrefix
           receipt == {"deletion-receipt"} \cup ReceiptPrefix
           app == Received(application)
           named == Received(name)
<1>2. /\ app \in plan <=> application \in PlansPrefix
      /\ app \in receipt <=> application \in ReceiptPrefix
  BY PrefixesAreReceived DEF TypeOK
<1>3. /\ named \in plan <=> name \in PlansPrefix
      /\ named \in receipt <=> name \in ReceiptPrefix
  BY PrefixesAreReceived
<1>4. /\ "plans" \in plan /\ "deletion-receipt" \in receipt
      /\ "plans" \notin receipt /\ "deletion-receipt" \notin plan
      /\ \A word \in {"triggers"} \cup CommandKinds \cup CommandVerbs :
             word \notin plan /\ word \notin receipt
  BY DEF PrefixAssumption, PathWords, Kinds, CommandKinds, CommandVerbs
<1> HIDE DEF plan, receipt, app, named
<1>5. ASSUME NEW prefixes
      PROVE  /\ \A a, b : Decoded = <<a, b>> =>
                    (PathContains(prefixes) <=> a \in prefixes \/ b \in prefixes)
             /\ \A a, b, c : Decoded = <<a, b, c>> =>
                    (PathContains(prefixes) <=> a \in prefixes \/ b \in prefixes \/ c \in prefixes)
             /\ \A a, b, c, e : Decoded = <<a, b, c, e>> =>
                    (PathContains(prefixes) <=>
                        a \in prefixes \/ b \in prefixes \/ c \in prefixes \/ e \in prefixes)
  BY DEF PathContains
<1>6. ASSUME NEW kind, NEW verb, asked.object = Object(kind, name, verb), verb # "run"
      PROVE  /\ TakenForAPlan <=>
                    kind = "plans" \/ application \in PlansPrefix \/ name \in PlansPrefix
             /\ TakenForAReceipt <=> \/ verb = "deletion-receipt"
                                     \/ application \in ReceiptPrefix \/ name \in ReceiptPrefix
  <2>1. asked.object.kind = kind /\ asked.object.verb = verb /\ asked.object.name = name
    BY <1>6 DEF Object
  <2>2. TextsOfThePath = {application, name}
    BY <1>6, <2>1 DEF TextsOfThePath
  <2> QED BY <2>1, <2>2 DEF TakenForAPlan, TakenForAReceipt
<1>7. CASE ReceiptForm(name)
  <2>1. /\ asked.object = Object("plans", name, "deletion-receipt")
        /\ Decoded = <<app, "plans", named, "deletion-receipt">>
    BY <1>7 DEF ReceiptForm, app, named
  <2>2. TakenForAPlan /\ TakenForAReceipt
    BY <1>6, <2>1
  <2>3. PathContains(plan) /\ PathContains(receipt)
    BY <1>4, <1>5, <2>1
  <2> QED BY <2>2, <2>3 DEF plan, receipt
<1>8. CASE PlanForm(name)
  <2>1. asked.object = Object("plans", name, Id) /\ Decoded = <<app, "plans", named>>
    BY <1>8 DEF PlanForm, app, named
  <2>2. Id # "run" /\ Id # "deletion-receipt"
    BY DEF Id
  <2>3. /\ TakenForAPlan
        /\ TakenForAReceipt <=> application \in ReceiptPrefix \/ name \in ReceiptPrefix
    BY <1>6, <2>1, <2>2
  <2>4. PathContains(plan) /\ (PathContains(receipt) <=> app \in receipt \/ named \in receipt)
    BY <1>4, <1>5, <2>1
  <2> QED BY <1>2, <1>3, <2>3, <2>4 DEF plan, receipt
<1>9. CASE TriggerForm(name)
  <2>1. asked.object = Object("definitions", name, "run") /\ Decoded = <<app, "triggers">>
    BY <1>9 DEF TriggerForm, app
  <2>2. asked.object.kind = "definitions" /\ asked.object.verb = "run"
    BY <2>1 DEF Object
  <2>3. TextsOfThePath = {application}
    BY <2>2 DEF TextsOfThePath
  <2>4. /\ TakenForAPlan <=> application \in PlansPrefix
        /\ TakenForAReceipt <=> application \in ReceiptPrefix
    BY <2>2, <2>3 DEF TakenForAPlan, TakenForAReceipt
  <2>5. /\ PathContains(plan) <=> app \in plan
        /\ PathContains(receipt) <=> app \in receipt
    BY <1>4, <1>5, <2>1
  <2> QED BY <1>2, <2>4, <2>5 DEF plan, receipt
<1>10. ASSUME NEW kind \in CommandKinds, NEW verb \in CommandVerbs, CommandForm(name, kind, verb)
       PROVE  /\ PathContains(plan) <=> TakenForAPlan
              /\ PathContains(receipt) <=> TakenForAReceipt
  <2>1. asked.object = Object(kind, name, verb) /\ Decoded = <<app, kind, named, verb>>
    BY <1>10 DEF CommandForm, app, named
  <2>2. kind # "plans" /\ verb \notin {"run", "deletion-receipt"}
    BY DEF CommandKinds, CommandVerbs
  <2>3. /\ TakenForAPlan <=> application \in PlansPrefix \/ name \in PlansPrefix
        /\ TakenForAReceipt <=> application \in ReceiptPrefix \/ name \in ReceiptPrefix
    BY <1>6, <2>1, <2>2
  <2>4. kind \notin plan /\ kind \notin receipt /\ verb \notin plan /\ verb \notin receipt
    BY <1>4
  <2>5. /\ PathContains(plan) <=> app \in plan \/ named \in plan
        /\ PathContains(receipt) <=> app \in receipt \/ named \in receipt
    BY <1>5, <2>1, <2>4
  <2> QED BY <1>2, <1>3, <2>3, <2>5
<1>11. CASE \E kind \in CommandKinds, verb \in CommandVerbs : CommandForm(name, kind, verb)
  BY <1>10, <1>11 DEF plan, receipt
<1> QED BY <1>1, <1>7, <1>8, <1>9, <1>11, Zenon

(* The errors of calls that are taken for ones about plans, and of others *)
LEMMA ErrorsByForm ==
    ASSUME CommandsAssumption, PrefixAssumption, TypeOK, CommandsAreAuthorized, at = "scheduler",
           NEW status
    PROVE  /\ ErrorOf(status) \in PlanErrors => TakenForAPlan
           /\ ErrorOf(status) \in {"status 400", "status 404", "status 409"} => ~TakenForAPlan
           /\ ErrorOf(status) = "deletion read unsupported" => TakenForAPlan /\ TakenForAReceipt
           /\ ErrorOf(status) = "status 501" => ~(TakenForAPlan /\ TakenForAReceipt)
           /\ ErrorOf(status) \in PlanErrors \cup {"deletion read unsupported"} \cup BareErrors
<1> DEFINE plan == PathContains({"plans"} \cup PlansPrefix)
           receipt == PathContains({"deletion-receipt"} \cup ReceiptPrefix)
<1>1. (plan <=> TakenForAPlan) /\ (receipt <=> TakenForAReceipt)
  BY PathsByForm
<1> HIDE DEF plan, receipt
<1>2. /\ BareError(status) \in BareErrors
      /\ status \notin {400, 404, 409} =>
             BareError(status) \notin {"status 400", "status 404", "status 409"}
      /\ status # 501 => BareError(status) # "status 501"
  BY DEF BareError, BareErrors
<1>3. CASE ~plan
  <2>1. ErrorOf(status) = BareError(status)
    BY <1>3 DEF ErrorOf, plan
  <2>2. ErrorOf(status) \in BareErrors /\ ~TakenForAPlan
    BY <1>1, <1>2, <1>3, <2>1
  <2>3. ErrorOf(status) \notin PlanErrors \cup {"deletion read unsupported"}
    BY <2>2 DEF PlanErrors, BareErrors
  <2> QED BY <2>2, <2>3
<1>4. CASE plan /\ status = 501 /\ receipt
  <2>1. ErrorOf(501) = "deletion read unsupported"
    BY <1>4 DEF ErrorOf, PlanError, plan, receipt
  <2>2. ErrorOf(status) = "deletion read unsupported"
    BY <1>4, <2>1
  <2> QED BY <1>1, <1>4, <2>2 DEF PlanErrors
<1>5. CASE plan /\ status = 501 /\ ~receipt
  <2>1. ErrorOf(501) = "status 501"
    BY <1>5 DEF ErrorOf, PlanError, plan, receipt
  <2>2. ErrorOf(status) = "status 501"
    BY <1>5, <2>1
  <2> QED BY <1>1, <1>5, <2>2 DEF PlanErrors, BareErrors
<1>6. CASE plan /\ status \in {400, 404, 409}
  <2>1. ErrorOf(400) \in PlanErrors /\ ErrorOf(404) \in PlanErrors /\ ErrorOf(409) \in PlanErrors
    BY <1>6 DEF ErrorOf, PlanError, plan, PlanErrors
  <2>2. ErrorOf(status) \in PlanErrors
    BY <1>6, <2>1
  <2> QED BY <1>1, <1>6, <2>2 DEF PlanErrors
<1>7. CASE plan /\ status \notin {400, 404, 409, 501}
  <2>1. ErrorOf(status) = BareError(status)
    BY <1>7 DEF ErrorOf, plan
  <2>2. /\ BareError(status) \in BareErrors
        /\ BareError(status) \notin {"status 400", "status 404", "status 409"}
        /\ BareError(status) # "status 501"
    BY <1>2, <1>7
  <2>3. /\ ErrorOf(status) \in BareErrors
        /\ ErrorOf(status) \notin {"status 400", "status 404", "status 409", "status 501"}
    BY <2>1, <2>2
  <2> QED BY <2>3 DEF PlanErrors, BareErrors
<1> QED BY <1>3, <1>4, <1>5, <1>6, <1>7

-----------------------------------------------------------------------------
(* What the host answers *)

LEMMA RoutesThatRead ==
    ASSUME NEW r \in SchedulerAuthorizationActions, r.idempotency = "not_applicable"
    PROVE  Prerequisites(r) = {}
<1>1. r.approvals = {}
  BY DEF SchedulerAuthorizationActions, Reads, Writes, Route
<1> QED BY <1>1 DEF Prerequisites

(* The calls of the client, by their paths                                 *)
ObjectCalls(name) ==
    {Call(Object("definitions", name, "versions"), "GET", <<"definitions", name, "versions">>, {}),
     Call(Object("definitions", name, "simulate"), "POST", <<"definitions", name, "simulate">>, {}),
     Command("definitions", name, "run", FALSE),
     Command("runs", name, "retry", FALSE),
     Command("runs", name, "cancel", TRUE),
     Command("dead-letters", name, "resolve", TRUE)}

LEMMA ClientCalls ==
    ASSUME NEW c \in CallsOfTheClient
    PROVE  \/ \E resource \in {"definitions", "state", "authoring-contract"} :
                 c = Call(Object(resource, NoName, "read"), "GET", <<resource>>, {})
           \/ c = Call(Object("definitions", NoName, "validate"), "POST",
                       <<"definitions", "validate">>, {})
           \/ \E name \in Names :
                 c = Call(Object("definitions", name, "read"), "GET", <<"definitions", name>>, {})
           \/ \E name \in Names : c \in ObjectCalls(name)
BY Zenon DEF CallsOfTheClient, ObjectCalls

Shape(c, method, kind, name, verb, headers) ==
    /\ c.method = method /\ c.path = <<kind, name, verb>> /\ c.headers = headers
    /\ c.object.verb = verb

LEMMA ShapesOfObjectCalls ==
    ASSUME NEW name \in Names, NEW c \in ObjectCalls(name)
    PROVE  \/ Shape(c, "GET", "definitions", name, "versions", {})
           \/ Shape(c, "POST", "definitions", name, "simulate", {})
           \/ Shape(c, "POST", "definitions", name, "run", Evidence(FALSE))
           \/ Shape(c, "POST", "runs", name, "retry", Evidence(FALSE))
           \/ Shape(c, "POST", "runs", name, "cancel", Evidence(TRUE))
           \/ Shape(c, "POST", "dead-letters", name, "resolve", Evidence(TRUE))
<1>1. \A method, kind, verb, headers :
          Shape(Call(Object(kind, name, verb), method, <<kind, name, verb>>, headers),
                method, kind, name, verb, headers)
  BY DEF Shape, Call, Object
<1> QED BY <1>1, Zenon DEF ObjectCalls, Command

LEMMA ObjectCallsNameTheirObject ==
    ASSUME NEW name \in Names, NEW c \in ObjectCalls(name)
    PROVE  /\ c.object = Object(c.object.kind, name, c.object.verb)
           /\ c.path = <<c.object.kind, name, c.object.verb>>
<1>1. PICK kind, verb, method, headers :
          c = Call(Object(kind, name, verb), method, <<kind, name, verb>>, headers)
  BY DEF ObjectCalls, Command
<1>2. c.object = Object(kind, name, verb) /\ c.path = <<kind, name, verb>>
  BY <1>1 DEF Call
<1>3. c.object.kind = kind /\ c.object.verb = verb
  BY <1>2 DEF Object
<1> QED BY <1>2, <1>3

(* A call with three segments names one object in the second.              *)
LEMMA LongCalls ==
    ASSUME NEW c \in CallsOfTheClient \cup CallsOfOthers, Len(c.path) = 3
    PROVE  \E name \in Names :
               /\ c.object = Object(c.object.kind, name, c.object.verb)
               /\ c.path = <<c.object.kind, name, c.object.verb>>
<1>1. CASE c \in CallsOfTheClient
  <2>1. \/ \E a : c.path = <<a>>
        \/ \E a, b : c.path = <<a, b>>
        \/ \E name \in Names : c \in ObjectCalls(name)
    <3>1. CASE \E resource \in {"definitions", "state", "authoring-contract"} :
                   c = Call(Object(resource, NoName, "read"), "GET", <<resource>>, {})
      BY <3>1 DEF Call
    <3>2. CASE c = Call(Object("definitions", NoName, "validate"), "POST",
                        <<"definitions", "validate">>, {})
      BY <3>2 DEF Call
    <3>3. CASE \E name \in Names :
                   c = Call(Object("definitions", name, "read"), "GET", <<"definitions", name>>, {})
      BY <3>3 DEF Call
    <3> QED BY <1>1, <3>1, <3>2, <3>3, ClientCalls, Zenon
  <2>2. \E name \in Names : c \in ObjectCalls(name)
    BY <2>1
  <2> QED BY <2>2, ObjectCallsNameTheirObject
<1>2. CASE c \in CallsOfOthers
  <2>1. PICK r \in SchedulerAuthorizationActions, name \in Names :
            /\ Len(r.template) = 3 /\ c.object = Object(r.template[1], name, r.template[3])
            /\ c.path = [r.template EXCEPT ![2] = name]
    BY <1>2 DEF CallsOfOthers, Call
  <2>2. PICK kind, verb : r.template = <<kind, Id, verb>>
    BY <2>1 DEF SchedulerAuthorizationActions, Reads, Writes, Route
  <2>3. c.object = Object(kind, name, verb) /\ c.path = <<kind, name, verb>>
    BY <2>1, <2>2
  <2> QED BY <2>3 DEF Object
<1> QED BY <1>1, <1>2

(* What the client sends with a command is all a route may require of it.  *)
LEMMA EvidenceSuffices ==
    ASSUME NEW r \in WritingRoutes
    PROVE  /\ Prerequisites(r) \subseteq Evidence(TRUE)
           /\ r.template[3] \in {"run", "retry"} => Prerequisites(r) \subseteq Evidence(FALSE)
<1>1. r.template[3] \in {"run", "retry"} => r.approvals = {"reason"}
  BY DEF WritingRoutes, Writes, Route
<1> QED BY <1>1 DEF Prerequisites, Evidence

LEMMA ClientHasRoutes ==
    ASSUME NEW c \in CallsOfTheClient, c.object.verb # "versions",
           request.method = c.method, request.path = c.path
    PROVE  \E r \in SchedulerAuthorizationActions : Matches(r)
<1>1. ASSUME NEW r \in SchedulerAuthorizationActions, NEW a,
             r.method = request.method, request.path = <<a>>, r.template = <<a>>
      PROVE  Matches(r)
  BY <1>1 DEF Matches
<1>2. ASSUME NEW r \in SchedulerAuthorizationActions, NEW a, NEW b,
             r.method = request.method, request.path = <<a, b>>, r.template \in {<<a, b>>, <<a, Id>>}
      PROVE  Matches(r)
  BY <1>2 DEF Matches
<1>3. ASSUME NEW r \in SchedulerAuthorizationActions, NEW a, NEW b, NEW d,
             r.method = request.method, request.path = <<a, b, d>>, r.template = <<a, Id, d>>
      PROVE  Matches(r)
  BY <1>3 DEF Matches
<1>4. CASE \E resource \in {"definitions", "state", "authoring-contract"} :
               c = Call(Object(resource, NoName, "read"), "GET", <<resource>>, {})
  <2>1. PICK resource \in {"definitions", "state", "authoring-contract"} :
            c = Call(Object(resource, NoName, "read"), "GET", <<resource>>, {})
    BY <1>4
  <2>2. request.method = "GET" /\ request.path = <<resource>>
    BY <2>1 DEF Call
  <2>3. \E r \in SchedulerAuthorizationActions : r.method = "GET" /\ r.template = <<resource>>
    <3>1. CASE resource = "definitions"
      BY <3>1 DEF SchedulerAuthorizationActions, Reads, Route
    <3>2. CASE resource = "state"
      BY <3>2 DEF SchedulerAuthorizationActions, Reads, Route
    <3>3. CASE resource = "authoring-contract"
      BY <3>3 DEF SchedulerAuthorizationActions, Reads, Route
    <3> QED BY <3>1, <3>2, <3>3
  <2> QED BY <1>1, <2>2, <2>3
<1>5. CASE c = Call(Object("definitions", NoName, "validate"), "POST", <<"definitions", "validate">>, {})
  <2>1. request.method = "POST" /\ request.path = <<"definitions", "validate">>
    BY <1>5 DEF Call
  <2>2. \E r \in SchedulerAuthorizationActions :
            r.method = "POST" /\ r.template = <<"definitions", "validate">>
    BY DEF SchedulerAuthorizationActions, Reads, Route
  <2> QED BY <1>2, <2>1, <2>2
<1>6. CASE \E name \in Names :
               c = Call(Object("definitions", name, "read"), "GET", <<"definitions", name>>, {})
  <2>1. PICK name \in Names : request.method = "GET" /\ request.path = <<"definitions", name>>
    BY <1>6 DEF Call
  <2>2. \E r \in SchedulerAuthorizationActions : r.method = "GET" /\ r.template = <<"definitions", Id>>
    BY DEF SchedulerAuthorizationActions, Reads, Route
  <2> QED BY <1>2, <2>1, <2>2
<1>7. CASE \E name \in Names : c \in ObjectCalls(name)
  <2>1. PICK name \in Names : c \in ObjectCalls(name)
    BY <1>7
  <2>2. PICK kind, verb :
            /\ \/ kind = "definitions" /\ verb = "simulate"
               \/ kind = "definitions" /\ verb = "run"
               \/ kind = "runs" /\ verb = "retry"
               \/ kind = "runs" /\ verb = "cancel"
               \/ kind = "dead-letters" /\ verb = "resolve"
            /\ c.method = "POST" /\ c.path = <<kind, name, verb>>
    BY <2>1, ShapesOfObjectCalls DEF Shape
  <2>3. /\ Reads("definitions.simulate", "POST", <<"definitions", Id, "simulate">>)
              \in SchedulerAuthorizationActions
        /\ Writes("definitions.run", <<"definitions", Id, "run">>, {"reason"})
              \in SchedulerAuthorizationActions
        /\ Writes("runs.retry", <<"runs", Id, "retry">>, {"reason"})
              \in SchedulerAuthorizationActions
        /\ Writes("runs.cancel", <<"runs", Id, "cancel">>, {"reason", "confirmation"})
              \in SchedulerAuthorizationActions
        /\ Writes("dead_letters.resolve", <<"dead-letters", Id, "resolve">>, {"reason", "confirmation"})
              \in SchedulerAuthorizationActions
    BY Zenon DEF SchedulerAuthorizationActions
  <2>4. \E r \in SchedulerAuthorizationActions : r.method = "POST" /\ r.template = <<kind, Id, verb>>
    BY <2>2, <2>3 DEF Reads, Writes, Route
  <2> QED BY <1>3, <2>2, <2>4
<1> QED BY <1>4, <1>5, <1>6, <1>7, ClientCalls, Zenon

(* No route is for the versions of a definition. *)
LEMMA VersionsHasNoRoute ==
    ASSUME NEW c \in CallsOfTheClient, c.object.verb = "versions",
           NEW r \in SchedulerAuthorizationActions,
           request.method = c.method, request.path = c.path
    PROVE  ~Matches(r)
<1>1. PICK name \in Names : c \in ObjectCalls(name)
  <2>1. CASE \E resource \in {"definitions", "state", "authoring-contract"} :
                 c = Call(Object(resource, NoName, "read"), "GET", <<resource>>, {})
    BY <2>1 DEF Call, Object
  <2>2. CASE c = Call(Object("definitions", NoName, "validate"), "POST",
                      <<"definitions", "validate">>, {})
    BY <2>2 DEF Call, Object
  <2>3. CASE \E name \in Names :
                 c = Call(Object("definitions", name, "read"), "GET", <<"definitions", name>>, {})
    BY <2>3 DEF Call, Object
  <2> QED BY <2>1, <2>2, <2>3, ClientCalls, Zenon
<1>2. c.method = "GET" /\ Len(c.path) = 3
  <2>1. /\ ~Shape(c, "POST", "definitions", name, "simulate", {})
        /\ ~Shape(c, "POST", "definitions", name, "run", Evidence(FALSE))
        /\ ~Shape(c, "POST", "runs", name, "retry", Evidence(FALSE))
        /\ ~Shape(c, "POST", "runs", name, "cancel", Evidence(TRUE))
        /\ ~Shape(c, "POST", "dead-letters", name, "resolve", Evidence(TRUE))
    BY DEF Shape
  <2>2. Shape(c, "GET", "definitions", name, "versions", {})
    BY <1>1, <2>1, ShapesOfObjectCalls, Zenon
  <2>3. c.method = "GET" /\ c.path = <<"definitions", name, "versions">>
    BY <2>2 DEF Shape
  <2> QED BY <2>3
<1>3. r.method = "GET" => Len(r.template) # 3
  BY DEF SchedulerAuthorizationActions, Reads, Writes, Route
<1> QED BY <1>2, <1>3 DEF Matches

LEMMA ClientHasEvidence ==
    ASSUME NEW c \in CallsOfTheClient, NEW r \in SchedulerAuthorizationActions, Matches(r),
           request.method = c.method, request.path = c.path
    PROVE  Prerequisites(r) \subseteq c.headers
<1>1. CASE r.idempotency = "not_applicable"
  BY <1>1, RoutesThatRead
<1>2. CASE r \in WritingRoutes
  <2>1. PICK kind, verb : /\ r.template = <<kind, Id, verb>>
                          /\ kind # Id /\ verb # Id /\ verb \in CommandVerbs \cup {"run"}
    BY <1>2, RoutesAndResources DEF CommandVerbs, Id
  <2>2. Len(c.path) = 3 /\ c.method = "POST" /\ c.path[3] = verb
    <3>1. r.method = "POST"
      BY <1>2 DEF WritingRoutes, Writes, Route
    <3>2. Len(r.template) = 3 /\ Len(request.path) = 3
      BY <2>1 DEF Matches
    <3>3. PICK name \in Names : c.path = <<c.object.kind, name, c.object.verb>>
      BY <3>2, LongCalls
    <3> QED BY <2>1, <3>1, <3>2, <3>3 DEF Matches
  <2>3. PICK name \in Names : c \in ObjectCalls(name)
    <3>1. CASE \E resource \in {"definitions", "state", "authoring-contract"} :
                   c = Call(Object(resource, NoName, "read"), "GET", <<resource>>, {})
      BY <2>2, <3>1 DEF Call
    <3>2. CASE c = Call(Object("definitions", NoName, "validate"), "POST",
                        <<"definitions", "validate">>, {})
      BY <2>2, <3>2 DEF Call
    <3>3. CASE \E name \in Names :
                   c = Call(Object("definitions", name, "read"), "GET", <<"definitions", name>>, {})
      BY <2>2, <3>3 DEF Call
    <3> QED BY <3>1, <3>2, <3>3, ClientCalls, Zenon
  <2>4. \/ c.headers = Evidence(TRUE)
        \/ c.headers = Evidence(FALSE) /\ c.path[3] \in {"run", "retry"}
        \/ c.path[3] \in {"versions", "simulate"}
    <3>1. \A method, k, v, headers :
              Shape(c, method, k, name, v, headers) => c.path[3] = v /\ c.headers = headers
      BY DEF Shape
    <3>2. CASE c.path[3] \in {"versions", "simulate"}
      BY <3>2
    <3>3. CASE c.path[3] \notin {"versions", "simulate"}
      <4>1. \/ Shape(c, "POST", "definitions", name, "run", Evidence(FALSE))
            \/ Shape(c, "POST", "runs", name, "retry", Evidence(FALSE))
            \/ Shape(c, "POST", "runs", name, "cancel", Evidence(TRUE))
            \/ Shape(c, "POST", "dead-letters", name, "resolve", Evidence(TRUE))
        BY <2>3, <3>1, <3>3, ShapesOfObjectCalls, Zenon
      <4> QED BY <3>1, <4>1, Zenon
    <3> QED BY <3>2, <3>3
  <2>5. r.template[3] = verb /\ verb \notin {"versions", "simulate"}
    BY <2>1 DEF CommandVerbs
  <2> QED BY <1>2, <2>2, <2>4, <2>5, EvidenceSuffices
<1> QED BY <1>1, <1>2, RoutesThatWrite

-----------------------------------------------------------------------------
(* The invariant *)

LEMMA NamesOfCalls ==
    ASSUME NEW c \in CallsOfTheClient \cup CallsOfOthers
    PROVE  c.object.name \in Names \cup {NoName}
<1>1. \A kind, name, verb, method, path, headers :
          Call(Object(kind, name, verb), method, path, headers).object.name = name
  BY DEF Call, Object
<1>2. CASE c \in CallsOfTheClient
  <2>1. CASE \E resource \in {"definitions", "state", "authoring-contract"} :
                 c = Call(Object(resource, NoName, "read"), "GET", <<resource>>, {})
    BY <1>1, <2>1
  <2>2. CASE c = Call(Object("definitions", NoName, "validate"), "POST",
                      <<"definitions", "validate">>, {})
    BY <1>1, <2>2
  <2>3. CASE \E name \in Names :
                 c = Call(Object("definitions", name, "read"), "GET", <<"definitions", name>>, {})
    BY <1>1, <2>3
  <2>4. CASE \E name \in Names : c \in ObjectCalls(name)
    <3>1. PICK name \in Names : c \in ObjectCalls(name)
      BY <2>4
    <3>2. c.object = Object(c.object.kind, name, c.object.verb)
      BY <3>1, ObjectCallsNameTheirObject
    <3> QED BY <3>2 DEF Object
  <2> QED BY <1>2, <2>1, <2>2, <2>3, <2>4, ClientCalls, Zenon
<1>3. CASE c \in CallsOfOthers
  <2>1. PICK r \in SchedulerAuthorizationActions, name \in Names :
            c.object = Object(r.template[1], name, r.template[3])
    BY <1>3 DEF CallsOfOthers, Call
  <2> QED BY <2>1 DEF Object
<1> QED BY <1>2, <1>3

(* While nothing is answered nothing was done, and there is nothing to say *)
(* of it.                                                                  *)
LEMMA NothingToAnswerFor ==
    ASSUME answer = "none", effects = {}
    PROVE  /\ Cardinality(effects) <= 1
           /\ ActsOnTheNamed /\ NothingWithoutEvidence
           /\ ContractServesTheClient /\ ErrorsAnswerTheirCalls
BY FS_EmptySet DEF ActsOnTheNamed, NothingWithoutEvidence, ContractServesTheClient,
                   ErrorsAnswerTheirCalls

LEMMA InitEstablishes ==
    ASSUME Init
    PROVE  CommandsInvariant
<1>1. at = "caller" /\ answer = "none" /\ effects = {}
  BY DEF Init
<1>2. asked.object.name = NoName
  BY DEF Init, Asked, Object
<1>3. TypeOK
  BY <1>1, <1>2, NothingToAnswerFor DEF Init, TypeOK
<1> QED BY <1>1, <1>3, NothingToAnswerFor
        DEF CommandsInvariant, RequestsAreCalls, CommandsAreAuthorized, DoneIsAnswered

LEMMA AskPreserves ==
    ASSUME CommandsInvariant, ClientCall \/ OtherCall
    PROVE  CommandsInvariant'
<1>1. PICK c \in CallsOfTheClient \cup CallsOfOthers, caller \in {"client", "other"} :
          /\ Ask(caller, c)
          /\ \/ caller = "client" /\ c \in CallsOfTheClient
             \/ caller = "other" /\ c \in CallsOfOthers
  BY DEF ClientCall, OtherCall
<1>2. answer' = "none" /\ effects' = {} /\ at' = "host"
  BY <1>1 DEF Ask, CommandsInvariant, DoneIsAnswered
<1>3. asked' = Asked(caller, c.object, c.headers) /\ request' = Request(c.method, c.path, c.headers, NoName)
  BY <1>1 DEF Ask
<1>4. asked'.object.name \in Names \cup {NoName}
  BY <1>3, NamesOfCalls DEF Asked
<1>5. Cardinality(effects') <= 1
  BY <1>2, FS_EmptySet
<1>6. TypeOK'
  BY <1>1, <1>2, <1>4, <1>5 DEF Ask, fixed, CommandsInvariant, TypeOK
<1>7. RequestsAreCalls'
  BY <1>1, <1>3 DEF RequestsAreCalls
<1>8. CommandsAreAuthorized' /\ DoneIsAnswered'
  BY <1>2 DEF CommandsAreAuthorized, DoneIsAnswered
<1>9. /\ ActsOnTheNamed' /\ NothingWithoutEvidence'
      /\ ContractServesTheClient' /\ ErrorsAnswerTheirCalls'
  BY <1>2 DEF ActsOnTheNamed, NothingWithoutEvidence, ContractServesTheClient,
                   ErrorsAnswerTheirCalls
<1> QED BY <1>6, <1>7, <1>8, <1>9 DEF CommandsInvariant

LEMMA PlanCallPreserves ==
    ASSUME CommandsInvariant, PlanCall
    PROVE  CommandsInvariant'
<1>1. PICK name \in Names, resource \in PlanResources :
          /\ at = "caller" /\ answer = "none"
          /\ asked' = Asked("product", Object("plans", name, resource[Len(resource)]), {})
          /\ Send("GET", resource, name) /\ UNCHANGED <<fixed, effects>>
  BY DEF PlanCall
<1>2. answer' = "none" /\ effects' = {} /\ at' = "scheduler"
  BY <1>1 DEF Send, CommandsInvariant, DoneIsAnswered
<1>3. boundary' = boundary /\ permitted' = permitted /\ application' = application
  BY <1>1 DEF fixed
<1>4. request' = Sent("GET", resource, name)'
  BY <1>1, <1>3 DEF Send, Sent, CallPath
<1>5. asked'.object.name \in Names \cup {NoName}
  BY <1>1 DEF Asked, Object
<1>6. Cardinality(effects') <= 1
  BY <1>2, FS_EmptySet
<1>7. TypeOK'
  BY <1>2, <1>3, <1>5, <1>6 DEF CommandsInvariant, TypeOK
<1>8. CommandsAreAuthorized'
  BY <1>1, <1>4 DEF CommandsAreAuthorized
<1>9. RequestsAreCalls' /\ DoneIsAnswered'
  BY <1>2 DEF RequestsAreCalls, DoneIsAnswered
<1>10. /\ ActsOnTheNamed' /\ NothingWithoutEvidence'
       /\ ContractServesTheClient' /\ ErrorsAnswerTheirCalls'
  BY <1>2 DEF ActsOnTheNamed, NothingWithoutEvidence, ContractServesTheClient,
                   ErrorsAnswerTheirCalls
<1> QED BY <1>7, <1>8, <1>9, <1>10 DEF CommandsInvariant

(* What the host refuses or answers itself has done nothing, and a guarded *)
(* host refuses the client only its versions(), or for want of a           *)
(* permission.                                                             *)
LEMMA HostAnswers ==
    ASSUME CommandsInvariant, Host, NEW result \in {"no route", "forbidden", "evidence required", "ok"},
           Return(result),
           asked.caller = "client" /\ boundary = Guards =>
               /\ result = "no route" <=> asked.object.verb = "versions"
               /\ result # "evidence required"
    PROVE  CommandsInvariant'
<1>1. /\ at = "host" /\ answer = "none" /\ effects = {} /\ at' = "caller" /\ answer' = result
      /\ UNCHANGED <<boundary, permitted, application, asked, request, effects>>
  BY DEF Host, Return, fixed, CommandsInvariant, DoneIsAnswered
<1>2. TypeOK'
  BY <1>1 DEF CommandsInvariant, TypeOK
<1>3. RequestsAreCalls' /\ CommandsAreAuthorized' /\ DoneIsAnswered'
  BY <1>1 DEF RequestsAreCalls, CommandsAreAuthorized, DoneIsAnswered
<1>4. ActsOnTheNamed' /\ NothingWithoutEvidence' /\ ErrorsAnswerTheirCalls'
  BY <1>1 DEF ActsOnTheNamed, NothingWithoutEvidence, ErrorsAnswerTheirCalls
<1>5. ContractServesTheClient'
  BY <1>1 DEF ContractServesTheClient
<1> QED BY <1>2, <1>3, <1>4, <1>5 DEF CommandsInvariant

LEMMA HostPreserves ==
    ASSUME CommandsInvariant, Host
    PROVE  CommandsInvariant'
<1>1. PICK c \in CallsOfTheClient \cup CallsOfOthers, caller \in {"client", "other"} :
          /\ caller = "client" => c \in CallsOfTheClient
          /\ asked = Asked(caller, c.object, c.headers)
          /\ request = Request(c.method, c.path, c.headers, NoName)
  BY DEF Host, CommandsInvariant, RequestsAreCalls
<1>2. /\ asked.caller = caller /\ asked.object = c.object /\ asked.evidence = c.headers
      /\ request.method = c.method /\ request.path = c.path /\ request.headers = c.headers
  BY <1>1 DEF Asked, Request
<1>3. CASE (\A r \in Mounted : ~Matches(r)) /\ Return("no route")
  <2>1. asked.caller = "client" /\ boundary = Guards => asked.object.verb = "versions"
    BY <1>1, <1>2, <1>3, ClientHasRoutes DEF Mounted
  <2> QED BY <1>3, <2>1, HostAnswers
<1>8. ASSUME NEW r \in Mounted, Matches(r), asked.caller = "client"
      PROVE  asked.object.verb # "versions"
  BY <1>1, <1>2, <1>8, VersionsHasNoRoute DEF Mounted
<1>4. CASE \E r \in Mounted : Matches(r) /\ r.key \notin permitted /\ Return("forbidden")
  BY <1>4, <1>8, HostAnswers
<1>5. CASE \E r \in Mounted :
               /\ Matches(r) /\ ~(Prerequisites(r) \subseteq request.headers)
               /\ Return("evidence required")
  <2>1. PICK r \in SchedulerAuthorizationActions :
            Matches(r) /\ ~(Prerequisites(r) \subseteq request.headers)
    BY <1>5 DEF Mounted
  <2>2. asked.caller # "client"
    BY <1>1, <1>2, <2>1, ClientHasEvidence
  <2> QED BY <1>5, <2>2, HostAnswers
<1>6. CASE \E r \in Mounted : Matches(r) /\ Return("ok")
  BY <1>6, <1>8, HostAnswers
<1>7. ASSUME NEW r \in Mounted, Matches(r), r.key \in permitted, r.idempotency # "not_applicable",
             Prerequisites(r) \subseteq request.headers,
             Send("POST", Resource(r.key), request.path[2])
      PROVE  CommandsInvariant'
  <2>1. /\ at = "host" /\ answer = "none" /\ effects = {} /\ at' = "scheduler" /\ answer' = "none"
        /\ effects' = {}
        /\ UNCHANGED <<boundary, permitted, application, asked>>
    BY <1>7 DEF Host, Send, fixed, CommandsInvariant, DoneIsAnswered
  <2>2. r \in WritingRoutes /\ r \in Mounted' /\ r.idempotency = "caller_key_required"
    BY <1>7, <2>1, RoutesThatWrite DEF Mounted
  <2>3. PICK kind, verb : r.template = <<kind, Id, verb>> /\ kind # Id /\ verb # Id
    <3>1. CASE r.template = <<"definitions", Id, "run">>
      BY <3>1 DEF Id
    <3>2. CASE \E kind \in CommandKinds, verb \in CommandVerbs : r.template = <<kind, Id, verb>>
      BY <3>2 DEF Id, CommandKinds, CommandVerbs
    <3> QED BY <2>2, <3>1, <3>2, RoutesAndResources DEF CommandKinds, CommandVerbs
  <2>4. Len(c.path) = 3
    BY <1>2, <1>7, <2>3 DEF Matches
  <2>5. PICK name \in Names :
            /\ c.object = Object(c.object.kind, name, c.object.verb)
            /\ c.path = <<c.object.kind, name, c.object.verb>>
    BY <1>1, <2>4, LongCalls
  <2>6. kind = c.object.kind /\ verb = c.object.verb /\ request.path[2] = name
    <3>1. \A i \in DOMAIN c.path : r.template[i] \in {Id, c.path[i]}
      BY <1>2, <1>7 DEF Matches
    <3>2. 1 \in DOMAIN c.path /\ 3 \in DOMAIN c.path
      BY <2>5
    <3> QED BY <1>2, <2>3, <2>5, <3>1, <3>2
  <2>7. asked'.object = Object(r.template[1], name, r.template[3])
    BY <1>2, <2>1, <2>3, <2>5, <2>6
  <2>8. request' = Sent("POST", Resource(r.key), name)'
    BY <1>7, <2>1, <2>6 DEF Send, Sent, CallPath
  <2>9. CommandsAreAuthorized'
    BY <1>2, <1>7, <2>1, <2>2, <2>7, <2>8 DEF CommandsAreAuthorized
  <2>10. TypeOK'
    BY <2>1 DEF CommandsInvariant, TypeOK
  <2>11. RequestsAreCalls' /\ DoneIsAnswered'
    BY <2>1 DEF RequestsAreCalls, DoneIsAnswered
  <2>12. /\ ActsOnTheNamed' /\ NothingWithoutEvidence'
         /\ ContractServesTheClient' /\ ErrorsAnswerTheirCalls'
    BY <2>1 DEF ActsOnTheNamed, NothingWithoutEvidence, ContractServesTheClient,
                ErrorsAnswerTheirCalls
  <2> QED BY <2>9, <2>10, <2>11, <2>12 DEF CommandsInvariant
<1> QED BY <1>3, <1>4, <1>5, <1>6, <1>7 DEF Host

LEMMA SchedulerPreserves ==
    ASSUME CommandsAssumption, PrefixAssumption, CommandsInvariant, Scheduler
    PROVE  CommandsInvariant'
<1>1. /\ at = "scheduler" /\ effects = {} /\ at' = "caller"
      /\ UNCHANGED <<boundary, permitted, application, asked>>
  BY DEF Scheduler, Return, fixed, CommandsInvariant, DoneIsAnswered
<1>2. \/ (\E status : answer' = ErrorOf(status)) /\ effects' = {}
      \/ answer' \in {"ok", "transport error"} /\ effects' = {Addressed}
  BY <1>1 DEF Scheduler, Return
<1>3. CommandsAreAuthorized /\ TypeOK
  BY DEF CommandsInvariant
<1>4. answer' \in PlanErrors \cup {"deletion read unsupported", "ok", "transport error"}
                         \cup BareErrors
  BY <1>1, <1>2, <1>3, ErrorsByForm
<1>11. TextsOfThePath' = TextsOfThePath /\ TakenForAPlan' = TakenForAPlan
       /\ TakenForAReceipt' = TakenForAReceipt
  BY <1>1 DEF TextsOfThePath, TakenForAPlan, TakenForAReceipt
<1>12. ErrorsAnswerTheirCalls'
  <2>1. /\ answer' \in PlanErrors => TakenForAPlan
        /\ answer' \in {"status 400", "status 404", "status 409"} => ~TakenForAPlan
        /\ answer' = "deletion read unsupported" => TakenForAPlan /\ TakenForAReceipt
        /\ answer' = "status 501" => ~(TakenForAPlan /\ TakenForAReceipt)
    <3>1. CASE \E status : answer' = ErrorOf(status)
      BY <1>1, <1>3, <3>1, ErrorsByForm
    <3>2. CASE answer' \in {"ok", "transport error"}
      BY <3>2 DEF PlanErrors
    <3> QED BY <1>2, <3>1, <3>2
  <2> QED BY <1>11, <2>1 DEF ErrorsAnswerTheirCalls, PlanErrors
<1>13. ContractServesTheClient'
  <2>1. answer' \notin {"no route", "evidence required"}
    BY <1>4 DEF PlanErrors, BareErrors
  <2>2. asked.object.verb # "versions"
    <3>1. PICK name \in Names :
              \/ ReceiptForm(name) \/ PlanForm(name) \/ TriggerForm(name)
              \/ \E kind \in CommandKinds, verb \in CommandVerbs : CommandForm(name, kind, verb)
      BY <1>1, <1>3, FormsOfRequests
    <3>2. CASE ReceiptForm(name)
      <4>1. asked.object = Object("plans", name, "deletion-receipt")
        BY <3>2 DEF ReceiptForm
      <4> QED BY <4>1 DEF Object
    <3>4. CASE PlanForm(name)
      <4>1. asked.object = Object("plans", name, Id)
        BY <3>4 DEF PlanForm
      <4>2. asked.object.verb = Id
        BY <4>1 DEF Object
      <4> QED BY <4>2 DEF Id
    <3>5. CASE TriggerForm(name)
      <4>1. asked.object = Object("definitions", name, "run")
        BY <3>5 DEF TriggerForm
      <4> QED BY <4>1 DEF Object
    <3>3. CASE \E kind \in CommandKinds, verb \in CommandVerbs : CommandForm(name, kind, verb)
      BY <3>3 DEF CommandForm, Object, CommandVerbs
    <3> QED BY <3>1, <3>2, <3>3, <3>4, <3>5
  <2> QED BY <1>1, <2>1, <2>2 DEF ContractServesTheClient
<1>5. Cardinality(effects') <= 1
  <2>1. Cardinality({}) = 0
    BY FS_EmptySet
  <2>2. Cardinality({Addressed}) = 1
    BY FS_Singleton
  <2>3. Cardinality(effects') = 0 \/ Cardinality(effects') = 1
    BY <1>2, <2>1, <2>2, Zenon
  <2> QED BY <2>3
<1>6. TypeOK'
  BY <1>1, <1>3, <1>5 DEF TypeOK
<1>7. RequestsAreCalls' /\ CommandsAreAuthorized' /\ DoneIsAnswered'
  BY <1>1, <1>4 DEF RequestsAreCalls, CommandsAreAuthorized, DoneIsAnswered, PlanErrors, BareErrors
<1>8. ActsOnTheNamed'
  <2>1. Addressed = [asked.object EXCEPT !.name =
                         IF asked.object.verb = "run" THEN @ ELSE Escaped(@)]
    BY <1>1, <1>3, DoneAsAsked
  <2> QED BY <1>1, <1>2, <2>1 DEF ActsOnTheNamed
<1>9. NothingWithoutEvidence'
  BY <1>1, <1>2, <1>3, DoneWithEvidence DEF NothingWithoutEvidence
<1> QED BY <1>6, <1>7, <1>8, <1>9, <1>12, <1>13 DEF CommandsInvariant

LEMMA StutterPreserves ==
    ASSUME CommandsInvariant, UNCHANGED vars
    PROVE  CommandsInvariant'
<1>1. UNCHANGED <<boundary, permitted, application, asked, request, at, effects, answer>>
  BY DEF vars
<1>2. TypeOK' /\ RequestsAreCalls' /\ DoneIsAnswered'
  BY <1>1 DEF CommandsInvariant, TypeOK, RequestsAreCalls, DoneIsAnswered
<1>3. CommandsAreAuthorized'
  BY <1>1 DEF CommandsInvariant, CommandsAreAuthorized, Mounted, Sent, CallPath
<1>4. /\ ActsOnTheNamed' /\ NothingWithoutEvidence'
      /\ ContractServesTheClient' /\ ErrorsAnswerTheirCalls'
  BY <1>1 DEF CommandsInvariant, ActsOnTheNamed, NothingWithoutEvidence, ContractServesTheClient,
              ErrorsAnswerTheirCalls, TakenForAPlan, TakenForAReceipt, TextsOfThePath
<1> QED BY <1>2, <1>3, <1>4 DEF CommandsInvariant

(* The inductive invariant holds of every command and every plan read.     *)
THEOREM CommandsSafe == CommandsSpec => []CommandsInvariant
<1>1. Init => CommandsInvariant
  BY InitEstablishes
<1>2. CommandsInvariant /\ [Next]_vars => CommandsInvariant'
  BY CommandsAssumption, PrefixAssumption, AskPreserves, PlanCallPreserves, HostPreserves,
     SchedulerPreserves, StutterPreserves DEF Next
<1> QED BY <1>1, <1>2, PTL DEF CommandsSpec

(* Whatever the Scheduler does is what the caller meant, to the object of  *)
(* the name in the body, or of the name in the path escaped once: to the   *)
(* object that was named, exactly where escaping leaves the name alone.    *)
THEOREM CommandsReachTheirObject == CommandsSpec => []ActsOnTheNamed
<1>1. CommandsInvariant => ActsOnTheNamed
  BY DEF CommandsInvariant
<1> QED BY <1>1, CommandsSafe, PTL

(* Nothing is done for an operator without guards, permission and evidence, *)
(* whatever evidence another caller of the listener makes up.              *)
THEOREM CommandsNeedEvidence == CommandsSpec => []NothingWithoutEvidence
<1>1. CommandsInvariant => NothingWithoutEvidence
  BY DEF CommandsInvariant
<1> QED BY <1>1, CommandsSafe, PTL

(* A guarded host has a route for every call of the client but versions(), *)
(* has none for that, and requires no evidence the client does not send.   *)
THEOREM ClientIsServedButForVersions == CommandsSpec => []ContractServesTheClient
<1>1. CommandsInvariant => ContractServesTheClient
  BY DEF CommandsInvariant
<1> QED BY <1>1, CommandsSafe, PTL

(* A caller is given plan errors, or the error of a deletion read, exactly *)
(* for the calls that are about those or whose Runtime or object begins    *)
(* like their resource, and the plain status for every other call.         *)
THEOREM ErrorsNameTheirCalls == CommandsSpec => []ErrorsAnswerTheirCalls
<1>1. CommandsInvariant => ErrorsAnswerTheirCalls
  BY DEF CommandsInvariant
<1> QED BY <1>1, CommandsSafe, PTL
=============================================================================
