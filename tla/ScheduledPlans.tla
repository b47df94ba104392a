----------------------------- MODULE ScheduledPlans -----------------------------
(***************************************************************************)
(* Scheduled plans over the SaaS transport: products create, read, list,   *)
(* change and delete plans through one credential, over a network that     *)
(* loses and delays, and repeat what they heard no answer to.              *)
(*                                                                         *)
(* The transport is the SDK's.  The Scheduler behind it is modelled from   *)
(* the contracts of ScheduledPlanRepository, the plan commands and the     *)
(* deletion reader: a change reads the plan, and replaces it if its        *)
(* revision is still the expected one; a deleted plan stays as a tombstone *)
(* that only the deletion reader shows.                                    *)
(*                                                                         *)
(* The content of a plan stands for everything a command may set.  Pages   *)
(* have one plan each, in the order of the plans' identities.              *)
(***************************************************************************)
EXTENDS Integers, Sequences, FiniteSets

CONSTANTS Products,      \* callers of the transport
          Settings,      \* the possible parties, with the plans from before:
                         \* a product has an application it opened the transport
                         \* for, an owner it speaks for and the operations it uses
          Ids,           \* bound: identities of plans, ordered
          ClientIDs, Contents,
          MaxSends       \* bound: requests of each product

NoPlan == [status |-> "none"]
NoCommand == [op |-> "none"]
Unbound == "unbound"
Statuses == {"enabled", "paused", "disabled", "deleted"}

(* An application has a name; the plans from before are at their first     *)
(* revision, one per owner and ClientID.                                   *)
ASSUME PlansAssumption ==
    /\ Ids \subseteq Nat \ {0} /\ MaxSends \in [Products -> Nat]
    /\ \A setting \in Settings :
          /\ \A p \in Products : setting.party[p].application # Unbound
          /\ DOMAIN setting.plans = Ids
          /\ \A i \in Ids :
                LET plan == setting.plans[i] IN
                \/ plan = NoPlan
                \/ /\ plan.status \in Statuses /\ plan.revision = 1
                   /\ \A j \in Ids : LET other == setting.plans[j] IN
                         other # NoPlan /\ other.owner = plan.owner
                             /\ other.clientID = plan.clientID => i = j

VARIABLES
    party,       \* chosen once
    bound,       \* the application the transport is bound to
    product,     \* per product: state, command, result and what it knows
    listing,     \* per product: the pages read
    since,       \* per product: the plans there ever since its listing began
    requests, responses,
    handlers,    \* changes that have read their plan
    plans,       \* the durable plans
    written      \* per plan, the changes that made its revisions, in order

vars == <<party, bound, product, listing, since, requests, responses, handlers, plans,
          written>>
pages == <<listing, since>>
store == <<handlers, plans, written>>

OwnerOf(p) == party[p].owner
ApplicationOf(p) == party[p].application

Visible(owner) ==
    {i \in Ids : plans[i] # NoPlan /\ plans[i].owner = owner /\ plans[i].status # "deleted"}

Tombstone(id, owner) == plans[id].status = "deleted" /\ plans[id].owner = owner

NoListing == [cursor |-> 0, found |-> {}, complete |-> FALSE]

Init ==
    /\ \E setting \in Settings : party = setting.party /\ plans = setting.plans
    /\ bound = Unbound /\ written = [i \in Ids |-> <<>>]
    /\ product = [p \in Products |->
          [state |-> "idle", command |-> NoCommand, sends |-> 0, result |-> "none",
           receipt |-> NoPlan, known |-> NoPlan]]
    /\ listing = [p \in Products |-> NoListing] /\ since = [p \in Products |-> {}]
    /\ requests = {} /\ responses = {} /\ handlers = {}

-----------------------------------------------------------------------------
(* The product and its transport *)

(* ChangeCommands are made to the plan, and over the revision, the product knows. *)
Commands(p) ==
    LET known == product[p].known
        ids == {i \in Ids : plans[i] # NoPlan}
        all == [op : {"create"}, clientID : ClientIDs, content : Contents]
               \cup [op : {"get", "deletion"}, id : ids]
               \cup [op : {"list"}, cursor : {listing[p].cursor}]
               \cup IF known = NoPlan THEN {}
                    ELSE [op : {"update"}, id : {known.id}, revision : {known.revision},
                          content : Contents]
                         \cup [op : {"pause", "resume", "delete"}, id : {known.id},
                               revision : {known.revision}]
    IN  {command \in all : command.op \in party[p].ops}

(* A faulty variant: the last caller has the transport. *)
BindLast(application) == bound' = application

(* BindApplication binds once; another application is refused from then on. *)
BindApplication(application) ==
    /\ bound \in {Unbound, application} /\ bound' = application

(* A call begins, a new one or again the one whose outcome is not known,   *)
(* and binds the transport.                                                *)
Call(p) ==
    /\ product[p].state = "idle" /\ product[p].sends < MaxSends[p]
    /\ \E command \in IF product[p].result = "unknown"
                      THEN {product[p].command} ELSE Commands(p) :
          /\ command.op = "list" => ~listing[p].complete
          /\ \/ /\ BindApplication(ApplicationOf(p))
                /\ product' = [product EXCEPT ![p].state = "sending", ![p].command = command,
                                              ![p].result = "none", ![p].receipt = NoPlan]
             \/ /\ bound \notin {Unbound, ApplicationOf(p)} /\ UNCHANGED bound
                /\ product' = [product EXCEPT ![p].result = "mismatch"]
    /\ UNCHANGED <<party, pages, requests, responses, store>>

(* The path carries the application bound by now, not the caller's. *)
Send(p) ==
    /\ product[p].state = "sending"
    /\ product' = [product EXCEPT ![p].state = "awaiting", ![p].sends = @ + 1]
    /\ requests' = requests \cup
          {[from |-> p, send |-> product[p].sends + 1, application |-> bound,
            command |-> product[p].command]}
    /\ since' = IF product[p].command = [op |-> "list", cursor |-> 0]
                THEN [since EXCEPT ![p] = Visible(OwnerOf(p))] ELSE since
    /\ UNCHANGED <<party, bound, listing, responses, store>>

(* The call fails without an answer; a request that could change anything  *)
(* may yet be handled.                                                     *)
TransportError(p) ==
    /\ product[p].state = "awaiting"
    /\ product' = [product EXCEPT ![p].state = "idle", ![p].result = "unknown"]
    /\ responses' = {r \in responses : r.to # p}
    /\ requests' = {m \in requests : m.from = p => m.command.op \notin {"get", "list", "deletion"}}
    /\ UNCHANGED <<party, bound, pages, store>>

(* The status of an error decides what the caller learns. *)
ErrorOf(op, status) ==
    CASE status = 400 -> "invalid"
      [] status = 404 -> "not_found"
      [] status = 409 -> "conflict"
      [] status = 501 /\ op = "deletion" -> "unsupported"
      [] OTHER -> "unknown"

Receive(p) ==
    \E r \in responses :
        /\ r.to = p /\ responses' = responses \ {r}
        /\ LET command == product[p].command
               ok == r.status = 200
           IN  /\ product' = [product EXCEPT
                     ![p].state = "idle",
                     ![p].result = IF ok THEN "done" ELSE ErrorOf(command.op, r.status),
                     ![p].receipt = r.body,
                     ![p].known = IF ok /\ command.op # "list" THEN r.body ELSE @]
               /\ listing' =
                     IF ~ok \/ command.op # "list" THEN listing
                     ELSE [listing EXCEPT ![p] =
                         [cursor |-> r.body.id, found |-> @.found \cup ({r.body.id} \ {0}),
                          complete |-> r.body.id = 0]]
        /\ UNCHANGED <<party, bound, since, requests, store>>

-----------------------------------------------------------------------------
(* The Scheduler *)

OfCall(m) == product[m.from].state = "awaiting" /\ product[m.from].sends = m.send

(* Nobody hears the answer to a request that was given up. *)
Answer(m, status, body) ==
    responses' = IF OfCall(m)
                 THEN responses \cup {[to |-> m.from, status |-> status, body |-> body]}
                 ELSE responses

(* What a caller is shown of a plan *)
Shown(id, plan) == [id |-> id, content |-> plan.content, status |-> plan.status,
                    revision |-> plan.revision]

(* A faulty variant: the content is part of the key. *)
RecordByContent(owner, command) ==
    {i \in Ids : plans[i] # NoPlan /\ plans[i].owner = owner
                 /\ plans[i].clientID = command.clientID
                 /\ plans[i].request = command.content}

(* The record a ClientID, in its owner's scope, is bound to *)
Record(owner, command) ==
    {i \in Ids : plans[i] # NoPlan /\ plans[i].owner = owner
                 /\ plans[i].clientID = command.clientID}

(* CreateScheduledPlan: RequestSHA256 tells a retry from a conflict. *)
HandleCreate(m) ==
    LET owner == OwnerOf(m.from)
        record == Record(owner, m.command)
    IN  /\ m.command.op = "create" /\ requests' = requests \ {m}
        /\ \/ \E i \in {j \in Ids : plans[j] = NoPlan} :
                 LET plan == [owner |-> owner, clientID |-> m.command.clientID,
                              request |-> m.command.content, content |-> m.command.content,
                              status |-> "enabled", revision |-> 1]
                 IN  /\ record = {}
                     /\ plans' = [plans EXCEPT ![i] = plan]
                     /\ Answer(m, 200, Shown(i, plan))
           \/ \E i \in record :
                 /\ IF plans[i].request = m.command.content
                    THEN Answer(m, 200, Shown(i, plans[i])) ELSE Answer(m, 409, NoPlan)
                 /\ UNCHANGED plans
        /\ UNCHANGED <<party, bound, product, pages, handlers, written>>

(* GetScheduledPlan hides tombstones; ReadScheduledPlanDeletion shows them *)
(* and nothing else.                                                       *)
HandleRead(m) ==
    LET owner == OwnerOf(m.from)
        tombstones == {i \in Ids : Tombstone(i, owner)}
        shown == IF m.command.op = "get" THEN Visible(owner) ELSE tombstones
    IN  /\ m.command.op \in {"get", "deletion"} /\ requests' = requests \ {m}
        /\ IF m.command.id \in shown
           THEN Answer(m, 200, Shown(m.command.id, plans[m.command.id]))
           ELSE Answer(m, 404, NoPlan)
        /\ UNCHANGED <<party, bound, product, pages, store>>

(* A faulty variant: the page is cut before tombstones and other owners'   *)
(* plans are left out.                                                     *)
PageCutFirst(owner, cursor) ==
    LET after == {i \in Ids : i > cursor /\ plans[i] # NoPlan}
    IN  {i \in after : \A j \in after : i <= j} \cap Visible(owner)

(* The page after a cursor, the last identity returned *)
Page(owner, cursor) ==
    LET after == {i \in Visible(owner) : i > cursor}
    IN  {i \in after : \A j \in after : i <= j}

HandleList(m) ==
    LET page == Page(OwnerOf(m.from), m.command.cursor)
    IN  /\ m.command.op = "list" /\ requests' = requests \ {m}
        /\ \/ \E i \in page : Answer(m, 200, Shown(i, plans[i]))
           \/ page = {} /\ Answer(m, 200, [id |-> 0])
        /\ UNCHANGED <<party, bound, product, pages, store>>

IsChange(command) == command.op \in {"update", "pause", "resume", "delete"}

(* A faulty variant: any change repeated on a tombstone is a replay. *)
AnyReplay(owner, command) ==
    Tombstone(command.id, owner) /\ plans[command.id].revision = command.revision + 1

(* A deletion repeated on its own tombstone is a replay. *)
DeletionReplay(owner, command) ==
    /\ command.op = "delete" /\ Tombstone(command.id, owner)
    /\ plans[command.id].revision = command.revision + 1

(* A change reads the plan.  Another owner's, or a tombstone, is not found. *)
ReadForChange(m) ==
    LET id == m.command.id
        owner == OwnerOf(m.from)
    IN  /\ IsChange(m.command) /\ requests' = requests \ {m}
        /\ \/ /\ id \in Visible(owner)
              /\ handlers' = handlers \cup {[request |-> m, plan |-> plans[id]]}
              /\ UNCHANGED responses
           \/ /\ id \notin Visible(owner) /\ UNCHANGED handlers
              /\ IF DeletionReplay(owner, m.command) THEN Answer(m, 200, Shown(id, plans[id]))
                 ELSE Answer(m, 404, NoPlan)
        /\ UNCHANGED <<party, bound, product, pages, plans, written>>

(* An update replaces what a command may set and keeps the status; the     *)
(* others change the status alone.                                         *)
StatusAfter(op, status) ==
    CASE op = "pause" -> "paused" [] op = "resume" -> "enabled"
      [] op = "delete" -> "deleted" [] OTHER -> status

Revised(plan, command) ==
    [owner |-> plan.owner, clientID |-> plan.clientID, request |-> plan.request,
     content |-> IF command.op = "update" THEN command.content ELSE plan.content,
     status |-> StatusAfter(command.op, plan.status),
     revision |-> plan.revision + 1]

(* A faulty variant: the revision the handler read is the one compared. *)
RevisionRead(h) == h.plan.revision = h.request.command.revision

(* The compare of ReplaceScheduledPlan's compare-and-swap *)
RevisionStill(h) == plans[h.request.command.id].revision = h.request.command.revision

ReplacePlan(h) ==
    LET command == h.request.command
        plan == Revised(h.plan, command)
    IN  /\ handlers' = handlers \ {h}
        /\ \/ /\ RevisionStill(h)
              /\ plans' = [plans EXCEPT ![command.id] = plan]
              /\ written' = [written EXCEPT ![command.id] =
                    Append(@, [by |-> h.request.from, command |-> command])]
              /\ since' = IF plan.status = "deleted"
                          THEN [p \in Products |-> since[p] \ {command.id}] ELSE since
              /\ Answer(h.request, 200, Shown(command.id, plan))
           \/ /\ ~RevisionStill(h) /\ Answer(h.request, 409, NoPlan)
              /\ UNCHANGED <<plans, written, since>>
        /\ UNCHANGED <<party, bound, product, listing, requests>>

(* A Scheduler that cannot serve the request, or a proxy before it *)
Refuse(m) ==
    /\ requests' = requests \ {m}
    /\ \E status \in {400, 501} : Answer(m, status, NoPlan)
    /\ UNCHANGED <<party, bound, product, pages, store>>

Work(p) == Call(p) \/ Send(p) \/ TransportError(p) \/ Receive(p)

Next ==
    \/ \E p \in Products : Work(p)
    \/ \E m \in requests :
          HandleCreate(m) \/ HandleRead(m) \/ HandleList(m) \/ ReadForChange(m) \/ Refuse(m)
    \/ \E h \in handlers : ReplacePlan(h)

PlansSpec == Init /\ [][Next]_vars

-----------------------------------------------------------------------------

Applications == {setting.party[p].application : setting \in Settings, p \in Products}
ChangeCommands ==
    [op : {"update"}, id : Ids, revision : Nat \ {0}, content : Contents]
    \cup [op : {"pause", "resume", "delete"}, id : Ids, revision : Nat \ {0}]
AllCommands ==
    [op : {"create"}, clientID : ClientIDs, content : Contents]
    \cup [op : {"get", "deletion"}, id : Ids] \cup [op : {"list"}, cursor : {0} \cup Ids]
    \cup ChangeCommands
Requests == [from : Products, send : Nat, application : Applications, command : AllCommands]

TypeOK ==
    /\ party \in {setting.party : setting \in Settings}
    /\ bound \in {Unbound} \cup Applications
    /\ DOMAIN product = Products
    /\ \A p \in Products :
          /\ DOMAIN product[p] = {"state", "command", "sends", "result", "receipt", "known"}
          /\ product[p].state \in {"idle", "sending", "awaiting"}
          /\ product[p].command \in {NoCommand} \cup AllCommands
          /\ product[p].sends \in 0..MaxSends[p]
          /\ product[p].result \in {"none", "done", "unknown", "mismatch", "invalid",
                                    "not_found", "conflict", "unsupported"}
    /\ listing \in [Products -> [cursor : {0} \cup Ids, found : SUBSET Ids, complete : BOOLEAN]]
    /\ since \in [Products -> SUBSET Ids]
    /\ requests \subseteq Requests /\ \A r \in responses : r.to \in Products
    /\ \A h \in handlers : h.request \in Requests /\ h.request.command \in ChangeCommands
    /\ DOMAIN plans = Ids /\ written \in [Ids -> Seq([by : Products, command : ChangeCommands])]
    /\ \A i \in Ids :
          \/ plans[i] = NoPlan /\ written[i] = <<>>
          \/ plans[i].status \in Statuses /\ plans[i].revision = Len(written[i]) + 1

(* A product that is not idle has bound the transport; what it waits for   *)
(* is under way once, as a request, with a handler or as a response.       *)
UnderWay == requests \cup {h.request : h \in handlers}
SameCall(m, n) == m.from = n.from /\ m.send = n.send

OneCallAtATime ==
    /\ \A p \in Products :
          /\ product[p].state # "idle" => bound = ApplicationOf(p)
          /\ product[p].state # "idle" \/ product[p].result = "unknown"
                => product[p].command \in AllCommands
          /\ product[p].state = "sending" => product[p].sends < MaxSends[p]
    /\ \A m \in UnderWay :
          /\ m.send <= product[m.from].sends
          /\ OfCall(m) => m.command = product[m.from].command

AnsweredOnce ==
    /\ \A m, n \in requests : SameCall(m, n) => m = n
    /\ \A g, h \in handlers : SameCall(g.request, h.request) => g = h
    /\ \A m \in requests, h \in handlers : ~SameCall(m, h.request)
    /\ \A r \in responses :
          /\ product[r.to].state = "awaiting"
          /\ \A s \in responses : s.to = r.to => s = r
          /\ \A m \in UnderWay : m.from = r.to => ~OfCall(m)

(* What a product knows of a plan, and changes, is its owner's and was     *)
(* there.                                                                  *)
Knows(p, id, revision) ==
    plans[id] # NoPlan /\ plans[id].owner = OwnerOf(p) /\ revision \in 1..plans[id].revision

KnowsItsPlans(p) ==
    LET known == product[p].known
        command == product[p].command
    IN  /\ known # NoPlan => known.id \in Ids /\ Knows(p, known.id, known.revision)
        /\ command \in ChangeCommands => Knows(p, command.id, command.revision)

KnowledgeIsReal ==
    /\ \A p \in Products : KnowsItsPlans(p)
    /\ \A m \in UnderWay :
          m.command \in ChangeCommands => Knows(m.from, m.command.id, m.command.revision)

(* A handler has read an earlier state of its plan, if not the present one.*)
HandlersHaveRead ==
    \A h \in handlers :
        LET plan == plans[h.request.command.id] IN
        /\ h.plan.status \in Statuses \ {"deleted"}
        /\ h.plan.owner = plan.owner /\ h.plan.clientID = plan.clientID
        /\ h.plan.request = plan.request
        /\ h.plan.revision \in h.request.command.revision..plan.revision
        /\ h.plan.revision = plan.revision => h.plan = plan

HistoryTells ==
    \A i \in Ids :
        /\ \A n \in 1..Len(written[i]) :
              written[i][n].command.id = i /\ written[i][n].command.revision = n
        /\ plans[i].status = "deleted" /\ written[i] # <<>> =>
              written[i][Len(written[i])].command.op = "delete"

(* A receipt of a command was true when it was given, and stays true. *)
Truthful(p, command, receipt) ==
    LET plan == plans[receipt.id] IN
    /\ receipt.id \in Ids /\ Knows(p, receipt.id, receipt.revision)
    /\ command.op = "create" =>
          plan.clientID = command.clientID /\ plan.request = command.content
    /\ command \in ChangeCommands =>
          /\ receipt.id = command.id /\ receipt.revision = command.revision + 1
          /\ written[receipt.id][command.revision].command = command
    /\ command.op \in {"delete", "deletion"} =>
          Shown(receipt.id, plan) = receipt /\ receipt.status = "deleted"

AnswersAreTrue ==
    /\ \A r \in responses :
          r.status = 200 /\ product[r.to].command.op # "list"
              => Truthful(r.to, product[r.to].command, r.body)
    /\ \A p \in Products :
          product[p].result = "done" /\ product[p].command.op # "list"
              => Truthful(p, product[p].command, product[p].receipt)

(* A listing has found all it should up to its cursor, and the page under  *)
(* way leaves none out.                                                    *)
ListingsSkipNone ==
    \A p \in Products :
        LET command == product[p].command
            cursor == listing[p].cursor
        IN  /\ since[p] \subseteq Visible(OwnerOf(p))
            /\ \A i \in since[p] : i <= cursor => i \in listing[p].found
            /\ listing[p].complete => since[p] \subseteq listing[p].found
            /\ command.op = "list" =>
                  /\ product[p].state # "idle" \/ product[p].result = "unknown"
                        => command.cursor = cursor
                  /\ product[p].state # "idle" => ~listing[p].complete
                  /\ \A r \in responses : r.to = p /\ r.status = 200 =>
                        /\ r.body.id \in {0} \cup Ids
                        /\ \A i \in since[p] : i > cursor => r.body.id # 0 /\ r.body.id <= i

(* A request never leaves for another application than its caller's, when  *)
(* two bind the transport at once.                                         *)
RequestsStayInTheirApplication ==
    \A m \in requests : m.application = ApplicationOf(m.from)

OnePlanPerClientID ==
    \A i, j \in Ids : plans[i] # NoPlan /\ plans[j] # NoPlan
        /\ plans[i].owner = plans[j].owner /\ plans[i].clientID = plans[j].clientID => i = j

(* However often a creation is repeated, and whoever else uses its         *)
(* ClientID, there is one plan, and a receipt is for the content asked.    *)
CreationIsIdempotent ==
    /\ OnePlanPerClientID
    /\ \A p \in Products : LET command == product[p].command IN
            product[p].result = "done" /\ command.op = "create" =>
                LET plan == plans[product[p].receipt.id] IN
                plan.clientID = command.clientID /\ plan.request = command.content

(* Where among the changes the last of these operations is, if any *)
LastOf(ops, changes) ==
    {n \in 1..Len(changes) :
        /\ changes[n].command.op \in ops
        /\ \A k \in (n + 1)..Len(changes) : changes[k].command.op \notin ops}

(* The content of a plan is that of its last update, and its status that   *)
(* of its last pause, resumption or deletion: no change overwrites another *)
(* it has not seen.                                                        *)
NoChangeIsLost ==
    \A i \in Ids :
        LET changes == written[i]
        IN  /\ \A n \in LastOf({"update"}, changes) :
                  plans[i].content = changes[n].command.content
            /\ \A n \in LastOf({"pause", "resume", "delete"}, changes) :
                  plans[i].status = StatusAfter(changes[n].command.op, "none")

(* A receipt tells the truth, at once and for ever: its plan is the        *)
(* caller's owner's, the change it acknowledges made the revision it       *)
(* names, and a deletion it acknowledges lasts.                            *)
ReceiptsAreTrue ==
    \A p \in Products :
        LET receipt == product[p].receipt
            command == product[p].command
        IN  product[p].result = "done" /\ command.op # "list" =>
            /\ plans[receipt.id].owner = OwnerOf(p)
            /\ IsChange(command) =>
                  /\ receipt.revision = command.revision + 1
                  /\ written[receipt.id][command.revision].command = command
            /\ command.op \in {"delete", "deletion"} =>
                  Shown(receipt.id, plans[receipt.id]) = receipt /\ receipt.status = "deleted"

(* A listing read to its end has every plan of its owner that was there    *)
(* all the while, whatever was created and deleted between the pages.      *)
PagesAreComplete ==
    \A p \in Products : listing[p].complete => since[p] \subseteq listing[p].found

(* The inductive invariant of the proofs *)
PlansInvariant ==
    /\ TypeOK /\ OneCallAtATime /\ AnsweredOnce /\ RequestsStayInTheirApplication
    /\ KnowledgeIsReal /\ HandlersHaveRead /\ HistoryTells /\ OnePlanPerClientID
    /\ NoChangeIsLost /\ AnswersAreTrue /\ ListingsSkipNone
=============================================================================
