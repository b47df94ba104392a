-------------------------- MODULE ScheduledPlansProofs --------------------------
(***************************************************************************)
(* Proofs about ScheduledPlans for every set of products, owners, plans    *)
(* and commands, and every number of requests.                             *)
(***************************************************************************)
EXTENDS ScheduledPlans, WellFoundedInduction, TLAPS

(* A command is of one kind, and has what that kind needs. *)
LEMMA CommandShapes ==
    ASSUME NEW c \in AllCommands
    PROVE  /\ c.op \in {"create", "get", "deletion", "list", "update", "pause", "resume", "delete"}
           /\ c \in ChangeCommands <=> IsChange(c)
           /\ IsChange(c) => c.id \in Ids /\ c.revision \in Nat \ {0}
           /\ c.op \in {"get", "deletion"} => c.id \in Ids
           /\ c.op = "list" => /\ c.cursor \in {0} \cup Ids
                               /\ c = [op |-> "list", cursor |-> 0] <=> c.cursor = 0
           /\ c # NoCommand
BY DEF AllCommands, ChangeCommands, IsChange, NoCommand

LEMMA NoCommandShape ==
    NoCommand.op = "none" /\ NoCommand \notin ChangeCommands /\ ~IsChange(NoCommand)
BY DEF NoCommand, ChangeCommands, IsChange

LEMMA NoPlanShape == NoPlan.status = "none" /\ "none" \notin Statuses
BY DEF NoPlan, Statuses

(* A place is free, or has a plan with a status and a revision. *)
LEMMA PlanShapes ==
    ASSUME TypeOK, NEW i \in Ids
    PROVE  /\ plans[i] # NoPlan <=> plans[i].status \in Statuses
           /\ plans[i] # NoPlan => /\ plans[i].revision = Len(written[i]) + 1
                                   /\ plans[i].revision \in Nat \ {0}
           /\ plans[i] = NoPlan => written[i] = <<>>
           /\ written[i] \in Seq([by : Products, command : ChangeCommands])
           /\ Len(written[i]) \in Nat
<1>1. NoPlan.status = "none" /\ "none" \notin Statuses
  BY DEF NoPlan, Statuses
<1>2. written[i] \in Seq([by : Products, command : ChangeCommands])
  <2>1. written \in [Ids -> Seq([by : Products, command : ChangeCommands])]
    BY Zenon DEF TypeOK
  <2> QED BY <2>1, Zenon
<1>3. Len(written[i]) \in Nat
  BY <1>2
<1>4. \/ plans[i] = NoPlan /\ written[i] = <<>>
      \/ plans[i].status \in Statuses /\ plans[i].revision = Len(written[i]) + 1
  BY Zenon DEF TypeOK
<1> QED BY <1>1, <1>2, <1>3, <1>4

LEMMA StatusShapes ==
    ASSUME NEW op, NEW status \in Statuses
    PROVE  /\ StatusAfter(op, status) \in Statuses
           /\ StatusAfter(op, status) = "deleted" => op = "delete" \/ status = "deleted"
           /\ op \in {"pause", "resume", "delete"} =>
                StatusAfter(op, status) = StatusAfter(op, "none")
           /\ op \notin {"pause", "resume", "delete"} => StatusAfter(op, status) = status
BY DEF StatusAfter, Statuses

LEMMA AppendShapes ==
    ASSUME NEW S, NEW s \in Seq(S), NEW e \in S
    PROVE  /\ Append(s, e) \in Seq(S) /\ Len(Append(s, e)) = Len(s) + 1 /\ Len(s) \in Nat
           /\ \A n \in 1..Len(s) : Append(s, e)[n] = s[n]
           /\ Append(s, e)[Len(s) + 1] = e
OBVIOUS

LEMMA ElementOfSeq ==
    ASSUME NEW S, NEW s \in Seq(S), NEW n \in 1..Len(s)
    PROVE  s[n] \in S
OBVIOUS

LEMMA LeastOf ==
    ASSUME NEW S \in SUBSET Nat, S # {}
    PROVE  \E m \in S : \A n \in S : m <= n
<1> DEFINE R == OpToRel(<, Nat)
<1>1. IsWellFoundedOn(R, Nat)
  BY NatLessThanWellFounded
<1>2. \A x, y \in Nat : x < y => <<x, y>> \in R
  BY DEF OpToRel
<1> HIDE DEF R
<1>3. PICK x \in S : \A y \in S : ~(<<y, x>> \in R)
  BY <1>1, WFMin
<1>4. \A y \in S : ~(y < x)
  BY <1>2, <1>3, Zenon
<1> QED BY <1>4

LEMMA PlansAreNumbered == Ids \subseteq Nat \ {0} /\ 0 \notin Ids
BY PlansAssumption

LEMMA CursorsAreNumbers ==
    TypeOK => \A p \in Products : listing[p].cursor \in Nat /\ listing[p].cursor \in {0} \cup Ids
<1> SUFFICES ASSUME TypeOK, NEW p \in Products
             PROVE  listing[p].cursor \in Nat /\ listing[p].cursor \in {0} \cup Ids
  OBVIOUS
<1>1. listing[p].cursor \in {0} \cup Ids
  BY DEF TypeOK
<1>2. \A i \in Ids : i \in Nat
  BY PlansAreNumbered
<1> QED BY <1>1, <1>2

LEMMA SendsAreBounded == \A p \in Products : MaxSends[p] \in Nat
BY PlansAssumption

(* What each step of a product does to the product. *)
ProductFields == {"state", "command", "sends", "result", "receipt", "known"}

LEMMA CallMoves ==
    ASSUME TypeOK, NEW p \in Products, Call(p)
    PROVE  /\ DOMAIN product' = Products /\ DOMAIN product'[p] = ProductFields
           /\ \A q \in Products : q # p => product'[q] = product[q]
           /\ product'[p].sends = product[p].sends /\ product'[p].known = product[p].known
           /\ \/ /\ BindApplication(ApplicationOf(p)) /\ product'[p].state = "sending"
                 /\ product'[p].result = "none" /\ product'[p].receipt = NoPlan
                 /\ product'[p].command \in IF product[p].result = "unknown"
                                            THEN {product[p].command} ELSE Commands(p)
                 /\ product'[p].command.op = "list" => ~listing[p].complete
              \/ /\ bound' = bound /\ product'[p].state = product[p].state
                 /\ product'[p].result = "mismatch"
                 /\ product'[p].receipt = product[p].receipt
                 /\ product'[p].command = product[p].command
<1> DEFINE options == IF product[p].result = "unknown" THEN {product[p].command} ELSE Commands(p)
<1>1. PICK command \in options :
          /\ command.op = "list" => ~listing[p].complete
          /\ \/ /\ BindApplication(ApplicationOf(p))
                /\ product' = [product EXCEPT ![p].state = "sending", ![p].command = command,
                                              ![p].result = "none", ![p].receipt = NoPlan]
             \/ /\ bound \notin {Unbound, ApplicationOf(p)} /\ UNCHANGED bound
                /\ product' = [product EXCEPT ![p].result = "mismatch"]
  BY DEF Call
<1> HIDE DEF options
<1>2. DOMAIN product = Products /\ DOMAIN product[p] = ProductFields
  BY DEF TypeOK, ProductFields
<1>3. CASE product' = [product EXCEPT ![p].state = "sending", ![p].command = command,
                                      ![p].result = "none", ![p].receipt = NoPlan]
  <2>1. /\ product'[p].state = "sending" /\ product'[p].command = command
        /\ product'[p].result = "none" /\ product'[p].receipt = NoPlan
        /\ product'[p].sends = product[p].sends /\ product'[p].known = product[p].known
    BY <1>2, <1>3 DEF ProductFields
  <2>2. DOMAIN product' = Products /\ DOMAIN product'[p] = ProductFields
        /\ \A q \in Products : q # p => product'[q] = product[q]
    BY <1>2, <1>3
  <2>3. product' # [product EXCEPT ![p].result = "mismatch"]
    <3>1. [product EXCEPT ![p].result = "mismatch"][p].result = "mismatch"
      BY <1>2 DEF ProductFields
    <3> QED BY <2>1, <3>1
  <2> QED BY <1>1, <2>1, <2>2, <2>3 DEF options
<1>4. CASE product' = [product EXCEPT ![p].result = "mismatch"] /\ UNCHANGED bound
  <2>1. /\ product'[p].state = product[p].state /\ product'[p].command = product[p].command
        /\ product'[p].result = "mismatch" /\ product'[p].receipt = product[p].receipt
        /\ product'[p].sends = product[p].sends /\ product'[p].known = product[p].known
    BY <1>2, <1>4 DEF ProductFields
  <2>2. DOMAIN product' = Products /\ DOMAIN product'[p] = ProductFields
        /\ \A q \in Products : q # p => product'[q] = product[q]
    BY <1>2, <1>4
  <2> QED BY <1>4, <2>1, <2>2
<1> QED BY <1>1, <1>3, <1>4

LEMMA SendMoves ==
    ASSUME TypeOK, NEW p \in Products, Send(p)
    PROVE  /\ DOMAIN product' = Products /\ DOMAIN product'[p] = ProductFields
           /\ \A q \in Products : q # p => product'[q] = product[q]
           /\ product'[p].state = "awaiting" /\ product'[p].command = product[p].command
           /\ product'[p].sends = product[p].sends + 1
           /\ product'[p].result = product[p].result /\ product'[p].receipt = product[p].receipt
           /\ product'[p].known = product[p].known
<1>1. product' = [product EXCEPT ![p].state = "awaiting", ![p].sends = product[p].sends + 1]
  BY DEF Send
<1>2. DOMAIN product = Products /\ DOMAIN product[p] = ProductFields
  BY DEF TypeOK, ProductFields
<1> QED BY <1>1, <1>2 DEF ProductFields

LEMMA ErrorMoves ==
    ASSUME TypeOK, NEW p \in Products, TransportError(p)
    PROVE  /\ DOMAIN product' = Products /\ DOMAIN product'[p] = ProductFields
           /\ \A q \in Products : q # p => product'[q] = product[q]
           /\ product'[p].state = "idle" /\ product'[p].command = product[p].command
           /\ product'[p].sends = product[p].sends
           /\ product'[p].result = "unknown" /\ product'[p].receipt = product[p].receipt
           /\ product'[p].known = product[p].known
<1>1. product' = [product EXCEPT ![p].state = "idle", ![p].result = "unknown"]
  BY DEF TransportError
<1>2. DOMAIN product = Products /\ DOMAIN product[p] = ProductFields
  BY DEF TypeOK, ProductFields
<1> QED BY <1>1, <1>2 DEF ProductFields

(* What a product learns from a response *)
Learns(p, r) ==
    LET ok == r.status = 200
        command == product[p].command
    IN  /\ r.to = p /\ responses' = responses \ {r}
        /\ product'[p].state = "idle" /\ product'[p].command = command
        /\ product'[p].sends = product[p].sends
        /\ product'[p].result = IF ok THEN "done" ELSE ErrorOf(command.op, r.status)
        /\ product'[p].receipt = r.body
        /\ product'[p].known = IF ok /\ command.op # "list" THEN r.body ELSE product[p].known
        /\ listing' = IF ~ok \/ command.op # "list" THEN listing
                      ELSE [listing EXCEPT ![p] =
                          [cursor |-> r.body.id,
                           found |-> listing[p].found \cup ({r.body.id} \ {0}),
                           complete |-> r.body.id = 0]]

LEMMA ReceiveMoves ==
    ASSUME TypeOK, NEW p \in Products, Receive(p)
    PROVE  /\ DOMAIN product' = Products /\ DOMAIN product'[p] = ProductFields
           /\ \A q \in Products : q # p => product'[q] = product[q]
           /\ \E r \in responses : Learns(p, r)
<1>1. PICK r \in responses :
          LET command == product[p].command
              ok == r.status = 200
          IN  /\ r.to = p /\ responses' = responses \ {r}
              /\ product' = [product EXCEPT
                     ![p].state = "idle",
                     ![p].result = IF ok THEN "done" ELSE ErrorOf(command.op, r.status),
                     ![p].receipt = r.body,
                     ![p].known = IF ok /\ command.op # "list" THEN r.body ELSE product[p].known]
              /\ listing' = IF ~ok \/ command.op # "list" THEN listing
                            ELSE [listing EXCEPT ![p] =
                                [cursor |-> r.body.id,
                                 found |-> listing[p].found \cup ({r.body.id} \ {0}),
                                 complete |-> r.body.id = 0]]
  BY DEF Receive
<1> DEFINE ok == r.status = 200
           result == IF ok THEN "done" ELSE ErrorOf(product[p].command.op, r.status)
           known == IF ok /\ product[p].command.op # "list" THEN r.body ELSE product[p].known
<1>2. DOMAIN product = Products /\ DOMAIN product[p] = ProductFields
  BY DEF TypeOK, ProductFields
<1>3. product' = [product EXCEPT ![p].state = "idle", ![p].result = result,
                                 ![p].receipt = r.body, ![p].known = known]
  BY <1>1
<1> HIDE DEF result, known
<1>4. /\ product'[p].state = "idle" /\ product'[p].command = product[p].command
      /\ product'[p].sends = product[p].sends /\ product'[p].result = result
      /\ product'[p].receipt = r.body /\ product'[p].known = known
  BY <1>2, <1>3 DEF ProductFields
<1>5. DOMAIN product' = Products /\ DOMAIN product'[p] = ProductFields
      /\ \A q \in Products : q # p => product'[q] = product[q]
  BY <1>2, <1>3
<1>6. Learns(p, r)
  BY <1>1, <1>4, Zenon DEF Learns, result, known
<1> QED BY <1>5, <1>6

(* What each step of the Scheduler does to the messages: it answers a      *)
(* request, takes it into a handler, or answers for a handler.             *)
Answered(m) ==
    /\ requests' = requests \ {m} /\ handlers' = handlers
    /\ \E status, body : Answer(m, status, body)
TakenUp(m) ==
    /\ m.command \in ChangeCommands /\ m.command.id \in Visible(OwnerOf(m.from))
    /\ requests' = requests \ {m} /\ responses' = responses
    /\ handlers' = handlers \cup {[request |-> m, plan |-> plans[m.command.id]]}
    /\ UNCHANGED <<plans, written>>
Finished(h) ==
    /\ requests' = requests /\ handlers' = handlers \ {h}
    /\ \E status, body : Answer(h.request, status, body)

Scheduler ==
    \/ \E m \in requests :
          HandleCreate(m) \/ HandleRead(m) \/ HandleList(m) \/ ReadForChange(m) \/ Refuse(m)
    \/ \E h \in handlers : ReplacePlan(h)

LEMMA SchedulerMoves ==
    ASSUME TypeOK, Scheduler
    PROVE  /\ UNCHANGED <<party, bound, product, listing>>
           /\ \/ \E m \in requests : Answered(m) \/ TakenUp(m)
              \/ \E h \in handlers : Finished(h)
<1>1. ASSUME NEW m \in requests, HandleCreate(m)
      PROVE  UNCHANGED <<party, bound, product, listing>> /\ Answered(m)
  <2>1. \E status, body : Answer(m, status, body)
    BY <1>1 DEF HandleCreate
  <2> QED BY <1>1, <2>1 DEF HandleCreate, Answered, pages
<1>2. ASSUME NEW m \in requests, HandleRead(m)
      PROVE  UNCHANGED <<party, bound, product, listing>> /\ Answered(m)
  <2>1. \E status, body : Answer(m, status, body)
    BY <1>2 DEF HandleRead
  <2> QED BY <1>2, <2>1 DEF HandleRead, Answered, pages, store
<1>3. ASSUME NEW m \in requests, HandleList(m)
      PROVE  UNCHANGED <<party, bound, product, listing>> /\ Answered(m)
  <2>1. \E status, body : Answer(m, status, body)
    BY <1>3 DEF HandleList
  <2> QED BY <1>3, <2>1 DEF HandleList, Answered, pages, store
<1>4. ASSUME NEW m \in requests, Refuse(m)
      PROVE  UNCHANGED <<party, bound, product, listing>> /\ Answered(m)
  <2>1. \E status, body : Answer(m, status, body)
    BY <1>4 DEF Refuse
  <2> QED BY <1>4, <2>1 DEF Refuse, Answered, pages, store
<1>5. ASSUME NEW m \in requests, ReadForChange(m)
      PROVE  UNCHANGED <<party, bound, product, listing>> /\ (Answered(m) \/ TakenUp(m))
  <2>1. m.command \in ChangeCommands
    BY <1>5, CommandShapes DEF ReadForChange, TypeOK, Requests
  <2>2. CASE m.command.id \in Visible(OwnerOf(m.from))
    BY <1>5, <2>1, <2>2 DEF ReadForChange, TakenUp, pages
  <2>3. CASE m.command.id \notin Visible(OwnerOf(m.from))
    <3>1. \E status, body : Answer(m, status, body)
      BY <1>5, <2>3 DEF ReadForChange
    <3> QED BY <1>5, <2>3, <3>1 DEF ReadForChange, Answered, pages
  <2> QED BY <2>2, <2>3
<1>6. ASSUME NEW h \in handlers, ReplacePlan(h)
      PROVE  UNCHANGED <<party, bound, product, listing>> /\ Finished(h)
  <2>1. \E status, body : Answer(h.request, status, body)
    BY <1>6 DEF ReplacePlan
  <2> QED BY <1>6, <2>1 DEF ReplacePlan, Finished
<1> QED BY <1>1, <1>2, <1>3, <1>4, <1>5, <1>6 DEF Scheduler

(* What a step does to the plans: a creation takes a free place, and a     *)
(* change revises the plan as it is, not as its handler once read it.      *)
Created(m, i) ==
    /\ m.command.op = "create" /\ plans[i] = NoPlan
    /\ Record(OwnerOf(m.from), m.command) = {}
    /\ plans' = [plans EXCEPT ![i] =
          [owner |-> OwnerOf(m.from), clientID |-> m.command.clientID,
           request |-> m.command.content, content |-> m.command.content,
           status |-> "enabled", revision |-> 1]]
    /\ written' = written /\ since' = since
Replaced(h) ==
    LET command == h.request.command
        plan == plans[command.id]
    IN  /\ plan # NoPlan /\ plan.status # "deleted" /\ plan.revision = command.revision
        /\ plan = h.plan
        /\ plans' = [plans EXCEPT ![command.id] = Revised(plan, command)]
        /\ written' = [written EXCEPT ![command.id] =
              Append(@, [by |-> h.request.from, command |-> command])]
        /\ since' = IF Revised(plan, command).status = "deleted"
                    THEN [p \in Products |-> since[p] \ {command.id}] ELSE since

LEMMA ReplaceMoves ==
    ASSUME TypeOK, HandlersHaveRead, NEW h \in handlers, ReplacePlan(h)
    PROVE  LET command == h.request.command IN
           \/ /\ Replaced(h)
              /\ Answer(h.request, 200,
                        Shown(command.id, Revised(plans[command.id], command)))
           \/ Answer(h.request, 409, NoPlan) /\ UNCHANGED <<plans, written, since>>
<1> DEFINE command == h.request.command
<1>1. CASE RevisionStill(h)
  <2>1. command \in ChangeCommands /\ command \in AllCommands
    BY DEF TypeOK, AllCommands
  <2>2. command.id \in Ids /\ command.revision \in Nat \ {0}
    BY <2>1, CommandShapes
  <2>3. /\ plans[command.id].revision = command.revision
        /\ h.plan.revision \in command.revision..plans[command.id].revision
        /\ h.plan.status \in Statuses \ {"deleted"}
        /\ h.plan.revision = plans[command.id].revision => h.plan = plans[command.id]
    BY <1>1 DEF RevisionStill, HandlersHaveRead
  <2>4. h.plan = plans[command.id]
    BY <2>2, <2>3
  <2>5. plans[command.id] # NoPlan
    BY <2>2, <2>3, <2>4, PlanShapes
  <2>6. ~(~RevisionStill(h))
    BY <1>1
  <2> QED BY <2>3, <2>4, <2>5, <2>6 DEF ReplacePlan, Replaced
<1>2. CASE ~RevisionStill(h)
  BY <1>2 DEF ReplacePlan
<1> QED BY <1>1, <1>2

LEMMA StoreMoves ==
    ASSUME TypeOK, HandlersHaveRead, [Next]_vars
    PROVE  \/ UNCHANGED <<plans, written>>
           \/ \E m \in requests, i \in Ids : Created(m, i)
           \/ \E h \in handlers : Replaced(h)
<1>1. ASSUME NEW p \in Products, Work(p)
      PROVE  UNCHANGED <<plans, written>>
  BY <1>1 DEF Work, Call, Send, TransportError, Receive, store
<1>2. ASSUME NEW m \in requests, HandleCreate(m)
      PROVE  UNCHANGED <<plans, written>> \/ \E i \in Ids : Created(m, i)
  BY <1>2 DEF HandleCreate, Created, pages
<1>3. ASSUME NEW m \in requests,
             HandleRead(m) \/ HandleList(m) \/ ReadForChange(m) \/ Refuse(m)
      PROVE  UNCHANGED <<plans, written>>
  BY <1>3 DEF HandleRead, HandleList, ReadForChange, Refuse, store
<1>4. ASSUME NEW h \in handlers, ReplacePlan(h)
      PROVE  UNCHANGED <<plans, written>> \/ Replaced(h)
  BY <1>4, ReplaceMoves
<1>5. UNCHANGED vars => UNCHANGED <<plans, written>>
  BY DEF vars
<1> QED BY <1>1, <1>2, <1>3, <1>4, <1>5 DEF Next

(* A plan stays its owner's and its creation's; it is revised or stays     *)
(* what it is, as a tombstone does for ever; what was written stays so.    *)
LEMMA PlansKept ==
    ASSUME TypeOK, HandlersHaveRead, [Next]_vars
    PROVE  \A i \in Ids :
             /\ plans[i] # NoPlan =>
                  /\ plans'[i] # NoPlan
                  /\ plans'[i].owner = plans[i].owner /\ plans'[i].clientID = plans[i].clientID
                  /\ plans'[i].request = plans[i].request
                  /\ plans'[i].revision \in Nat /\ plans'[i].revision >= plans[i].revision
                  /\ plans'[i].revision = plans[i].revision => plans'[i] = plans[i]
                  /\ plans[i].status = "deleted" => plans'[i] = plans[i]
             /\ \A n \in 1..Len(written[i]) :
                  n \in 1..Len(written'[i]) /\ written'[i][n] = written[i][n]
<1>1. CASE UNCHANGED <<plans, written>>
  BY <1>1, PlanShapes
<1>2. ASSUME NEW m \in requests, NEW j \in Ids, Created(m, j)
      PROVE  \A i \in Ids : plans[i] # NoPlan => plans'[i] = plans[i]
  BY <1>2 DEF Created
<1>3. ASSUME NEW m \in requests, NEW j \in Ids, Created(m, j)
      PROVE  written' = written
  BY <1>3 DEF Created
<1>4. ASSUME NEW h \in handlers, Replaced(h), NEW i \in Ids
      PROVE  /\ plans[i] # NoPlan =>
                  /\ plans'[i] # NoPlan
                  /\ plans'[i].owner = plans[i].owner /\ plans'[i].clientID = plans[i].clientID
                  /\ plans'[i].request = plans[i].request
                  /\ plans'[i].revision \in Nat /\ plans'[i].revision >= plans[i].revision
                  /\ plans'[i].revision = plans[i].revision => plans'[i] = plans[i]
                  /\ plans[i].status = "deleted" => plans'[i] = plans[i]
             /\ \A n \in 1..Len(written[i]) :
                  n \in 1..Len(written'[i]) /\ written'[i][n] = written[i][n]
  <2> DEFINE command == h.request.command
             plan == plans[command.id]
             entry == [by |-> h.request.from, command |-> command]
  <2>1. /\ plan.status # "deleted" /\ plan # NoPlan
        /\ plans' = [plans EXCEPT ![command.id] = Revised(plan, command)]
        /\ written' = [written EXCEPT ![command.id] = Append(written[command.id], entry)]
    BY <1>4 DEF Replaced
  <2>2. plans[i] # NoPlan => plans[i].revision \in Nat \ {0}
    BY PlanShapes
  <2>3. CASE i # command.id
    <3>1. plans'[i] = plans[i] /\ written'[i] = written[i]
      BY <2>1, <2>3 DEF TypeOK
    <3> QED BY <2>2, <3>1
  <2>4. CASE i = command.id
    <3>1. plans'[i] = Revised(plan, command) /\ written'[i] = Append(written[i], entry)
      BY <2>1, <2>4 DEF TypeOK
    <3>2. entry \in [by : Products, command : ChangeCommands]
      BY DEF TypeOK, Requests
    <3> HIDE DEF entry
    <3>3. \A n \in 1..Len(written[i]) :
              n \in 1..Len(written'[i]) /\ written'[i][n] = written[i][n]
      BY <3>1, <3>2, PlanShapes
    <3>4. Revised(plan, command).revision = plan.revision + 1
          /\ Revised(plan, command).owner = plan.owner
          /\ Revised(plan, command).clientID = plan.clientID
          /\ Revised(plan, command).request = plan.request
          /\ Revised(plan, command).status = StatusAfter(command.op, plan.status)
      BY DEF Revised
    <3>5. StatusAfter(command.op, plan.status) \in Statuses /\ NoPlan.status \notin Statuses
      <4>1. plan.status \in Statuses
        BY <2>1, <2>4, PlanShapes
      <4> QED BY <4>1, StatusShapes DEF Statuses, NoPlan
    <3>6. plans'[i] # NoPlan
      BY <3>1, <3>4, <3>5
    <3>7. /\ plans'[i].owner = plans[i].owner /\ plans'[i].clientID = plans[i].clientID
          /\ plans'[i].request = plans[i].request /\ plans'[i].revision = plans[i].revision + 1
      BY <2>4, <3>1, <3>4
    <3>8. plans[i] # NoPlan /\ plans[i].status # "deleted"
      BY <2>1, <2>4
    <3> QED BY <2>2, <3>3, <3>6, <3>7, <3>8
  <2> QED BY <2>3, <2>4
<1>5. ASSUME NEW m \in requests, NEW j \in Ids, Created(m, j), NEW i \in Ids
      PROVE  /\ plans[i] # NoPlan =>
                  /\ plans'[i] # NoPlan
                  /\ plans'[i].owner = plans[i].owner /\ plans'[i].clientID = plans[i].clientID
                  /\ plans'[i].request = plans[i].request
                  /\ plans'[i].revision \in Nat /\ plans'[i].revision >= plans[i].revision
                  /\ plans'[i].revision = plans[i].revision => plans'[i] = plans[i]
                  /\ plans[i].status = "deleted" => plans'[i] = plans[i]
             /\ \A n \in 1..Len(written[i]) :
                  n \in 1..Len(written'[i]) /\ written'[i][n] = written[i][n]
  BY <1>2, <1>3, <1>5, PlanShapes
<1> QED BY <1>1, <1>4, <1>5, StoreMoves

-----------------------------------------------------------------------------
(* Types *)

ProductTyped(p) ==
    /\ DOMAIN product[p] = ProductFields
    /\ product[p].state \in {"idle", "sending", "awaiting"}
    /\ product[p].command \in {NoCommand} \cup AllCommands
    /\ product[p].sends \in 0..MaxSends[p]
    /\ product[p].result \in {"none", "done", "unknown", "mismatch", "invalid",
                              "not_found", "conflict", "unsupported"}

LEMMA ProductsTyped ==
    TypeOK => DOMAIN product = Products /\ \A p \in Products : ProductTyped(p)
BY DEF TypeOK, ProductTyped, ProductFields

(* A new command is one of the product's, about a plan that it knows. *)
LEMMA NewCommands ==
    ASSUME TypeOK, KnowledgeIsReal, NEW p \in Products, NEW c \in Commands(p)
    PROVE  /\ c \in AllCommands
           /\ c.op = "list" => c.cursor = listing[p].cursor
           /\ c \in ChangeCommands => Knows(p, c.id, c.revision)
<1> DEFINE known == product[p].known
           ids == {i \in Ids : plans[i] # NoPlan}
<1>1. known # NoPlan => known.id \in Ids /\ known.revision \in Nat \ {0}
  <2>1. known # NoPlan => known.id \in Ids /\ Knows(p, known.id, known.revision)
    BY DEF KnowledgeIsReal, KnowsItsPlans
  <2> QED BY <2>1, PlanShapes DEF Knows
<1>2. listing[p].cursor \in {0} \cup Ids
  BY DEF TypeOK
<1>3. CASE c \in [op : {"create"}, clientID : ClientIDs, content : Contents]
                   \cup [op : {"get", "deletion"}, id : ids]
                   \cup [op : {"list"}, cursor : {listing[p].cursor}]
  <2>1. c \in AllCommands
    BY <1>2, <1>3 DEF AllCommands
  <2>2. c.op \in {"create", "get", "deletion", "list"}
    BY <1>3
  <2>3. c.op = "list" => c.cursor = listing[p].cursor
    BY <1>3
  <2> QED BY <2>1, <2>2, <2>3, CommandShapes DEF IsChange
<1>4. CASE /\ known # NoPlan
           /\ c \in [op : {"update"}, id : {known.id}, revision : {known.revision},
                     content : Contents]
                    \cup [op : {"pause", "resume", "delete"}, id : {known.id},
                          revision : {known.revision}]
  <2>1. c \in AllCommands
    BY <1>1, <1>4 DEF AllCommands, ChangeCommands
  <2>2. c.op # "list" /\ c.id = known.id /\ c.revision = known.revision
    BY <1>4
  <2> QED BY <1>4, <2>1, <2>2 DEF KnowledgeIsReal, KnowsItsPlans
<1> QED BY <1>3, <1>4 DEF Commands

LEMMA CallTypes ==
    ASSUME TypeOK, OneCallAtATime, KnowledgeIsReal, NEW p \in Products, Call(p)
    PROVE  TypeOK'
<1>1. /\ DOMAIN product' = Products /\ DOMAIN product'[p] = ProductFields
      /\ \A q \in Products : q # p => product'[q] = product[q]
  BY CallMoves
<1>2. ProductTyped(p)'
  <2>1. \/ /\ product'[p].state = "sending" /\ product'[p].result = "none"
           /\ product'[p].command \in AllCommands
        \/ /\ product'[p].state = product[p].state /\ product'[p].result = "mismatch"
           /\ product'[p].command = product[p].command
    BY CallMoves, NewCommands DEF OneCallAtATime
  <2>2. product'[p].sends = product[p].sends
    BY CallMoves
  <2> QED BY <1>1, <2>1, <2>2, ProductsTyped DEF ProductTyped
<1>3. \A q \in Products : ProductTyped(q)'
  BY <1>1, <1>2, ProductsTyped DEF ProductTyped
<1>4. bound' \in {Unbound} \cup Applications
  <2>1. ApplicationOf(p) \in Applications
    BY DEF TypeOK, ApplicationOf, Applications
  <2> QED BY <2>1, CallMoves DEF BindApplication, TypeOK
<1>5. UNCHANGED <<party, listing, since, requests, responses, handlers, plans, written>>
  BY DEF Call, pages, store
<1> QED BY <1>1, <1>3, <1>4, <1>5 DEF TypeOK, ProductTyped, ProductFields

LEMMA SendTypes ==
    ASSUME TypeOK, OneCallAtATime, NEW p \in Products, Send(p)
    PROVE  TypeOK'
<1>1. /\ DOMAIN product' = Products /\ DOMAIN product'[p] = ProductFields
      /\ \A q \in Products : q # p => product'[q] = product[q]
  BY SendMoves
<1>2. product[p].state = "sending" /\ product[p].sends \in Nat /\ MaxSends[p] \in Nat
      /\ product[p].command \in AllCommands /\ product[p].sends < MaxSends[p]
  <2>1. ProductTyped(p)
    BY ProductsTyped
  <2> QED BY <2>1, SendsAreBounded DEF Send, OneCallAtATime, ProductTyped
<1>3. ProductTyped(p)'
  BY <1>1, <1>2, SendMoves, ProductsTyped DEF ProductTyped
<1>4. \A q \in Products : ProductTyped(q)'
  BY <1>1, <1>3, ProductsTyped DEF ProductTyped
<1>5. requests' \subseteq Requests
  <2>1. bound \in Applications
    <3>1. ApplicationOf(p) \in Applications
      BY DEF TypeOK, ApplicationOf, Applications
    <3> QED BY <1>2, <3>1 DEF OneCallAtATime
  <2> QED BY <1>2, <2>1 DEF Send, TypeOK, Requests
<1>6. since' \in [Products -> SUBSET Ids]
  <2>1. since \in [Products -> SUBSET Ids] /\ Visible(OwnerOf(p)) \in SUBSET Ids
    BY DEF TypeOK, Visible
  <2>2. since' = since \/ since' = [since EXCEPT ![p] = Visible(OwnerOf(p))]
    BY DEF Send
  <2> QED BY <2>1, <2>2
<1>7. UNCHANGED <<party, bound, listing, responses, handlers, plans, written>>
  BY DEF Send, store
<1> QED BY <1>1, <1>4, <1>5, <1>6, <1>7 DEF TypeOK, ProductTyped, ProductFields

LEMMA ErrorTypes ==
    ASSUME TypeOK, NEW p \in Products, TransportError(p)
    PROVE  TypeOK'
<1>1. /\ DOMAIN product' = Products /\ DOMAIN product'[p] = ProductFields
      /\ \A q \in Products : q # p => product'[q] = product[q]
  BY ErrorMoves
<1>2. ProductTyped(p)'
  BY <1>1, ErrorMoves, ProductsTyped DEF ProductTyped
<1>3. \A q \in Products : ProductTyped(q)'
  BY <1>1, <1>2, ProductsTyped DEF ProductTyped
<1>4. requests' \subseteq requests /\ responses' \subseteq responses
      /\ UNCHANGED <<party, bound, listing, since, handlers, plans, written>>
  BY DEF TransportError, pages, store
<1> QED BY <1>1, <1>3, <1>4 DEF TypeOK, ProductTyped, ProductFields

LEMMA ReceiveTypes ==
    ASSUME TypeOK, AnsweredOnce, ListingsSkipNone, NEW p \in Products, Receive(p)
    PROVE  TypeOK'
<1>1. /\ DOMAIN product' = Products /\ DOMAIN product'[p] = ProductFields
      /\ \A q \in Products : q # p => product'[q] = product[q]
  BY ReceiveMoves
<1>2. PICK r \in responses : Learns(p, r)
  BY ReceiveMoves
<1>3. ProductTyped(p)'
  <2>1. ErrorOf(product[p].command.op, r.status) \in
            {"invalid", "not_found", "conflict", "unsupported", "unknown"}
    BY DEF ErrorOf
  <2>2. product'[p].result \in {"done", "invalid", "not_found", "conflict", "unsupported", "unknown"}
    BY <1>2, <2>1 DEF Learns
  <2>3. product'[p].state = "idle" /\ product'[p].command = product[p].command
        /\ product'[p].sends = product[p].sends
    BY <1>2 DEF Learns
  <2> QED BY <1>1, <2>2, <2>3, ProductsTyped DEF ProductTyped
<1>4. \A q \in Products : ProductTyped(q)'
  BY <1>1, <1>3, ProductsTyped DEF ProductTyped
<1>5. listing' \in [Products -> [cursor : {0} \cup Ids, found : SUBSET Ids, complete : BOOLEAN]]
  <2>1. CASE listing' = listing
    BY <2>1 DEF TypeOK
  <2>2. CASE listing' # listing
    <3>1. r.to = p /\ r.status = 200 /\ product[p].command.op = "list"
          /\ listing' = [listing EXCEPT ![p] =
                [cursor |-> r.body.id, found |-> listing[p].found \cup ({r.body.id} \ {0}),
                 complete |-> r.body.id = 0]]
      BY <1>2, <2>2 DEF Learns
    <3>2. r.body.id \in {0} \cup Ids
      BY <3>1 DEF ListingsSkipNone
    <3>3. listing[p].found \cup ({r.body.id} \ {0}) \in SUBSET Ids /\ (r.body.id = 0) \in BOOLEAN
      BY <3>2 DEF TypeOK
    <3>4. listing \in [Products -> [cursor : {0} \cup Ids, found : SUBSET Ids, complete : BOOLEAN]]
      BY DEF TypeOK
    <3> QED BY <3>1, <3>2, <3>3, <3>4
  <2> QED BY <2>1, <2>2
<1>6. responses' \subseteq responses
      /\ UNCHANGED <<party, bound, since, requests, handlers, plans, written>>
  BY <1>2 DEF Receive, Learns, store
<1> QED BY <1>1, <1>4, <1>5, <1>6 DEF TypeOK, ProductTyped, ProductFields

LEMMA SchedulerTypes ==
    ASSUME TypeOK, HandlersHaveRead, Scheduler
    PROVE  TypeOK'
<1>1. UNCHANGED <<party, bound, product, listing>>
  BY SchedulerMoves
<1>2. requests' \subseteq Requests /\ (\A r \in responses' : r.to \in Products)
      /\ \A h \in handlers' : h.request \in Requests /\ h.request.command \in ChangeCommands
  <2>1. ASSUME NEW m \in requests, Answered(m)
        PROVE  requests' \subseteq Requests /\ (\A r \in responses' : r.to \in Products)
               /\ \A h \in handlers' : h.request \in Requests /\ h.request.command \in ChangeCommands
    BY <2>1 DEF Answered, Answer, TypeOK, Requests
  <2>2. ASSUME NEW m \in requests, TakenUp(m)
        PROVE  requests' \subseteq Requests /\ (\A r \in responses' : r.to \in Products)
               /\ \A h \in handlers' : h.request \in Requests /\ h.request.command \in ChangeCommands
    BY <2>2 DEF TakenUp, TypeOK
  <2>3. ASSUME NEW h \in handlers, Finished(h)
        PROVE  requests' \subseteq Requests /\ (\A r \in responses' : r.to \in Products)
               /\ \A g \in handlers' : g.request \in Requests /\ g.request.command \in ChangeCommands
    BY <2>3 DEF Finished, Answer, TypeOK, Requests
  <2> QED BY <2>1, <2>2, <2>3, SchedulerMoves
<1>3. since' \in [Products -> SUBSET Ids]
  <2>1. ASSUME NEW h \in handlers, ReplacePlan(h)
        PROVE  \/ since' = since
               \/ since' = [p \in Products |-> since[p] \ {h.request.command.id}]
    BY <2>1 DEF ReplacePlan
  <2>2. ASSUME NEW m \in requests,
               HandleCreate(m) \/ HandleRead(m) \/ HandleList(m) \/ ReadForChange(m) \/ Refuse(m)
        PROVE  since' = since
    BY <2>2 DEF HandleCreate, HandleRead, HandleList, ReadForChange, Refuse, pages
  <2>3. since \in [Products -> SUBSET Ids]
    BY DEF TypeOK
  <2> QED BY <2>1, <2>2, <2>3 DEF Scheduler
<1>4. /\ DOMAIN plans' = Ids /\ written' \in [Ids -> Seq([by : Products, command : ChangeCommands])]
      /\ \A i \in Ids :
            \/ plans'[i] = NoPlan /\ written'[i] = <<>>
            \/ plans'[i].status \in Statuses /\ plans'[i].revision = Len(written'[i]) + 1
  <2>1. CASE UNCHANGED <<plans, written>>
    BY <2>1 DEF TypeOK
  <2>2. ASSUME NEW m \in requests, NEW j \in Ids, Created(m, j)
        PROVE  /\ DOMAIN plans' = Ids
               /\ written' \in [Ids -> Seq([by : Products, command : ChangeCommands])]
               /\ \A i \in Ids :
                    \/ plans'[i] = NoPlan /\ written'[i] = <<>>
                    \/ plans'[i].status \in Statuses /\ plans'[i].revision = Len(written'[i]) + 1
    <3>1. written[j] = <<>> /\ Len(written[j]) = 0
      BY <2>2, PlanShapes DEF Created
    <3>2. plans'[j].status \in Statuses /\ plans'[j].revision = 1
      <4> DEFINE plan == [owner |-> OwnerOf(m.from), clientID |-> m.command.clientID,
                          request |-> m.command.content, content |-> m.command.content,
                          status |-> "enabled", revision |-> 1]
      <4>1. plan.status = "enabled" /\ plan.revision = 1
        OBVIOUS
      <4>2. plans' = [plans EXCEPT ![j] = plan]
        BY <2>2 DEF Created
      <4> HIDE DEF plan
      <4>3. plans'[j] = plan
        BY <4>2 DEF TypeOK
      <4> QED BY <4>1, <4>3 DEF Statuses
    <3>3. \A i \in Ids : i # j => plans'[i] = plans[i]
      BY <2>2 DEF Created, TypeOK
    <3>4. written' = written /\ DOMAIN plans' = Ids
      BY <2>2 DEF Created, TypeOK
    <3>5. /\ written \in [Ids -> Seq([by : Products, command : ChangeCommands])]
          /\ \A i \in Ids :
                \/ plans[i] = NoPlan /\ written[i] = <<>>
                \/ plans[i].status \in Statuses /\ plans[i].revision = Len(written[i]) + 1
      BY Zenon DEF TypeOK
    <3>6. plans'[j].status \in Statuses /\ plans'[j].revision = Len(written'[j]) + 1
      BY <3>1, <3>2, <3>4
    <3>7. ASSUME NEW i \in Ids, i # j
          PROVE  \/ plans'[i] = NoPlan /\ written'[i] = <<>>
                 \/ plans'[i].status \in Statuses /\ plans'[i].revision = Len(written'[i]) + 1
      BY <3>3, <3>4, <3>5, <3>7
    <3>8. written' \in [Ids -> Seq([by : Products, command : ChangeCommands])]
      BY <3>4, <3>5
    <3> QED BY <3>4, <3>6, <3>7, <3>8
  <2>3. ASSUME NEW h \in handlers, Replaced(h)
        PROVE  /\ DOMAIN plans' = Ids
               /\ written' \in [Ids -> Seq([by : Products, command : ChangeCommands])]
               /\ \A i \in Ids :
                    \/ plans'[i] = NoPlan /\ written'[i] = <<>>
                    \/ plans'[i].status \in Statuses /\ plans'[i].revision = Len(written'[i]) + 1
    <3> DEFINE command == h.request.command
               j == command.id
               entry == [by |-> h.request.from, command |-> command]
    <3>1. command \in AllCommands /\ entry \in [by : Products, command : ChangeCommands]
      BY DEF TypeOK, AllCommands, Requests
    <3>2. j \in Ids
      BY <3>1, CommandShapes DEF TypeOK
    <3>3. /\ plans[j] # NoPlan /\ plans' = [plans EXCEPT ![j] = Revised(plans[j], command)]
          /\ written' = [written EXCEPT ![j] = Append(written[j], entry)]
      BY <2>3 DEF Replaced
    <3> HIDE DEF entry, command
    <3>4. Append(written[j], entry) \in Seq([by : Products, command : ChangeCommands])
          /\ Len(Append(written[j], entry)) = Len(written[j]) + 1
      <4>1. written[j] \in Seq([by : Products, command : ChangeCommands])
        BY <3>2, PlanShapes
      <4> QED BY <3>1, <4>1, AppendShapes
    <3>5. /\ Revised(plans[j], command).revision = Len(written[j]) + 1 + 1
          /\ Revised(plans[j], command).status \in Statuses
      BY <3>2, <3>3, PlanShapes, StatusShapes DEF Revised
    <3>6. plans'[j] = Revised(plans[j], command) /\ written'[j] = Append(written[j], entry)
          /\ \A i \in Ids : i # j => plans'[i] = plans[i] /\ written'[i] = written[i]
      BY <3>2, <3>3 DEF TypeOK
    <3>7. DOMAIN plans' = Ids
          /\ written' \in [Ids -> Seq([by : Products, command : ChangeCommands])]
      BY <3>2, <3>3, <3>4 DEF TypeOK
    <3>8. plans'[j].status \in Statuses /\ plans'[j].revision = Len(written'[j]) + 1
      BY <3>4, <3>5, <3>6
    <3> QED BY <3>6, <3>7, <3>8 DEF TypeOK
  <2>4. [Next]_vars
    BY DEF Scheduler, Next
  <2> QED BY <2>1, <2>2, <2>3, <2>4, StoreMoves
<1> QED BY <1>1, <1>2, <1>3, <1>4 DEF TypeOK

-----------------------------------------------------------------------------
(* Calls, and their answers *)

LEMMA MessagesAreTyped ==
    ASSUME TypeOK
    PROVE  /\ UnderWay \subseteq Requests
           /\ \A m \in UnderWay : m.from \in Products /\ m.send \in Nat /\ m.command \in AllCommands
           /\ \A p \in Products : product[p].sends \in Nat
           /\ requests \subseteq UnderWay /\ \A h \in handlers : h.request \in UnderWay
<1>1. UnderWay \subseteq Requests
  BY DEF TypeOK, UnderWay
<1>2. \A p \in Products : product[p].sends \in Nat
  BY SendsAreBounded, ProductsTyped DEF ProductTyped
<1> QED BY <1>1, <1>2 DEF UnderWay, Requests

LEMMA ApplicationsHaveNames ==
    TypeOK => \A p \in Products : ApplicationOf(p) # Unbound
BY PlansAssumption DEF TypeOK, ApplicationOf

LEMMA ProductCounts ==
    ASSUME TypeOK, OneCallAtATime, AnsweredOnce, RequestsStayInTheirApplication,
           KnowledgeIsReal, NEW p \in Products, Work(p)
    PROVE  OneCallAtATime' /\ AnsweredOnce' /\ RequestsStayInTheirApplication'
<1>1. /\ \A m \in UnderWay : m.from \in Products /\ m.send \in Nat
      /\ \A q \in Products : product[q].sends \in Nat
      /\ requests \subseteq UnderWay /\ \A h \in handlers : h.request \in UnderWay
  BY MessagesAreTyped
<1>2. \A q \in Products : ApplicationOf(q)' = ApplicationOf(q)
  BY DEF Work, Call, Send, TransportError, Receive, ApplicationOf
<1>3. handlers' = handlers
  BY DEF Work, Call, Send, TransportError, Receive, store
<1>4. \A r \in responses : r.to \in Products
  BY DEF TypeOK
<1>5. CASE Call(p)
  <2>1. product[p].state = "idle" /\ product[p].sends < MaxSends[p]
        /\ UNCHANGED <<requests, responses>> /\ UnderWay' = UnderWay
    BY <1>3, <1>5 DEF Call, UnderWay
  <2>2. /\ \A q \in Products : q # p => product'[q] = product[q]
        /\ product'[p].sends = product[p].sends
    BY <1>5, CallMoves
  <2>3. \/ /\ product'[p].state = "sending" /\ bound \in {Unbound, ApplicationOf(p)}
           /\ bound' = ApplicationOf(p) /\ product'[p].command \in AllCommands
        \/ /\ bound' = bound /\ product'[p].state = product[p].state
           /\ product'[p].result = "mismatch" /\ product'[p].command = product[p].command
    BY <1>5, CallMoves, NewCommands DEF BindApplication, OneCallAtATime
  <2>4. \A q \in Products : /\ product'[q].state # "idle" => bound' = ApplicationOf(q)
                            /\ product'[q].state # "idle" \/ product'[q].result = "unknown"
                                 => product'[q].command \in AllCommands
                            /\ product'[q].state = "sending" => product'[q].sends < MaxSends[q]
    BY <2>1, <2>2, <2>3, ApplicationsHaveNames DEF OneCallAtATime
  <2>5. product'[p].state # "awaiting"
    BY <2>1, <2>3
  <2>6. \A m \in UnderWay : OfCall(m)' => m.from # p /\ OfCall(m)
    BY <1>1, <2>2, <2>5 DEF OfCall
  <2>7. OneCallAtATime'
    BY <1>1, <1>2, <2>1, <2>2, <2>4, <2>6 DEF OneCallAtATime
  <2>8. \A r \in responses : r.to # p
    BY <2>1 DEF AnsweredOnce
  <2>9. AnsweredOnce'
    BY <1>3, <1>4, <2>1, <2>2, <2>6, <2>8 DEF AnsweredOnce, SameCall
  <2> QED BY <1>1, <1>2, <2>1, <2>7, <2>9 DEF RequestsStayInTheirApplication
<1>6. CASE Send(p)
  <2> DEFINE n == product[p].sends + 1
             s == [from |-> p, send |-> n, application |-> bound,
                   command |-> product[p].command]
  <2>1. /\ product[p].state = "sending" /\ bound' = bound /\ responses' = responses
        /\ requests' = requests \cup {s} /\ UnderWay' = UnderWay \cup {s}
    BY <1>3, <1>6 DEF Send, UnderWay
  <2>2. /\ \A q \in Products : q # p => product'[q] = product[q]
        /\ product'[p].sends = n /\ product'[p].state = "awaiting"
        /\ product'[p].command = product[p].command /\ product'[p].result = product[p].result
    BY <1>6, SendMoves
  <2>3. s.from = p /\ s.send = n /\ s.command = product[p].command /\ s.application = bound
    OBVIOUS
  <2> HIDE DEF s
  <2>4. \A m \in UnderWay : m.from = p => m.send < n
    BY <1>1 DEF OneCallAtATime
  <2>5. \A m \in UnderWay : OfCall(m)' => m.from # p /\ OfCall(m)
    BY <1>1, <2>2, <2>4 DEF OfCall
  <2>6. OneCallAtATime'
    <3>1. \A q \in Products : /\ product'[q].state # "idle" => bound' = ApplicationOf(q)
                              /\ product'[q].state # "idle" \/ product'[q].result = "unknown"
                                   => product'[q].command \in AllCommands
                              /\ product'[q].state = "sending" => product'[q].sends < MaxSends[q]
      BY <2>1, <2>2 DEF OneCallAtATime
    <3>2. \A m \in UnderWay' : /\ m.send <= product'[m.from].sends
                               /\ OfCall(m)' => m.command = product'[m.from].command
      BY <1>1, <2>1, <2>2, <2>3, <2>4, <2>5 DEF OneCallAtATime
    <3> QED BY <1>2, <3>1, <3>2 DEF OneCallAtATime
  <2>7. AnsweredOnce'
    <3>1. \A m, o \in requests' : SameCall(m, o) => m = o
      BY <1>1, <2>1, <2>3, <2>4 DEF AnsweredOnce, SameCall
    <3>2. \A m \in requests', h \in handlers' : ~SameCall(m, h.request)
      BY <1>1, <1>3, <2>1, <2>3, <2>4 DEF AnsweredOnce, SameCall
    <3>3. \A r \in responses : r.to # p
      BY <2>1 DEF AnsweredOnce
    <3>4. \A r \in responses' :
              /\ product'[r.to].state = "awaiting"
              /\ \A t \in responses' : t.to = r.to => t = r
              /\ \A m \in UnderWay' : m.from = r.to => ~OfCall(m)'
      BY <1>4, <2>1, <2>2, <2>3, <2>5, <3>3 DEF AnsweredOnce
    <3> QED BY <1>3, <3>1, <3>2, <3>4 DEF AnsweredOnce, SameCall
  <2> QED BY <1>1, <1>2, <2>1, <2>3, <2>6, <2>7
          DEF RequestsStayInTheirApplication, OneCallAtATime
<1>7. ASSUME product'[p].state = "idle", product'[p].sends = product[p].sends,
             product'[p].command = product[p].command, product[p].state = "awaiting",
             \A q \in Products : q # p => product'[q] = product[q],
             responses' \subseteq responses, \A r \in responses' : r.to # p,
             requests' \subseteq requests, bound' = bound
      PROVE  OneCallAtATime' /\ AnsweredOnce' /\ RequestsStayInTheirApplication'
  <2>1. UnderWay' \subseteq UnderWay
    BY <1>3, <1>7 DEF UnderWay
  <2>2. \A m \in UnderWay : OfCall(m)' => m.from # p /\ OfCall(m)
    BY <1>1, <1>7 DEF OfCall
  <2>3. OneCallAtATime'
    BY <1>1, <1>2, <1>7, <2>1, <2>2 DEF OneCallAtATime
  <2>4. AnsweredOnce'
    BY <1>3, <1>4, <1>7, <2>1, <2>2 DEF AnsweredOnce, SameCall
  <2> QED BY <1>1, <1>2, <1>7, <2>3, <2>4 DEF RequestsStayInTheirApplication
<1>8. CASE TransportError(p)
  <2>1. product[p].state = "awaiting" /\ responses' = {r \in responses : r.to # p}
        /\ requests' \subseteq requests /\ bound' = bound
    BY <1>8 DEF TransportError
  <2> QED BY <1>7, <1>8, <2>1, ErrorMoves
<1>9. CASE Receive(p)
  <2>1. PICK r \in responses : Learns(p, r)
    BY <1>9, ReceiveMoves
  <2>2. product[p].state = "awaiting" /\ responses' = {s \in responses : s.to # p}
    BY <2>1 DEF Learns, AnsweredOnce
  <2>3. requests' = requests /\ bound' = bound
    BY <1>9 DEF Receive
  <2>4. /\ product'[p].state = "idle" /\ product'[p].sends = product[p].sends
        /\ product'[p].command = product[p].command
    BY <2>1 DEF Learns
  <2>5. \A q \in Products : q # p => product'[q] = product[q]
    BY <1>9, ReceiveMoves
  <2> QED BY <1>7, <2>2, <2>3, <2>4, <2>5
<1> QED BY <1>5, <1>6, <1>8, <1>9 DEF Work

(* The answer to a call that is no longer under way is the only one.       *)
LEMMA AnswerCounts ==
    ASSUME TypeOK, AnsweredOnce, NEW m \in UnderWay, NEW status, NEW body,
           Answer(m, status, body), product' = product,
           \A n \in UnderWay' : n \in UnderWay /\ ~SameCall(n, m)
    PROVE  \A r \in responses' :
               /\ product[r.to].state = "awaiting"
               /\ \A s \in responses' : s.to = r.to => s = r
               /\ \A n \in UnderWay' : n.from = r.to => ~OfCall(n)
<1> DEFINE a == [to |-> m.from, status |-> status, body |-> body]
<1>1. CASE OfCall(m)
  <2>1. responses' = responses \cup {a}
    BY <1>1 DEF Answer
  <2>2. \A s \in responses : s.to # m.from
    BY <1>1 DEF AnsweredOnce
  <2>3. a.to = m.from
    OBVIOUS
  <2>4. \A n \in UnderWay' : n.from = m.from => ~OfCall(n)
    BY <1>1 DEF OfCall, SameCall
  <2> QED BY <1>1, <2>1, <2>2, <2>3, <2>4 DEF AnsweredOnce, OfCall
<1>2. CASE responses' = responses
  BY <1>2 DEF AnsweredOnce
<1> QED BY <1>1, <1>2 DEF Answer

LEMMA SchedulerCounts ==
    ASSUME TypeOK, OneCallAtATime, AnsweredOnce, RequestsStayInTheirApplication, Scheduler
    PROVE  OneCallAtATime' /\ AnsweredOnce' /\ RequestsStayInTheirApplication'
<1>1. UNCHANGED <<party, bound, product>>
  BY SchedulerMoves
<1>2. requests \subseteq UnderWay /\ \A h \in handlers : h.request \in UnderWay
  BY DEF UnderWay
<1>3. ASSUME UnderWay' \subseteq UnderWay
      PROVE  OneCallAtATime'
  BY <1>1, <1>3 DEF OneCallAtATime, OfCall, ApplicationOf
<1>4. requests' \subseteq requests => RequestsStayInTheirApplication'
  BY <1>1 DEF RequestsStayInTheirApplication, ApplicationOf
<1>5. ASSUME NEW m \in requests, Answered(m)
      PROVE  OneCallAtATime' /\ AnsweredOnce' /\ RequestsStayInTheirApplication'
  <2>1. PICK status, body : Answer(m, status, body)
    BY <1>5 DEF Answered
  <2>2. requests' = requests \ {m} /\ handlers' = handlers
    BY <1>5 DEF Answered
  <2>3. UnderWay' \subseteq UnderWay /\ m \in UnderWay
    BY <2>2 DEF UnderWay
  <2>4. \A n \in UnderWay' : ~SameCall(n, m)
    BY <2>2 DEF UnderWay, AnsweredOnce, SameCall
  <2>5. \A r \in responses' :
            /\ product[r.to].state = "awaiting"
            /\ \A s \in responses' : s.to = r.to => s = r
            /\ \A n \in UnderWay' : n.from = r.to => ~OfCall(n)
    BY <1>1, <2>1, <2>3, <2>4, AnswerCounts
  <2> QED BY <1>1, <1>3, <1>4, <2>2, <2>3, <2>5 DEF AnsweredOnce, OfCall, SameCall
<1>6. ASSUME NEW m \in requests, TakenUp(m)
      PROVE  OneCallAtATime' /\ AnsweredOnce' /\ RequestsStayInTheirApplication'
  <2> DEFINE h == [request |-> m, plan |-> plans[m.command.id]]
  <2>1. /\ requests' = requests \ {m} /\ responses' = responses
        /\ handlers' = handlers \cup {h} /\ h.request = m
    BY <1>6 DEF TakenUp
  <2> HIDE DEF h
  <2>2. UnderWay' = UnderWay
    BY <2>1 DEF UnderWay
  <2>3. \A g, i \in handlers' : SameCall(g.request, i.request) => g = i
    BY <2>1 DEF AnsweredOnce, SameCall
  <2>4. \A n \in requests', i \in handlers' : ~SameCall(n, i.request)
    BY <2>1 DEF AnsweredOnce, SameCall
  <2> QED BY <1>1, <1>3, <1>4, <2>1, <2>2, <2>3, <2>4 DEF AnsweredOnce, OfCall, SameCall
<1>7. ASSUME NEW h \in handlers, Finished(h)
      PROVE  OneCallAtATime' /\ AnsweredOnce' /\ RequestsStayInTheirApplication'
  <2>1. PICK status, body : Answer(h.request, status, body)
    BY <1>7 DEF Finished
  <2>2. requests' = requests /\ handlers' = handlers \ {h}
    BY <1>7 DEF Finished
  <2>3. UnderWay' \subseteq UnderWay /\ h.request \in UnderWay
    BY <2>2 DEF UnderWay
  <2>4. \A n \in UnderWay' : ~SameCall(n, h.request)
    BY <2>2 DEF UnderWay, AnsweredOnce, SameCall
  <2>5. \A r \in responses' :
            /\ product[r.to].state = "awaiting"
            /\ \A s \in responses' : s.to = r.to => s = r
            /\ \A n \in UnderWay' : n.from = r.to => ~OfCall(n)
    BY <1>1, <2>1, <2>3, <2>4, AnswerCounts
  <2> QED BY <1>1, <1>3, <1>4, <2>2, <2>3, <2>5 DEF AnsweredOnce, OfCall, SameCall
<1> QED BY <1>5, <1>6, <1>7, SchedulerMoves

-----------------------------------------------------------------------------
(* Plans, and what was said of them *)

LEMMA PartiesKept ==
    ASSUME [Next]_vars
    PROVE  party' = party /\ \A p : OwnerOf(p)' = OwnerOf(p)
<1>1. ASSUME NEW p \in Products, Work(p)
      PROVE  party' = party
  <2>1. Receive(p) => party' = party
    BY DEF Receive
  <2> QED BY <1>1, <2>1 DEF Work, Call, Send, TransportError
<1>2. \A m \in requests : HandleCreate(m) \/ HandleRead(m) \/ HandleList(m)
                            \/ ReadForChange(m) \/ Refuse(m) => party' = party
  BY DEF HandleCreate, HandleRead, HandleList, ReadForChange, Refuse
<1>3. \A h \in handlers : ReplacePlan(h) => party' = party
  BY DEF ReplacePlan
<1> QED BY <1>1, <1>2, <1>3 DEF Next, vars, OwnerOf

LEMMA KnowsKept ==
    ASSUME TypeOK, HandlersHaveRead, [Next]_vars, NEW p, NEW i \in Ids, NEW revision,
           Knows(p, i, revision)
    PROVE  Knows(p, i, revision)'
<1>1. /\ plans'[i] # NoPlan /\ plans'[i].owner = plans[i].owner
      /\ plans'[i].revision \in Nat /\ plans'[i].revision >= plans[i].revision
  BY PlansKept DEF Knows
<1>2. revision \in 1..plans'[i].revision
  BY <1>1, PlanShapes DEF Knows
<1> QED BY <1>1, <1>2, PartiesKept DEF Knows

LEMMA TruthKept ==
    ASSUME TypeOK, HandlersHaveRead, [Next]_vars, NEW p, NEW command, NEW receipt,
           Truthful(p, command, receipt)
    PROVE  Truthful(p, command, receipt)'
<1> DEFINE i == receipt.id
<1>1. i \in Ids /\ Knows(p, i, receipt.revision)
  BY DEF Truthful
<1>2. plans[i] # NoPlan /\ receipt.revision \in 1..plans[i].revision
      /\ plans[i].revision = Len(written[i]) + 1 /\ Len(written[i]) \in Nat
  BY <1>1, PlanShapes DEF Knows
<1>3. Knows(p, i, receipt.revision)'
  BY <1>1, KnowsKept
<1>4. plans'[i].clientID = plans[i].clientID /\ plans'[i].request = plans[i].request
      /\ (plans[i].status = "deleted" => plans'[i] = plans[i])
  BY <1>1, <1>2, PlansKept
<1>5. ASSUME command \in ChangeCommands
      PROVE  written'[i][command.revision].command = command
  <2>1. receipt.revision = command.revision + 1 /\ written[i][command.revision].command = command
    BY <1>5 DEF Truthful
  <2>2. command.revision \in Nat \ {0}
    BY <1>5, CommandShapes DEF AllCommands
  <2>3. command.revision \in 1..Len(written[i])
    BY <1>2, <2>1, <2>2
  <2>4. \A n \in 1..Len(written[i]) : written'[i][n] = written[i][n]
    BY <1>1, PlansKept
  <2> QED BY <2>1, <2>3, <2>4
<1>6. ASSUME command.op \in {"delete", "deletion"}
      PROVE  Shown(i, plans'[i]) = receipt
  <2>1. Shown(i, plans[i]) = receipt /\ receipt.status = "deleted"
    BY <1>6 DEF Truthful
  <2>2. plans[i].status = "deleted"
    BY <2>1 DEF Shown
  <2> QED BY <1>4, <2>1, <2>2
<1> QED BY <1>1, <1>3, <1>4, <1>5, <1>6 DEF Truthful, Shown

LEMMA ReceiveKeeps ==
    ASSUME NEW p \in Products, Receive(p)
    PROVE  UNCHANGED <<party, bound, since, requests, store>>
BY Zenon DEF Receive

LEMMA HandlersOnlyChangeInTheScheduler ==
    ASSUME NEW p \in Products, Work(p)
    PROVE  handlers' = handlers
<1>1. Receive(p) => handlers' = handlers
  BY ReceiveKeeps DEF store
<1> QED BY <1>1 DEF Work, Call, Send, TransportError, store

LEMMA KnowledgeStep ==
    ASSUME TypeOK, OneCallAtATime, AnsweredOnce, HandlersHaveRead, KnowledgeIsReal,
           AnswersAreTrue, [Next]_vars
    PROVE  KnowledgeIsReal'
<1>1. \A p : \A i \in Ids : \A n : Knows(p, i, n) => Knows(p, i, n)'
  BY KnowsKept
<1>2. \A c \in ChangeCommands : c.id \in Ids /\ c \in AllCommands
  BY CommandShapes DEF AllCommands
<1>3. ASSUME NEW p \in Products, NEW q \in Products, product'[q] = product[q]
      PROVE  KnowsItsPlans(q)'
  BY <1>1, <1>2, <1>3 DEF KnowledgeIsReal, KnowsItsPlans
<1>4. ASSUME UnderWay' \subseteq UnderWay
      PROVE  \A m \in UnderWay' :
                m.command \in ChangeCommands => Knows(m.from, m.command.id, m.command.revision)'
  BY <1>1, <1>2, <1>4 DEF KnowledgeIsReal, KnowsItsPlans
<1>5. ASSUME NEW p \in Products, Work(p)
      PROVE  KnowledgeIsReal'
  <2>1. \A q \in Products : q # p => product'[q] = product[q]
    BY <1>5, CallMoves, SendMoves, ErrorMoves, ReceiveMoves DEF Work
  <2>2. /\ product'[p].known # NoPlan =>
              product'[p].known.id \in Ids
                /\ Knows(p, product'[p].known.id, product'[p].known.revision)
        /\ product'[p].command \in ChangeCommands =>
              Knows(p, product'[p].command.id, product'[p].command.revision)
    <3>1. CASE Call(p)
      BY <3>1, CallMoves, NewCommands DEF KnowledgeIsReal, KnowsItsPlans
    <3>2. CASE Send(p)
      BY <3>2, SendMoves DEF KnowledgeIsReal, KnowsItsPlans
    <3>3. CASE TransportError(p)
      BY <3>3, ErrorMoves DEF KnowledgeIsReal, KnowsItsPlans
    <3>4. CASE Receive(p)
      <4>1. PICK r \in responses : Learns(p, r)
        BY <3>4, ReceiveMoves
      <4>2. product'[p].command = product[p].command
        BY <4>1 DEF Learns
      <4>3. CASE r.status = 200 /\ product[p].command.op # "list"
        <5>1. product'[p].known = r.body /\ r.to = p
          BY <4>1, <4>3 DEF Learns
        <5>2. Truthful(p, product[p].command, r.body)
          BY <4>3, <5>1 DEF AnswersAreTrue
        <5>3. r.body.id \in Ids /\ Knows(p, r.body.id, r.body.revision)
          BY <5>2 DEF Truthful
        <5> QED BY <4>2, <5>1, <5>3 DEF KnowledgeIsReal, KnowsItsPlans
      <4>4. CASE ~(r.status = 200 /\ product[p].command.op # "list")
        <5>1. product'[p].known = product[p].known
          BY <4>1, <4>4 DEF Learns
        <5> QED BY <4>2, <5>1 DEF KnowledgeIsReal, KnowsItsPlans
      <4> QED BY <4>3, <4>4
    <3> QED BY <1>5, <3>1, <3>2, <3>3, <3>4 DEF Work
  <2>3. \A m \in UnderWay' :
            m \in UnderWay \/ (m.from = p /\ m.command = product[p].command)
    <3>1. handlers' = handlers
      BY <1>5, HandlersOnlyChangeInTheScheduler
    <3>2. requests' \subseteq requests \/ Send(p)
      <4>1. Receive(p) => requests' = requests
        BY ReceiveKeeps
      <4> QED BY <1>5, <4>1 DEF Work, Call, TransportError
    <3>3. Send(p) => requests' = requests \cup
              {[from |-> p, send |-> product[p].sends + 1, application |-> bound,
                command |-> product[p].command]}
      BY DEF Send
    <3> QED BY <3>1, <3>2, <3>3 DEF UnderWay
  <2>4. \A m \in UnderWay' :
            m.command \in ChangeCommands => Knows(m.from, m.command.id, m.command.revision)'
    BY <1>1, <1>2, <2>3 DEF KnowledgeIsReal, KnowsItsPlans
  <2>5. KnowsItsPlans(p)'
    BY <1>1, <1>2, <2>2 DEF KnowsItsPlans
  <2>6. \A q \in Products : KnowsItsPlans(q)'
    BY <1>3, <2>1, <2>5
  <2> QED BY <2>4, <2>6 DEF KnowledgeIsReal
<1>6. CASE Scheduler
  <2>1. UnderWay' \subseteq UnderWay
    BY <1>6, SchedulerMoves DEF Answered, TakenUp, Finished, UnderWay
  <2>2. product' = product
    BY <1>6, SchedulerMoves
  <2> QED BY <1>3, <1>4, <2>1, <2>2 DEF KnowledgeIsReal, KnowsItsPlans
<1>7. CASE UNCHANGED vars
  BY <1>1, <1>3, <1>4, <1>7 DEF vars, UnderWay, KnowledgeIsReal
<1> QED BY <1>5, <1>6, <1>7 DEF Next, Scheduler

LEMMA HandlersStep ==
    ASSUME TypeOK, KnowledgeIsReal, HandlersHaveRead, [Next]_vars
    PROVE  HandlersHaveRead'
<1>1. ASSUME NEW h \in handlers
      PROVE  LET plan == plans'[h.request.command.id] IN
             /\ h.plan.status \in Statuses \ {"deleted"}
             /\ h.plan.owner = plan.owner /\ h.plan.clientID = plan.clientID
             /\ h.plan.request = plan.request
             /\ h.plan.revision \in h.request.command.revision..plan.revision
             /\ h.plan.revision = plan.revision => h.plan = plan
  <2> DEFINE i == h.request.command.id
  <2>1. h.request.command \in ChangeCommands /\ h.request \in UnderWay
        /\ h.request.command \in AllCommands
    BY DEF TypeOK, UnderWay, AllCommands
  <2>2. i \in Ids /\ plans[i] # NoPlan
    BY <2>1, CommandShapes DEF KnowledgeIsReal, KnowsItsPlans, Knows
  <2>3. /\ h.plan.status \in Statuses \ {"deleted"}
        /\ h.plan.owner = plans[i].owner /\ h.plan.clientID = plans[i].clientID
        /\ h.plan.request = plans[i].request
        /\ h.plan.revision \in h.request.command.revision..plans[i].revision
        /\ h.plan.revision = plans[i].revision => h.plan = plans[i]
    BY DEF HandlersHaveRead
  <2>4. /\ plans'[i].owner = plans[i].owner /\ plans'[i].clientID = plans[i].clientID
        /\ plans'[i].request = plans[i].request
        /\ plans'[i].revision \in Nat /\ plans'[i].revision >= plans[i].revision
        /\ plans'[i].revision = plans[i].revision => plans'[i] = plans[i]
    BY <2>2, PlansKept
  <2>5. plans[i].revision \in Nat /\ h.request.command.revision \in Nat
    BY <2>1, <2>2, PlanShapes, CommandShapes
  <2> QED BY <2>3, <2>4, <2>5
<1>2. CASE handlers' \subseteq handlers
  BY <1>1, <1>2 DEF HandlersHaveRead
<1>3. ASSUME NEW m \in requests, TakenUp(m)
      PROVE  HandlersHaveRead'
  <2> DEFINE i == m.command.id
             h == [request |-> m, plan |-> plans[i]]
  <2>1. handlers' = handlers \cup {h} /\ h.request = m /\ h.plan = plans[i] /\ plans' = plans
    BY <1>3 DEF TakenUp
  <2> HIDE DEF h
  <2>2. i \in Ids /\ plans[i] # NoPlan /\ plans[i].status # "deleted"
        /\ m.command \in ChangeCommands /\ m \in UnderWay
    BY <1>3 DEF TakenUp, Visible, UnderWay
  <2>3. m.command.revision \in 1..plans[i].revision
    BY <2>2 DEF KnowledgeIsReal, KnowsItsPlans, Knows
  <2>4. plans[i].revision \in m.command.revision..plans[i].revision
        /\ plans[i].status \in Statuses
    BY <2>2, <2>3, PlanShapes
  <2> QED BY <1>1, <2>1, <2>2, <2>4 DEF HandlersHaveRead
<1>4. ASSUME NEW p \in Products, Work(p)
      PROVE  handlers' = handlers
  BY <1>4, HandlersOnlyChangeInTheScheduler
<1>5. ASSUME Scheduler
      PROVE  handlers' \subseteq handlers \/ \E m \in requests : TakenUp(m)
  BY <1>5, SchedulerMoves DEF Answered, Finished
<1> QED BY <1>2, <1>3, <1>4, <1>5 DEF Next, Scheduler, vars

(* A change taken over is the next entry of its plan's history. *)
LEMMA ReplacedShapes ==
    ASSUME TypeOK, NEW h \in handlers, Replaced(h)
    PROVE  LET command == h.request.command
               i == command.id
               entry == [by |-> h.request.from, command |-> command]
           IN  /\ command \in ChangeCommands /\ command \in AllCommands /\ i \in Ids
               /\ plans[i] # NoPlan /\ plans[i].status \in Statuses \ {"deleted"}
               /\ plans[i].revision = command.revision
               /\ command.revision = Len(written[i]) + 1
               /\ plans'[i] = Revised(plans[i], command)
               /\ \A j \in Ids : j # i => plans'[j] = plans[j] /\ written'[j] = written[j]
               /\ written'[i] = Append(written[i], entry)
               /\ written[i] \in Seq([by : Products, command : ChangeCommands])
               /\ entry \in [by : Products, command : ChangeCommands]
               /\ Len(written'[i]) = Len(written[i]) + 1 /\ Len(written[i]) \in Nat
               /\ \A n \in 1..Len(written[i]) : written'[i][n] = written[i][n]
               /\ written'[i][Len(written[i]) + 1] = entry
<1> DEFINE command == h.request.command
           i == command.id
           entry == [by |-> h.request.from, command |-> command]
           S == [by : Products, command : ChangeCommands]
<1>1. /\ command \in ChangeCommands /\ command \in AllCommands
      /\ entry \in [by : Products, command : ChangeCommands]
  BY DEF TypeOK, AllCommands, Requests
<1>2. i \in Ids
  BY <1>1, CommandShapes
<1>3. /\ plans[i] # NoPlan /\ plans[i].status # "deleted" /\ plans[i].revision = command.revision
      /\ plans' = [plans EXCEPT ![i] = Revised(plans[i], command)]
      /\ written' = [written EXCEPT ![i] = Append(written[i], entry)]
  BY DEF Replaced
<1> HIDE DEF entry, command
<1>4. /\ plans'[i] = Revised(plans[i], command) /\ written'[i] = Append(written[i], entry)
      /\ \A j \in Ids : j # i => plans'[j] = plans[j] /\ written'[j] = written[j]
  BY <1>2, <1>3 DEF TypeOK
<1>5. /\ plans[i].status \in Statuses /\ plans[i].revision = Len(written[i]) + 1
      /\ written[i] \in Seq(S)
  BY <1>2, <1>3, PlanShapes
<1> HIDE DEF S
<1>6. /\ Len(written'[i]) = Len(written[i]) + 1 /\ Len(written[i]) \in Nat
      /\ \A n \in 1..Len(written[i]) : written'[i][n] = written[i][n]
      /\ written'[i][Len(written[i]) + 1] = entry
  BY <1>1, <1>4, <1>5, AppendShapes DEF S
<1> QED BY <1>1, <1>2, <1>3, <1>4, <1>5, <1>6 DEF entry, command, S

LEMMA HistoryStep ==
    ASSUME TypeOK, HandlersHaveRead, HistoryTells, [Next]_vars
    PROVE  HistoryTells'
<1>1. CASE UNCHANGED <<plans, written>>
  BY <1>1 DEF HistoryTells
<1>2. ASSUME NEW m \in requests, NEW j \in Ids, Created(m, j)
      PROVE  HistoryTells'
  <2> DEFINE plan == [owner |-> OwnerOf(m.from), clientID |-> m.command.clientID,
                      request |-> m.command.content, content |-> m.command.content,
                      status |-> "enabled", revision |-> 1]
  <2>1. plan.status = "enabled" /\ plans' = [plans EXCEPT ![j] = plan] /\ written' = written
    BY <1>2 DEF Created
  <2> HIDE DEF plan
  <2>2. plans'[j].status = "enabled" /\ \A i \in Ids : i # j => plans'[i] = plans[i]
    BY <2>1 DEF TypeOK
  <2>3. \A i \in Ids : plans'[i].status = "deleted" => plans[i].status = "deleted"
    BY <2>2
  <2> QED BY <2>1, <2>3 DEF HistoryTells
<1>3. ASSUME NEW h \in handlers, Replaced(h)
      PROVE  HistoryTells'
  <2> DEFINE command == h.request.command
             i == command.id
             entry == [by |-> h.request.from, command |-> command]
             n == Len(written[i])
  <2>1. /\ i \in Ids /\ plans[i].status \in Statuses \ {"deleted"}
        /\ command.revision = n + 1 /\ plans'[i] = Revised(plans[i], command)
        /\ \A j \in Ids : j # i => plans'[j] = plans[j] /\ written'[j] = written[j]
        /\ Len(written'[i]) = n + 1 /\ n \in Nat
        /\ \A k \in 1..n : written'[i][k] = written[i][k]
        /\ written'[i][n + 1] = entry
    BY <1>3, ReplacedShapes
  <2>2. entry.command = command
    OBVIOUS
  <2> HIDE DEF entry, command, n
  <2>3. \A k \in 1..Len(written'[i]) :
            written'[i][k].command.id = i /\ written'[i][k].command.revision = k
    <3>1. \A k \in 1..n : written[i][k].command.id = i /\ written[i][k].command.revision = k
      BY <2>1 DEF HistoryTells, n
    <3>2. \A k \in 1..Len(written'[i]) : k \in 1..n \/ k = n + 1
      BY <2>1
    <3>3. written'[i][n + 1].command.id = i /\ written'[i][n + 1].command.revision = n + 1
      BY <2>1, <2>2
    <3> QED BY <2>1, <3>1, <3>2, <3>3
  <2>4. plans'[i].status = "deleted" => written'[i][Len(written'[i])].command.op = "delete"
    <3>1. plans'[i].status = StatusAfter(command.op, plans[i].status)
      BY <2>1 DEF Revised
    <3>2. StatusAfter(command.op, plans[i].status) = "deleted" => command.op = "delete"
      BY <2>1, StatusShapes
    <3>3. written'[i][Len(written'[i])].command = command
      BY <2>1, <2>2
    <3> QED BY <3>1, <3>2, <3>3
  <2> QED BY <2>1, <2>3, <2>4 DEF HistoryTells
<1> QED BY <1>1, <1>2, <1>3, StoreMoves

LEMMA CreationStep ==
    ASSUME TypeOK, HandlersHaveRead, OnePlanPerClientID, [Next]_vars
    PROVE  OnePlanPerClientID'
<1>1. CASE UNCHANGED <<plans, written>>
  BY <1>1 DEF OnePlanPerClientID
<1>2. ASSUME NEW m \in requests, NEW i \in Ids, Created(m, i)
      PROVE  OnePlanPerClientID'
  <2>1. /\ plans[i] = NoPlan /\ \A j \in Ids : j # i => plans'[j] = plans[j]
        /\ plans'[i].owner = OwnerOf(m.from) /\ plans'[i].clientID = m.command.clientID
    BY <1>2 DEF Created, TypeOK
  <2>2. \A j \in Ids : plans[j] # NoPlan => ~(plans[j].owner = OwnerOf(m.from)
                                              /\ plans[j].clientID = m.command.clientID)
    BY <1>2 DEF Created, Record
  <2> QED BY <2>1, <2>2 DEF OnePlanPerClientID
<1>3. ASSUME NEW h \in handlers, Replaced(h)
      PROVE  OnePlanPerClientID'
  <2>1. \A j \in Ids : plans[j] = NoPlan => plans'[j] = NoPlan
    BY <1>3, ReplacedShapes
  <2> QED BY <2>1, PlansKept DEF OnePlanPerClientID
<1> QED BY <1>1, <1>2, <1>3, StoreMoves

(* The last of some operations, after one more change *)
LEMMA LastOfAppend ==
    ASSUME NEW S, NEW s \in Seq(S), NEW e \in S, NEW ops
    PROVE  LastOf(ops, Append(s, e)) =
               IF e.command.op \in ops THEN {Len(s) + 1} ELSE LastOf(ops, s)
<1> DEFINE t == Append(s, e)
<1>1. /\ Len(t) = Len(s) + 1 /\ Len(s) \in Nat
      /\ \A n \in 1..Len(s) : t[n] = s[n]
      /\ t[Len(s) + 1] = e
  BY AppendShapes
<1> HIDE DEF t
<1>2. CASE e.command.op \in ops
  <2>1. \A n \in 1..Len(t) : n \in LastOf(ops, t) <=> n = Len(s) + 1
    <3>1. Len(s) + 1 \in LastOf(ops, t)
      BY <1>1, <1>2 DEF LastOf
    <3>2. \A n \in 1..Len(s) : n \notin LastOf(ops, t)
      <4> SUFFICES ASSUME NEW n \in 1..Len(s)
                   PROVE  \E k \in (n + 1)..Len(t) : t[k].command.op \in ops
        BY DEF LastOf
      <4>1. Len(s) + 1 \in (n + 1)..Len(t)
        BY <1>1
      <4> QED BY <1>1, <1>2, <4>1
    <3> QED BY <1>1, <3>1, <3>2
  <2>2. LastOf(ops, t) \subseteq 1..Len(t) /\ Len(s) + 1 \in 1..Len(t)
    BY <1>1 DEF LastOf
  <2>3. LastOf(ops, t) = {Len(s) + 1}
    BY <2>1, <2>2
  <2> QED BY <1>2, <2>3 DEF t
<1>3. CASE e.command.op \notin ops
  <2>1. ASSUME NEW n
        PROVE  n \in LastOf(ops, t) <=> n \in LastOf(ops, s)
    <3>1. n \in LastOf(ops, t) => n \in 1..Len(s) /\ t[n].command.op \in ops
      BY <1>1, <1>3 DEF LastOf
    <3>2. ASSUME n \in 1..Len(s)
          PROVE  (\A k \in (n + 1)..Len(t) : t[k].command.op \notin ops)
                    <=> (\A k \in (n + 1)..Len(s) : s[k].command.op \notin ops)
      BY <1>1, <1>3, <3>2
    <3> QED BY <1>1, <3>1, <3>2 DEF LastOf
  <2>2. LastOf(ops, t) = LastOf(ops, s)
    BY <2>1
  <2> QED BY <1>3, <2>2 DEF t
<1> QED BY <1>2, <1>3

LEMMA ChangesStep ==
    ASSUME TypeOK, HandlersHaveRead, NoChangeIsLost, [Next]_vars
    PROVE  NoChangeIsLost'
<1> DEFINE Kept(i) ==
        /\ \A n \in LastOf({"update"}, written[i]) :
              plans[i].content = written[i][n].command.content
        /\ \A n \in LastOf({"pause", "resume", "delete"}, written[i]) :
              plans[i].status = StatusAfter(written[i][n].command.op, "none")
<1>1. (\A i \in Ids : Kept(i)) /\ ((\A i \in Ids : Kept(i)') => NoChangeIsLost')
  BY DEF NoChangeIsLost
<1>2. CASE UNCHANGED <<plans, written>>
  BY <1>1, <1>2
<1>3. ASSUME NEW m \in requests, NEW j \in Ids, Created(m, j)
      PROVE  NoChangeIsLost'
  <2>1. written' = written /\ \A i \in Ids : i # j => plans'[i] = plans[i]
    BY <1>3 DEF Created, TypeOK
  <2>2. written[j] = <<>>
    BY <1>3, PlanShapes DEF Created
  <2>3. \A ops : LastOf(ops, written[j]) = {}
    BY <2>2 DEF LastOf
  <2>4. \A i \in Ids : Kept(i)'
    BY <1>1, <2>1, <2>3
  <2> QED BY <1>1, <2>4
<1>4. ASSUME NEW h \in handlers, Replaced(h)
      PROVE  NoChangeIsLost'
  <2> DEFINE command == h.request.command
             i == command.id
             entry == [by |-> h.request.from, command |-> command]
             n == Len(written[i])
  <2>1. /\ i \in Ids /\ plans[i].status \in Statuses /\ command \in AllCommands
        /\ plans'[i] = Revised(plans[i], command)
        /\ \A j \in Ids : j # i => plans'[j] = plans[j] /\ written'[j] = written[j]
        /\ written'[i] = Append(written[i], entry)
        /\ written[i] \in Seq([by : Products, command : ChangeCommands])
        /\ entry \in [by : Products, command : ChangeCommands]
        /\ n \in Nat /\ \A k \in 1..n : written'[i][k] = written[i][k]
        /\ written'[i][n + 1] = entry
    BY <1>4, ReplacedShapes
  <2>2. entry.command = command
    OBVIOUS
  <2> HIDE DEF entry, command
  <2>3. /\ plans'[i].content = IF command.op = "update" THEN command.content ELSE plans[i].content
        /\ plans'[i].status = StatusAfter(command.op, plans[i].status)
    BY <2>1 DEF Revised
  <2>4. \A ops : LastOf(ops, written'[i]) =
            IF command.op \in ops THEN {n + 1} ELSE LastOf(ops, written[i])
    <3> DEFINE S == [by : Products, command : ChangeCommands]
               s == written[i]
    <3>1. s \in Seq(S) /\ entry \in S /\ written'[i] = Append(s, entry) /\ n = Len(s)
      BY <2>1
    <3> HIDE DEF S, s
    <3>2. \A ops : LastOf(ops, Append(s, entry)) =
              IF entry.command.op \in ops THEN {Len(s) + 1} ELSE LastOf(ops, s)
      BY <3>1, LastOfAppend
    <3>3. \A ops : LastOf(ops, written'[i]) =
              IF command.op \in ops THEN {n + 1} ELSE LastOf(ops, s)
      BY <2>2, <3>1, <3>2
    <3> QED BY <3>3 DEF s
  <2>5. \A ops : \A k \in LastOf(ops, written[i]) : k \in 1..n
    BY DEF LastOf
  <2>6. \A k \in LastOf({"update"}, written'[i]) :
            plans'[i].content = written'[i][k].command.content
    <3>1. CASE command.op = "update"
      <4>1. LastOf({"update"}, written'[i]) = {n + 1}
        BY <2>4, <3>1
      <4> QED BY <2>1, <2>2, <2>3, <3>1, <4>1
    <3>2. CASE command.op # "update"
      <4>1. LastOf({"update"}, written'[i]) = LastOf({"update"}, written[i])
        BY <2>4, <3>2
      <4>2. \A k \in LastOf({"update"}, written[i]) :
                /\ k \in 1..n /\ written'[i][k] = written[i][k]
                /\ plans[i].content = written[i][k].command.content
        BY <1>1, <2>1, <2>5
      <4>3. plans'[i].content = plans[i].content
        BY <2>3, <3>2
      <4> QED BY <4>1, <4>2, <4>3
    <3> QED BY <3>1, <3>2
  <2>7. \A k \in LastOf({"pause", "resume", "delete"}, written'[i]) :
            plans'[i].status = StatusAfter(written'[i][k].command.op, "none")
    <3>1. CASE command.op \in {"pause", "resume", "delete"}
      <4>1. plans'[i].status = StatusAfter(command.op, "none")
        BY <2>1, <2>3, <3>1, StatusShapes
      <4>2. LastOf({"pause", "resume", "delete"}, written'[i]) = {n + 1}
        BY <2>4, <3>1
      <4> QED BY <2>1, <2>2, <4>1, <4>2
    <3>2. CASE command.op \notin {"pause", "resume", "delete"}
      <4>1. plans'[i].status = plans[i].status
        BY <2>1, <2>3, <3>2, StatusShapes
      <4>2. LastOf({"pause", "resume", "delete"}, written'[i])
              = LastOf({"pause", "resume", "delete"}, written[i])
        BY <2>4, <3>2
      <4>3. \A k \in LastOf({"pause", "resume", "delete"}, written[i]) :
                /\ k \in 1..n /\ written'[i][k] = written[i][k]
                /\ plans[i].status = StatusAfter(written[i][k].command.op, "none")
        BY <1>1, <2>1, <2>5
      <4> QED BY <4>1, <4>2, <4>3
    <3> QED BY <3>1, <3>2
  <2>8. Kept(i)'
    BY <2>6, <2>7
  <2>9. \A j \in Ids : j # i => Kept(j)'
    BY <1>1, <2>1
  <2> QED BY <1>1, <2>8, <2>9
<1> QED BY <1>2, <1>3, <1>4, StoreMoves

-----------------------------------------------------------------------------
(* The truth of the answers *)

LEMMA SameDeletion ==
    ASSUME NEW c \in ChangeCommands, NEW d \in ChangeCommands,
           c.op = "delete", d.op = "delete", c.id = d.id, c.revision = d.revision
    PROVE  c = d
BY DEF ChangeCommands

(* What a page tells: no visible plan lies between the cursor and it. *)
PageTells(p, id, cursor) ==
    /\ id \in {0} \cup Ids
    /\ \A i \in Visible(OwnerOf(p)) : i > cursor => id # 0 /\ id <= i

(* What an answer has to tell, once its step is taken *)
Tells(m, status, body) ==
    status = 200 =>
        IF m.command.op = "list" THEN PageTells(m.from, body.id, m.command.cursor)
        ELSE Truthful(m.from, m.command, body)'

LEMMA AnswerTells ==
    ASSUME NEW m, NEW status, NEW body, Answer(m, status, body)
    PROVE  \A r \in responses' :
              r \in responses \/ (/\ OfCall(m) /\ r.to = m.from /\ r.status = status
                                /\ r.body = body)
BY DEF Answer

(* A plan shown as it now is tells the truth of a command that needs no    *)
(* more.                                                                   *)
LEMMA ShownIsTrue ==
    ASSUME TypeOK, [Next]_vars, UNCHANGED <<plans, written>>, NEW m \in UnderWay, NEW i \in Ids,
           plans[i] # NoPlan, plans[i].owner = OwnerOf(m.from), NEW body,
           body = Shown(i, plans[i]), m.command.op \in {"create", "get", "deletion"},
           m.command.op = "create" => /\ plans[i].clientID = m.command.clientID
                                      /\ plans[i].request = m.command.content,
           m.command.op = "deletion" => plans[i].status = "deleted"
    PROVE  Tells(m, 200, body)
<1>1. /\ body.id = i /\ body.revision = plans[i].revision /\ body.status = plans[i].status
  BY DEF Shown
<1>2. body.revision \in 1..plans[i].revision
  BY <1>1, PlanShapes
<1>3. m.command \notin ChangeCommands /\ m.command.op \notin {"list", "delete"}
  BY DEF ChangeCommands
<1>4. Knows(m.from, i, body.revision)'
  BY <1>2, PartiesKept DEF Knows
<1>5. Truthful(m.from, m.command, body)'
  BY <1>1, <1>3, <1>4 DEF Truthful, Shown
<1> QED BY <1>3, <1>5 DEF Tells

LEMMA CreateTells ==
    ASSUME TypeOK, NEW m \in requests, HandleCreate(m)
    PROVE  \E status, body : Answer(m, status, body) /\ Tells(m, status, body)
<1> DEFINE owner == OwnerOf(m.from)
<1>1. m \in UnderWay /\ m.command.op = "create" /\ [Next]_vars
  BY DEF UnderWay, HandleCreate, Next
<1>2. ASSUME NEW i \in Record(owner, m.command), UNCHANGED plans,
             IF plans[i].request = m.command.content
             THEN Answer(m, 200, Shown(i, plans[i])) ELSE Answer(m, 409, NoPlan)
      PROVE  \E status, body : Answer(m, status, body) /\ Tells(m, status, body)
  <2>1. CASE plans[i].request = m.command.content
    <3>1. PICK body : body = Shown(i, plans[i])
      OBVIOUS
    <3>2. Answer(m, 200, body)
      BY <1>2, <2>1, <3>1
    <3>3. i \in Ids /\ plans[i] # NoPlan /\ plans[i].owner = owner
          /\ plans[i].clientID = m.command.clientID
      BY DEF Record
    <3>4. UNCHANGED <<plans, written>>
      BY <1>2 DEF HandleCreate
    <3>5. Tells(m, 200, body)
      BY <1>1, <2>1, <3>1, <3>3, <3>4, ShownIsTrue
    <3> QED BY <3>2, <3>5
  <2>2. CASE plans[i].request # m.command.content
    BY <1>2, <2>2 DEF Tells
  <2> QED BY <2>1, <2>2
<1>3. ASSUME NEW i \in Ids, plans[i] = NoPlan,
             LET plan == [owner |-> owner, clientID |-> m.command.clientID,
                          request |-> m.command.content, content |-> m.command.content,
                          status |-> "enabled", revision |-> 1]
             IN  plans' = [plans EXCEPT ![i] = plan] /\ Answer(m, 200, Shown(i, plan))
      PROVE  \E status, body : Answer(m, status, body) /\ Tells(m, status, body)
  <2> DEFINE plan == [owner |-> owner, clientID |-> m.command.clientID,
                      request |-> m.command.content, content |-> m.command.content,
                      status |-> "enabled", revision |-> 1]
  <2>1. /\ plan.owner = owner /\ plan.clientID = m.command.clientID
        /\ plan.request = m.command.content /\ plan.revision = 1 /\ plan.status = "enabled"
    OBVIOUS
  <2>2. plans' = [plans EXCEPT ![i] = plan] /\ Answer(m, 200, Shown(i, plan))
    BY <1>3
  <2> HIDE DEF plan
  <2>3. PICK body : body = Shown(i, plan)
    OBVIOUS
  <2>4. plans'[i] = plan /\ body.id = i /\ body.revision = 1
    BY <2>1, <2>2, <2>3 DEF TypeOK, Shown
  <2>5. plan # NoPlan
    BY <2>1 DEF NoPlan
  <2>6. Knows(m.from, i, body.revision)'
    BY <1>1, <2>1, <2>4, <2>5, PartiesKept DEF Knows
  <2>7. m.command \notin ChangeCommands
    BY <1>1 DEF ChangeCommands
  <2>8. Truthful(m.from, m.command, body)'
    BY <1>1, <2>1, <2>4, <2>6, <2>7 DEF Truthful
  <2> QED BY <1>1, <2>2, <2>3, <2>8 DEF Tells
<1> QED BY <1>2, <1>3 DEF HandleCreate

LEMMA ReadTells ==
    ASSUME TypeOK, NEW m \in requests, HandleRead(m)
    PROVE  \E status, body : Answer(m, status, body) /\ Tells(m, status, body)
<1> DEFINE owner == OwnerOf(m.from)
           i == m.command.id
<1>1. m \in UnderWay /\ m.command.op \in {"get", "deletion"} /\ [Next]_vars
      /\ UNCHANGED <<plans, written>>
  BY DEF UnderWay, HandleRead, Next, store
<1>2. i \in Ids
  BY <1>1, MessagesAreTyped, CommandShapes
<1>3. CASE Answer(m, 404, NoPlan)
  BY <1>3 DEF Tells
<1>4. CASE /\ Answer(m, 200, Shown(i, plans[i]))
           /\ i \in IF m.command.op = "get" THEN Visible(owner)
                    ELSE {j \in Ids : Tombstone(j, owner)}
  <2>1. PICK body : body = Shown(i, plans[i])
    OBVIOUS
  <2>2. plans[i].owner = owner /\ plans[i] # NoPlan
        /\ (m.command.op = "deletion" => plans[i].status = "deleted")
    BY <1>1, <1>2, <1>4, PlanShapes DEF Visible, Tombstone, Statuses
  <2>3. Tells(m, 200, body)
    BY <1>1, <1>2, <2>1, <2>2, ShownIsTrue
  <2> QED BY <1>4, <2>1, <2>3
<1> QED BY <1>3, <1>4 DEF HandleRead

LEMMA ListTells ==
    ASSUME TypeOK, NEW m \in requests, HandleList(m)
    PROVE  \E status, body : Answer(m, status, body) /\ Tells(m, status, body)
<1> DEFINE owner == OwnerOf(m.from)
           cursor == m.command.cursor
           after == {i \in Visible(owner) : i > cursor}
<1>1. m.command.op = "list"
  BY DEF HandleList
<1>2. after \subseteq Ids /\ after \subseteq Nat /\ Ids \subseteq Nat \ {0}
  BY PlansAreNumbered DEF Visible
<1>3. ASSUME NEW i \in Page(owner, cursor), Answer(m, 200, Shown(i, plans[i]))
      PROVE  \E status, body : Answer(m, status, body) /\ Tells(m, status, body)
  <2>1. PICK body : body = Shown(i, plans[i])
    OBVIOUS
  <2>2. body.id = i
    BY <2>1 DEF Shown
  <2>3. i \in after /\ \A j \in after : i <= j
    BY DEF Page
  <2>4. PageTells(m.from, i, cursor)
    BY <1>2, <2>3 DEF PageTells
  <2> QED BY <1>1, <1>3, <2>1, <2>2, <2>4 DEF Tells
<1>4. ASSUME Page(owner, cursor) = {}, Answer(m, 200, [id |-> 0])
      PROVE  \E status, body : Answer(m, status, body) /\ Tells(m, status, body)
  <2>1. PICK body : body = [id |-> 0]
    OBVIOUS
  <2>2. after = {}
    <3>1. ASSUME after # {}
          PROVE  FALSE
      <4> HIDE DEF after
      <4>1. PICK i \in after : \A j \in after : i <= j
        BY <1>2, <3>1, LeastOf
      <4>2. i \in Page(owner, cursor)
        BY <4>1 DEF Page, after
      <4> QED BY <1>4, <4>2
    <3> QED BY <3>1
  <2>3. PageTells(m.from, 0, cursor)
    BY <2>2 DEF PageTells
  <2> QED BY <1>1, <1>4, <2>1, <2>3 DEF Tells
<1> QED BY <1>3, <1>4 DEF HandleList

(* A deletion repeated on its tombstone made it: what made the revision    *)
(* after the expected one is that deletion.                                *)
LEMMA ReplayTells ==
    ASSUME TypeOK, KnowledgeIsReal, HistoryTells, NEW m \in requests, ReadForChange(m),
           DeletionReplay(OwnerOf(m.from), m.command),
           NEW body, body = Shown(m.command.id, plans[m.command.id])
    PROVE  Tells(m, 200, body)
<1> DEFINE command == m.command
           i == command.id
           n == command.revision
<1>1. /\ command.op = "delete" /\ plans[i].status = "deleted"
      /\ plans[i].owner = OwnerOf(m.from) /\ plans[i].revision = n + 1
  BY DEF DeletionReplay, Tombstone
<1>2. m \in UnderWay /\ m.command \in AllCommands /\ [Next]_vars
  BY MessagesAreTyped DEF UnderWay, Next
<1>3. command \in ChangeCommands /\ i \in Ids /\ n \in Nat \ {0}
  BY <1>1, <1>2, CommandShapes DEF IsChange
<1>4. plans[i] # NoPlan /\ Len(written[i]) = n
      /\ written[i] \in Seq([by : Products, command : ChangeCommands])
  <2>1. /\ plans[i] # NoPlan <=> plans[i].status \in Statuses
        /\ plans[i] # NoPlan => plans[i].revision = Len(written[i]) + 1
        /\ Len(written[i]) \in Nat
        /\ written[i] \in Seq([by : Products, command : ChangeCommands])
    BY <1>3, PlanShapes
  <2>2. plans[i] # NoPlan /\ n + 1 = Len(written[i]) + 1
    BY <1>1, <2>1 DEF Statuses
  <2> QED BY <1>3, <2>1, <2>2
<1>5. written[i][n].command = command
  <2>1. written[i] # <<>> /\ n \in 1..Len(written[i])
    BY <1>3, <1>4
  <2>2. /\ written[i][n].command.id = i /\ written[i][n].command.revision = n
        /\ written[i][n].command.op = "delete"
    BY <1>1, <1>3, <1>4, <2>1 DEF HistoryTells
  <2>3. written[i][n].command \in ChangeCommands
    <3>1. written[i][n] \in [by : Products, command : ChangeCommands]
      BY <1>4, <2>1, ElementOfSeq
    <3> QED BY <3>1
  <2> QED BY <1>1, <1>3, <2>2, <2>3, SameDeletion
<1>6. UNCHANGED <<plans, written>>
  BY DEF ReadForChange
<1>7. /\ body.id = i /\ body.revision = n + 1 /\ body.status = "deleted"
      /\ body = Shown(i, plans[i])
  BY <1>1 DEF Shown
<1>8. Knows(m.from, i, n + 1)'
  BY <1>1, <1>2, <1>3, <1>4, <1>6, PartiesKept DEF Knows
<1>9. Truthful(m.from, m.command, body)'
  BY <1>1, <1>3, <1>5, <1>6, <1>7, <1>8 DEF Truthful, Shown
<1> QED BY <1>1, <1>9 DEF Tells

LEMMA ReadForChangeTells ==
    ASSUME TypeOK, KnowledgeIsReal, HistoryTells, NEW m \in requests, ReadForChange(m)
    PROVE  \/ UNCHANGED responses
           \/ \E status, body : Answer(m, status, body) /\ Tells(m, status, body)
<1>1. CASE UNCHANGED responses
  BY <1>1
<1>2. CASE Answer(m, 404, NoPlan)
  BY <1>2 DEF Tells
<1>3. CASE /\ DeletionReplay(OwnerOf(m.from), m.command)
           /\ Answer(m, 200, Shown(m.command.id, plans[m.command.id]))
  <2>1. PICK body : body = Shown(m.command.id, plans[m.command.id])
    OBVIOUS
  <2>2. Tells(m, 200, body)
    BY <1>3, <2>1, ReplayTells
  <2> QED BY <1>3, <2>1, <2>2
<1> QED BY <1>1, <1>2, <1>3 DEF ReadForChange

LEMMA ReplaceTells ==
    ASSUME TypeOK, HandlersHaveRead, KnowledgeIsReal, NEW h \in handlers, ReplacePlan(h)
    PROVE  \E status, body : Answer(h.request, status, body) /\ Tells(h.request, status, body)
<1> DEFINE m == h.request
           command == m.command
           i == command.id
           n == command.revision
           plan == Revised(plans[i], command)
<1>1. CASE Answer(m, 409, NoPlan)
  BY <1>1 DEF Tells
<1>2. CASE Replaced(h) /\ Answer(m, 200, Shown(i, plan))
  <2>1. PICK body : body = Shown(i, plan)
    OBVIOUS
  <2>2. /\ command \in ChangeCommands /\ i \in Ids /\ command \in AllCommands
        /\ plans[i] # NoPlan /\ plans[i].status \in Statuses
        /\ plans[i].revision = n /\ n = Len(written[i]) + 1 /\ Len(written[i]) \in Nat
        /\ plans'[i] = plan /\ written'[i][n] = [by |-> m.from, command |-> command]
    BY <1>2, ReplacedShapes
  <2>3. m \in UnderWay /\ [Next]_vars
    BY DEF UnderWay, Next
  <2>4. plans[i].owner = OwnerOf(m.from)
    BY <2>2, <2>3 DEF KnowledgeIsReal, Knows
  <2>5. /\ plan.owner = plans[i].owner /\ plan.revision = n + 1
        /\ plan.status = StatusAfter(command.op, plans[i].status)
    BY <2>2 DEF Revised
  <2>6. /\ body.id = i /\ body.revision = n + 1 /\ body.status = plan.status
    BY <2>1, <2>5 DEF Shown
  <2>7. plan # NoPlan
    BY <2>2, PlansKept, <1>2, <2>3
  <2>8. Knows(m.from, i, n + 1)'
    BY <2>2, <2>3, <2>4, <2>5, <2>7, PartiesKept DEF Knows
  <2>9. command.op = "delete" => body.status = "deleted"
    BY <2>5, <2>6 DEF StatusAfter
  <2>10. command.op \notin {"create", "list", "deletion"}
    BY <2>2, CommandShapes DEF IsChange
  <2>11. written'[i][n].command = command
    BY <2>2
  <2> HIDE DEF plan
  <2>12. Shown(i, plans'[i]) = body
    BY <2>1, <2>2
  <2>13. Truthful(m.from, command, body)'
    BY <2>2, <2>6, <2>8, <2>9, <2>10, <2>11, <2>12 DEF Truthful, Shown
  <2>14. Tells(m, 200, body)
    BY <2>10, <2>13 DEF Tells
  <2> QED BY <1>2, <2>1, <2>14 DEF plan
<1> QED BY <1>1, <1>2, ReplaceMoves

LEMMA RefuseTells ==
    ASSUME NEW m \in requests, Refuse(m)
    PROVE  \E status, body : Answer(m, status, body) /\ Tells(m, status, body)
<1>1. PICK status \in {400, 501} : Answer(m, status, NoPlan)
  BY DEF Refuse
<1> QED BY <1>1 DEF Tells

LEMMA NewAnswersTell ==
    ASSUME TypeOK, KnowledgeIsReal, HandlersHaveRead, HistoryTells, Scheduler
    PROVE  \A r \in responses' :
              \/ r \in responses
              \/ \E m \in UnderWay :
                    OfCall(m) /\ r.to = m.from /\ Tells(m, r.status, r.body)
<1>1. ASSUME NEW m \in UnderWay,
             \E status, body : Answer(m, status, body) /\ Tells(m, status, body)
      PROVE  \A r \in responses' :
                r \in responses \/ (OfCall(m) /\ r.to = m.from /\ Tells(m, r.status, r.body))
  <2>1. PICK status, body : Answer(m, status, body) /\ Tells(m, status, body)
    BY <1>1
  <2>2. \A r \in responses' : r \in responses \/ (/\ OfCall(m) /\ r.to = m.from
                                                 /\ r.status = status /\ r.body = body)
    BY <2>1, AnswerTells
  <2> QED BY <2>1, <2>2 DEF Tells
<1>2. ASSUME NEW m \in requests,
             HandleCreate(m) \/ HandleRead(m) \/ HandleList(m) \/ ReadForChange(m) \/ Refuse(m)
      PROVE  \/ UNCHANGED responses
             \/ \E status, body : Answer(m, status, body) /\ Tells(m, status, body)
  BY <1>2, CreateTells, ReadTells, ListTells, ReadForChangeTells, RefuseTells
<1>3. ASSUME NEW h \in handlers, ReplacePlan(h)
      PROVE  \E status, body : Answer(h.request, status, body) /\ Tells(h.request, status, body)
  BY <1>3, ReplaceTells
<1>4. requests \subseteq UnderWay /\ \A h \in handlers : h.request \in UnderWay
  BY DEF UnderWay
<1> QED BY <1>1, <1>2, <1>3, <1>4 DEF Scheduler

(* No response waits for a product that has made a step. *)
LEMMA WorkLeavesNoResponse ==
    ASSUME TypeOK, AnsweredOnce, NEW p \in Products, Work(p)
    PROVE  responses' \subseteq responses /\ \A r \in responses' : r.to # p
<1>1. \A r \in responses : product[r.to].state = "awaiting"
      /\ \A s \in responses : s.to = r.to => s = r
  BY DEF AnsweredOnce
<1>2. CASE Call(p) \/ Send(p)
  BY <1>1, <1>2 DEF Call, Send
<1>3. CASE TransportError(p)
  BY <1>3 DEF TransportError
<1>4. CASE Receive(p)
  <2>1. PICK r \in responses : r.to = p /\ responses' = responses \ {r}
    BY <1>4 DEF Receive
  <2> QED BY <1>1, <2>1
<1> QED BY <1>2, <1>3, <1>4 DEF Work

LEMMA AnswersStep ==
    ASSUME TypeOK, OneCallAtATime, AnsweredOnce, HandlersHaveRead, KnowledgeIsReal,
           HistoryTells, AnswersAreTrue, [Next]_vars
    PROVE  AnswersAreTrue'
<1>1. \A p, command, receipt :
          Truthful(p, command, receipt) => Truthful(p, command, receipt)'
  BY TruthKept
<1>2. \A r \in responses : r.to \in Products
  BY DEF TypeOK
<1>3. ASSUME NEW p \in Products, Work(p)
      PROVE  AnswersAreTrue'
  <2>1. \A q \in Products : q # p => product'[q] = product[q]
    BY <1>3, CallMoves, SendMoves, ErrorMoves, ReceiveMoves DEF Work
  <2>2. ASSUME product'[p].result = "done", product'[p].command.op # "list"
        PROVE  Truthful(p, product'[p].command, product'[p].receipt)
    <3>1. CASE Call(p)
      <4>1. product'[p].result \in {"none", "mismatch"}
        BY <3>1, CallMoves
      <4> QED BY <2>2, <4>1
    <3>2. CASE Send(p)
      <4>1. /\ product'[p].command = product[p].command
            /\ product'[p].result = product[p].result
            /\ product'[p].receipt = product[p].receipt
        BY <3>2, SendMoves
      <4> QED BY <2>2, <4>1 DEF AnswersAreTrue
    <3>3. CASE TransportError(p)
      BY <2>2, <3>3, ErrorMoves
    <3>4. CASE Receive(p)
      <4>1. PICK r \in responses : Learns(p, r)
        BY <3>4, ReceiveMoves
      <4>2. /\ r.to = p /\ product'[p].command = product[p].command
            /\ product'[p].receipt = r.body
            /\ product'[p].result = IF r.status = 200 THEN "done"
                                    ELSE ErrorOf(product[p].command.op, r.status)
        BY <4>1 DEF Learns
      <4>3. ErrorOf(product[p].command.op, r.status) # "done"
        BY DEF ErrorOf
      <4>4. r.status = 200
        BY <2>2, <4>2, <4>3
      <4> QED BY <2>2, <4>2, <4>4 DEF AnswersAreTrue
    <3> QED BY <1>3, <3>1, <3>2, <3>3, <3>4 DEF Work
  <2>3. \A r \in responses' : r \in responses /\ r.to # p
    BY <1>3, WorkLeavesNoResponse
  <2>4. \A r \in responses' :
            r.status = 200 /\ product'[r.to].command.op # "list"
                => Truthful(r.to, product[r.to].command, r.body)'
    BY <1>1, <1>2, <2>1, <2>3 DEF AnswersAreTrue
  <2>5. \A q \in Products :
            product'[q].result = "done" /\ product'[q].command.op # "list"
                => Truthful(q, product[q].command, product[q].receipt)'
    BY <1>1, <2>1, <2>2 DEF AnswersAreTrue
  <2> QED BY <2>4, <2>5 DEF AnswersAreTrue
<1>4. CASE Scheduler
  <2>1. product' = product
    BY <1>4, SchedulerMoves
  <2>2. ASSUME NEW r \in responses', r.status = 200, product[r.to].command.op # "list"
        PROVE  Truthful(r.to, product[r.to].command, r.body)'
    <3>1. CASE r \in responses
      BY <1>1, <2>1, <2>2, <3>1 DEF AnswersAreTrue
    <3>2. ASSUME NEW m \in UnderWay, OfCall(m), r.to = m.from, Tells(m, r.status, r.body)
          PROVE  Truthful(r.to, product[r.to].command, r.body)'
      <4>1. m.command = product[r.to].command
        BY <3>2 DEF OneCallAtATime
      <4> QED BY <2>1, <2>2, <3>2, <4>1 DEF Tells
    <3> QED BY <1>4, <3>1, <3>2, NewAnswersTell
  <2>3. \A p \in Products :
            product[p].result = "done" /\ product[p].command.op # "list"
                => Truthful(p, product[p].command, product[p].receipt)'
    BY <1>1, <2>1 DEF AnswersAreTrue
  <2> QED BY <2>1, <2>2, <2>3 DEF AnswersAreTrue
<1>5. CASE UNCHANGED vars
  BY <1>1, <1>5 DEF vars, AnswersAreTrue
<1> QED BY <1>3, <1>4, <1>5 DEF Next, Scheduler

-----------------------------------------------------------------------------
(* Listings *)

(* ListingsSkipNone, of one product *)
SkipsNone(p) ==
    LET command == product[p].command
        cursor == listing[p].cursor
    IN  /\ since[p] \subseteq Visible(OwnerOf(p))
        /\ \A i \in since[p] : i <= cursor => i \in listing[p].found
        /\ listing[p].complete => since[p] \subseteq listing[p].found
        /\ command.op = "list" =>
              /\ product[p].state # "idle" \/ product[p].result = "unknown"
                    => command.cursor = cursor
              /\ product[p].state # "idle" => ~listing[p].complete
              /\ \A r \in responses : r.to = p /\ r.status = 200 =>
                    /\ r.body.id \in {0} \cup Ids
                    /\ \A i \in since[p] : i > cursor => r.body.id # 0 /\ r.body.id <= i

LEMMA CallSkipsNone ==
    ASSUME TypeOK, AnsweredOnce, KnowledgeIsReal, NEW p \in Products, Call(p), SkipsNone(p)
    PROVE  SkipsNone(p)'
<1>1. UNCHANGED <<listing, since, plans, responses>> /\ product[p].state = "idle"
  BY DEF Call, pages, store
<1>2. Visible(OwnerOf(p))' = Visible(OwnerOf(p))
  BY <1>1, PartiesKept DEF Visible, Call, OwnerOf
<1>3. \A r \in responses : r.to # p
  BY <1>1 DEF AnsweredOnce
<1>4. \/ /\ product'[p].state = "sending"
         /\ product'[p].command.op = "list" => ~listing[p].complete
         /\ product'[p].command \in IF product[p].result = "unknown"
                                    THEN {product[p].command} ELSE Commands(p)
      \/ /\ product'[p].state = "idle" /\ product'[p].result = "mismatch"
  BY <1>1, CallMoves
<1>5. product'[p].command.op = "list" =>
          /\ product'[p].state # "idle" \/ product'[p].result = "unknown"
                => product'[p].command.cursor = listing[p].cursor
          /\ product'[p].state # "idle" => ~listing[p].complete
  BY <1>4, NewCommands DEF SkipsNone
<1> QED BY <1>1, <1>2, <1>3, <1>5 DEF SkipsNone

LEMMA SendSkipsNone ==
    ASSUME TypeOK, OneCallAtATime, AnsweredOnce, NEW p \in Products, Send(p), SkipsNone(p)
    PROVE  SkipsNone(p)'
<1>1. UNCHANGED <<listing, plans, responses>> /\ product[p].state = "sending"
  BY DEF Send, store
<1>2. Visible(OwnerOf(p))' = Visible(OwnerOf(p))
  BY <1>1 DEF Visible, Send, OwnerOf
<1>3. \A r \in responses : r.to # p
  BY <1>1 DEF AnsweredOnce
<1>4. product'[p].state = "awaiting" /\ product'[p].command = product[p].command
  BY SendMoves
<1>5. CASE product[p].command = [op |-> "list", cursor |-> 0]
  <2>1. since'[p] = Visible(OwnerOf(p))
    BY <1>5 DEF Send, TypeOK
  <2>2. product[p].command.op = "list" /\ listing[p].cursor = 0 /\ ~listing[p].complete
    BY <1>1, <1>5 DEF SkipsNone
  <2>3. \A i \in Visible(OwnerOf(p)) : ~(i <= 0)
    BY PlansAreNumbered DEF Visible
  <2>4. product[p].command.cursor = listing[p].cursor
    BY <1>1, <2>2 DEF SkipsNone
  <2> QED BY <1>1, <1>2, <1>3, <1>4, <2>1, <2>2, <2>3, <2>4 DEF SkipsNone
<1>6. CASE since' = since
  BY <1>1, <1>2, <1>3, <1>4, <1>6 DEF SkipsNone
<1> QED BY <1>5, <1>6 DEF Send

LEMMA ErrorSkipsNone ==
    ASSUME TypeOK, AnsweredOnce, NEW p \in Products, TransportError(p), SkipsNone(p)
    PROVE  SkipsNone(p)'
<1>1. UNCHANGED <<listing, since, plans>> /\ product[p].state = "awaiting"
  BY DEF TransportError, pages, store
<1>2. Visible(OwnerOf(p))' = Visible(OwnerOf(p))
  BY <1>1 DEF Visible, TransportError, OwnerOf
<1>3. \A r \in responses' : r.to # p
  BY DEF TransportError
<1>4. product'[p].state = "idle" /\ product'[p].command = product[p].command
  BY ErrorMoves
<1> QED BY <1>1, <1>2, <1>3, <1>4 DEF SkipsNone

LEMMA ReceiveSkipsNone ==
    ASSUME TypeOK, AnsweredOnce, NEW p \in Products, Receive(p), SkipsNone(p)
    PROVE  SkipsNone(p)'
<1>1. UNCHANGED <<since, plans, party>>
  BY ReceiveKeeps DEF store
<1>2. Visible(OwnerOf(p))' = Visible(OwnerOf(p))
  BY <1>1 DEF Visible, OwnerOf
<1>3. \A r \in responses' : r.to # p
  BY WorkLeavesNoResponse DEF Work
<1>4. PICK r \in responses : Learns(p, r)
  BY ReceiveMoves
<1>5. /\ r.to = p /\ product'[p].state = "idle" /\ product'[p].command = product[p].command
      /\ product'[p].result = IF r.status = 200 THEN "done"
                              ELSE ErrorOf(product[p].command.op, r.status)
      /\ product[p].state = "awaiting"
  BY <1>4 DEF Learns, AnsweredOnce
<1>6. since[p] \subseteq Ids /\ Ids \subseteq Nat \ {0} /\ listing[p].cursor \in {0} \cup Ids
  BY PlansAreNumbered DEF TypeOK
<1>7. CASE listing' = listing
  BY <1>1, <1>2, <1>3, <1>5, <1>7 DEF SkipsNone
<1>8. CASE r.status = 200 /\ product[p].command.op = "list"
  <2> DEFINE id == r.body.id
             page == [cursor |-> id, found |-> listing[p].found \cup ({id} \ {0}),
                      complete |-> id = 0]
  <2>1. listing' = [listing EXCEPT ![p] = page]
    BY <1>4, <1>8 DEF Learns
  <2>2. /\ listing'[p].cursor = id /\ listing'[p].found = listing[p].found \cup ({id} \ {0})
        /\ listing'[p].complete <=> id = 0
    BY <2>1 DEF TypeOK
  <2>3. /\ id \in {0} \cup Ids
        /\ \A i \in since[p] : i > listing[p].cursor => id # 0 /\ id <= i
        /\ \A i \in since[p] : i <= listing[p].cursor => i \in listing[p].found
    BY <1>5, <1>8 DEF SkipsNone
  <2> HIDE DEF id
  <2> listing[p].cursor \in Nat
    BY CursorsAreNumbers
  <2> id \in Nat
    BY <1>6, <2>3
  <2> \A i \in since[p] : i \in Nat
    BY <1>6
  <2>4. \A i \in since[p] : i <= id => i \in listing'[p].found
    <3> SUFFICES ASSUME NEW i \in since[p], i <= id
                 PROVE  i \in listing[p].found \/ i \in {id} \ {0}
      BY <2>2
    <3>1. CASE i <= listing[p].cursor
      BY <2>3, <3>1
    <3>2. CASE i > listing[p].cursor
      BY <1>6, <2>3, <3>2
    <3> QED BY <1>6, <3>1, <3>2
  <2>5. id = 0 => since[p] \subseteq listing'[p].found
    <3> SUFFICES ASSUME id = 0, NEW i \in since[p]
                 PROVE  i \in listing[p].found
      BY <2>2
    <3>1. i <= listing[p].cursor
      BY <1>6, <2>3
    <3> QED BY <2>3, <3>1
  <2>6. product'[p].result = "done"
    BY <1>5, <1>8
  <2> QED BY <1>1, <1>2, <1>3, <1>5, <2>2, <2>4, <2>5, <2>6 DEF SkipsNone
<1> QED BY <1>4, <1>7, <1>8 DEF Learns

(* A step of the Scheduler takes from what there was all the while only    *)
(* the plan it deletes, and from what is visible no other.                 *)
LEMMA SinceKept ==
    ASSUME TypeOK, HandlersHaveRead, Scheduler, NEW p \in Products,
           since[p] \subseteq Visible(OwnerOf(p))
    PROVE  /\ since'[p] \subseteq since[p] /\ since'[p] \subseteq Visible(OwnerOf(p))'
<1>1. [Next]_vars
  BY DEF Scheduler, Next
<1>2. OwnerOf(p)' = OwnerOf(p) /\ DOMAIN since = Products
  BY <1>1, PartiesKept DEF TypeOK
<1>3. ASSUME NEW m \in requests,
             HandleCreate(m) \/ HandleRead(m) \/ HandleList(m) \/ ReadForChange(m) \/ Refuse(m)
      PROVE  since' = since
  BY <1>3 DEF HandleCreate, HandleRead, HandleList, ReadForChange, Refuse, pages
<1>4. ASSUME UNCHANGED <<plans, since>>
      PROVE  since'[p] \subseteq since[p] /\ since'[p] \subseteq Visible(OwnerOf(p))'
  BY <1>2, <1>4 DEF Visible
<1>5. ASSUME NEW m \in requests, NEW j \in Ids, Created(m, j)
      PROVE  since'[p] \subseteq since[p] /\ since'[p] \subseteq Visible(OwnerOf(p))'
  <2>1. since' = since /\ plans[j] = NoPlan /\ \A i \in Ids : i # j => plans'[i] = plans[i]
    BY <1>5 DEF Created, TypeOK
  <2> QED BY <1>2, <2>1 DEF Visible
<1>6. ASSUME NEW h \in handlers, Replaced(h)
      PROVE  since'[p] \subseteq since[p] /\ since'[p] \subseteq Visible(OwnerOf(p))'
  <2> DEFINE i == h.request.command.id
             plan == Revised(plans[i], h.request.command)
  <2>1. since' = IF plan.status = "deleted" THEN [q \in Products |-> since[q] \ {i}] ELSE since
    BY <1>6 DEF Replaced
  <2>2. /\ i \in Ids /\ plans'[i] = plan
        /\ \A j \in Ids : j # i => plans'[j] = plans[j]
        /\ plans[i] # NoPlan
    BY <1>6, ReplacedShapes
  <2>3. plan # NoPlan /\ plan.owner = plans[i].owner
    BY <1>1, <2>2, PlansKept
  <2> HIDE DEF plan, i
  <2>4. since'[p] \subseteq since[p] /\ (plan.status = "deleted" => i \notin since'[p])
    BY <2>1
  <2> QED BY <1>2, <2>2, <2>3, <2>4 DEF Visible
<1>7. CASE \E h \in handlers : ReplacePlan(h)
  BY <1>4, <1>6, <1>7, ReplaceMoves
<1>8. CASE UNCHANGED <<plans, written>> /\ since' = since
  BY <1>4, <1>8
<1>9. ASSUME NEW m \in requests, HandleCreate(m)
      PROVE  (UNCHANGED plans /\ since' = since) \/ \E i \in Ids : Created(m, i)
  BY <1>9 DEF HandleCreate, Created, pages
<1>10. ASSUME NEW m \in requests,
              HandleRead(m) \/ HandleList(m) \/ ReadForChange(m) \/ Refuse(m)
       PROVE  UNCHANGED plans
  BY <1>10 DEF HandleRead, HandleList, ReadForChange, Refuse, store
<1> QED BY <1>3, <1>4, <1>5, <1>7, <1>9, <1>10 DEF Scheduler

LEMMA SchedulerSkipsNone ==
    ASSUME TypeOK, OneCallAtATime, AnsweredOnce, HandlersHaveRead, KnowledgeIsReal,
           HistoryTells, Scheduler, NEW p \in Products, SkipsNone(p)
    PROVE  SkipsNone(p)'
<1> DEFINE cursor == listing[p].cursor
<1>1. product' = product /\ listing' = listing
  BY SchedulerMoves
<1>2. since'[p] \subseteq since[p] /\ since'[p] \subseteq Visible(OwnerOf(p))'
      /\ since[p] \subseteq Visible(OwnerOf(p))
  BY SinceKept DEF SkipsNone
<1>3. ASSUME product[p].command.op = "list", NEW r \in responses', r.to = p, r.status = 200
      PROVE  /\ r.body.id \in {0} \cup Ids
             /\ \A i \in since[p] : i > cursor => r.body.id # 0 /\ r.body.id <= i
  <2>1. CASE r \in responses
    BY <1>3, <2>1 DEF SkipsNone
  <2>2. ASSUME NEW m \in UnderWay, OfCall(m), r.to = m.from, Tells(m, r.status, r.body)
        PROVE  /\ r.body.id \in {0} \cup Ids
               /\ \A i \in since[p] : i > cursor => r.body.id # 0 /\ r.body.id <= i
    <3>1. m.command = product[p].command /\ product[p].state = "awaiting"
      BY <1>3, <2>2 DEF OneCallAtATime, OfCall
    <3>2. m.command.cursor = cursor
      BY <1>3, <3>1 DEF SkipsNone
    <3>3. PageTells(p, r.body.id, cursor)
      BY <1>3, <2>2, <3>1, <3>2 DEF Tells
    <3> QED BY <1>2, <3>3 DEF PageTells
  <2> QED BY <2>1, <2>2, NewAnswersTell
<1>4. \A i \in since'[p] : i \in since[p]
  BY <1>2
<1> QED BY <1>1, <1>2, <1>3, <1>4 DEF SkipsNone

LEMMA ListingsStep ==
    ASSUME TypeOK, OneCallAtATime, AnsweredOnce, HandlersHaveRead, KnowledgeIsReal,
           HistoryTells, ListingsSkipNone, [Next]_vars
    PROVE  ListingsSkipNone'
<1>1. \A p \in Products : SkipsNone(p)
  BY DEF ListingsSkipNone, SkipsNone
<1>2. (\A p \in Products : SkipsNone(p)') => ListingsSkipNone'
  BY DEF ListingsSkipNone, SkipsNone
<1>3. ASSUME NEW p \in Products, Work(p), NEW q \in Products, q # p
      PROVE  SkipsNone(q)'
  <2>1. product'[q] = product[q]
    BY <1>3, CallMoves, SendMoves, ErrorMoves, ReceiveMoves DEF Work
  <2>2. plans' = plans
    BY <1>3, ReceiveKeeps DEF Work, Call, Send, TransportError, store
  <2>3. Visible(OwnerOf(q))' = Visible(OwnerOf(q))
    BY <1>3, <2>2, PartiesKept DEF Next, Visible
  <2>4. since'[q] = since[q]
    BY <1>3, ReceiveKeeps DEF Work, Call, Send, TransportError, pages, TypeOK
  <2>5. listing'[q] = listing[q]
    <3>1. Receive(p) => listing'[q] = listing[q]
      <4> SUFFICES ASSUME Receive(p)
                   PROVE  listing'[q] = listing[q]
        OBVIOUS
      <4>1. PICK r \in responses : Learns(p, r)
        BY ReceiveMoves
      <4> QED BY <1>3, <4>1 DEF Learns, TypeOK
    <3> QED BY <1>3, <3>1 DEF Work, Call, Send, TransportError, pages
  <2>6. responses' \subseteq responses
    BY <1>3, WorkLeavesNoResponse
  <2> QED BY <1>1, <2>1, <2>3, <2>4, <2>5, <2>6 DEF SkipsNone
<1>4. ASSUME NEW p \in Products, Work(p)
      PROVE  SkipsNone(p)'
  BY <1>1, <1>4, CallSkipsNone, SendSkipsNone, ErrorSkipsNone, ReceiveSkipsNone DEF Work
<1>5. CASE Scheduler
  BY <1>1, <1>2, <1>5, SchedulerSkipsNone
<1>6. CASE UNCHANGED vars
  BY <1>6 DEF vars, ListingsSkipNone, Visible, OwnerOf
<1> QED BY <1>2, <1>3, <1>4, <1>5, <1>6 DEF Next, Scheduler

-----------------------------------------------------------------------------
(* The invariant *)

LEMMA InitInvariant == Init => PlansInvariant
<1> SUFFICES ASSUME Init
             PROVE  PlansInvariant
  OBVIOUS
<1>1. /\ bound = Unbound /\ written = [i \in Ids |-> <<>>]
      /\ listing = [p \in Products |-> NoListing] /\ since = [p \in Products |-> {}]
      /\ requests = {} /\ responses = {} /\ handlers = {} /\ UnderWay = {}
  BY DEF Init, UnderWay
<1>2. PICK setting \in Settings : party = setting.party /\ plans = setting.plans
  BY DEF Init
<1>3. DOMAIN product = Products
      /\ \A p \in Products :
            /\ DOMAIN product[p] = ProductFields
            /\ product[p].state = "idle" /\ product[p].command = NoCommand
            /\ product[p].sends = 0 /\ product[p].result = "none"
            /\ product[p].known = NoPlan
  BY DEF Init, ProductFields
<1>4. DOMAIN plans = Ids
      /\ \A i \in Ids :
            plans[i] = NoPlan \/ (plans[i].status \in Statuses /\ plans[i].revision = 1)
  BY <1>2, PlansAssumption
<1>5. \A i \in Ids : written[i] = <<>> /\ Len(written[i]) = 0
  BY <1>1
<1>6. TypeOK
  <2>1. written \in [Ids -> Seq([by : Products, command : ChangeCommands])]
    <3>1. <<>> \in Seq([by : Products, command : ChangeCommands])
      OBVIOUS
    <3> QED BY <1>1, <3>1
  <2>2. listing \in [Products -> [cursor : {0} \cup Ids, found : SUBSET Ids, complete : BOOLEAN]]
    <3>1. NoListing \in [cursor : {0} \cup Ids, found : SUBSET Ids, complete : BOOLEAN]
      BY DEF NoListing
    <3> QED BY <1>1, <3>1
  <2>3. \A p \in Products : product[p].sends \in 0..MaxSends[p]
    BY <1>3, SendsAreBounded
  <2>4. \A i \in Ids :
            \/ plans[i] = NoPlan /\ written[i] = <<>>
            \/ plans[i].status \in Statuses /\ plans[i].revision = Len(written[i]) + 1
    BY <1>4, <1>5
  <2>5. party \in {s.party : s \in Settings} /\ since \in [Products -> SUBSET Ids]
    BY <1>1, <1>2
  <2> QED BY <1>1, <1>3, <1>4, <2>1, <2>2, <2>3, <2>4, <2>5 DEF TypeOK, ProductFields
<1>7. OneCallAtATime /\ AnsweredOnce /\ RequestsStayInTheirApplication /\ HandlersHaveRead
  BY <1>1, <1>3 DEF OneCallAtATime, AnsweredOnce, RequestsStayInTheirApplication, HandlersHaveRead
<1>8. KnowledgeIsReal
  BY <1>1, <1>3, NoCommandShape DEF KnowledgeIsReal, KnowsItsPlans
<1>9. HistoryTells
  BY <1>5 DEF HistoryTells
<1>10. OnePlanPerClientID
  BY <1>2, PlansAssumption, NoPlanShape DEF OnePlanPerClientID
<1>11. NoChangeIsLost
  <2>1. \A i \in Ids : \A ops : LastOf(ops, written[i]) = {}
    BY <1>5 DEF LastOf
  <2> QED BY <2>1 DEF NoChangeIsLost
<1>12. AnswersAreTrue
  BY <1>1, <1>3 DEF AnswersAreTrue
<1>13. ListingsSkipNone
  BY <1>1, <1>3, NoCommandShape DEF ListingsSkipNone, NoListing
<1> QED BY <1>6, <1>7, <1>8, <1>9, <1>10, <1>11, <1>12, <1>13 DEF PlansInvariant

LEMMA InvariantStep == PlansInvariant /\ [Next]_vars => PlansInvariant'
<1> SUFFICES ASSUME PlansInvariant, [Next]_vars
             PROVE  PlansInvariant'
  OBVIOUS
<1> USE DEF PlansInvariant
<1>1. TypeOK'
  <2>1. UNCHANGED vars => TypeOK'
    BY DEF vars, TypeOK
  <2> QED BY <2>1, CallTypes, SendTypes, ErrorTypes, ReceiveTypes, SchedulerTypes
          DEF Next, Work, Scheduler
<1>2. OneCallAtATime' /\ AnsweredOnce' /\ RequestsStayInTheirApplication'
  <2>1. CASE UNCHANGED vars
    BY <2>1 DEF vars, OneCallAtATime, AnsweredOnce, RequestsStayInTheirApplication, UnderWay,
                OfCall, ApplicationOf
  <2> QED BY <2>1, ProductCounts, SchedulerCounts DEF Next, Scheduler
<1>3. KnowledgeIsReal' /\ HandlersHaveRead' /\ HistoryTells'
  BY KnowledgeStep, HandlersStep, HistoryStep
<1>4. OnePlanPerClientID' /\ NoChangeIsLost'
  BY CreationStep, ChangesStep
<1>5. AnswersAreTrue' /\ ListingsSkipNone'
  BY AnswersStep, ListingsStep
<1> QED BY <1>1, <1>2, <1>3, <1>4, <1>5

LEMMA InvariantMeans ==
    PlansInvariant => CreationIsIdempotent /\ ReceiptsAreTrue /\ PagesAreComplete
<1> SUFFICES ASSUME PlansInvariant
             PROVE  CreationIsIdempotent /\ ReceiptsAreTrue /\ PagesAreComplete
  OBVIOUS
<1>1. \A p \in Products :
          product[p].result = "done" /\ product[p].command.op # "list"
              => Truthful(p, product[p].command, product[p].receipt)
  BY DEF PlansInvariant, AnswersAreTrue
<1>2. CreationIsIdempotent
  <2>1. ASSUME NEW p \in Products, product[p].result = "done", product[p].command.op = "create"
        PROVE  LET plan == plans[product[p].receipt.id] IN
               /\ plan.clientID = product[p].command.clientID
               /\ plan.request = product[p].command.content
    BY <1>1, <2>1 DEF Truthful
  <2> QED BY <2>1 DEF PlansInvariant, CreationIsIdempotent
<1>3. \A p \in Products :
          IsChange(product[p].command) => product[p].command \in ChangeCommands
  BY ProductsTyped, CommandShapes, NoCommandShape DEF PlansInvariant, ProductTyped
<1>4. ReceiptsAreTrue
  BY <1>1, <1>3 DEF ReceiptsAreTrue, Truthful, Knows
<1>5. PagesAreComplete
  BY DEF PlansInvariant, ListingsSkipNone, PagesAreComplete
<1> QED BY <1>2, <1>4, <1>5

(* The inductive invariant holds of every behaviour of the transport and   *)
(* the Scheduler behind it: calls under way once, knowledge of real plans, *)
(* handlers that have read them, histories that tell what was done.        *)
THEOREM PlansSafe == PlansSpec => []PlansInvariant
<1>1. Init => PlansInvariant
  BY InitInvariant
<1>2. PlansInvariant /\ [Next]_vars => PlansInvariant'
  BY InvariantStep
<1> QED BY <1>1, <1>2, PTL DEF PlansSpec

(* BindApplication binds the transport once, so that no request is sent in *)
(* the path of an application its caller did not name.                     *)
THEOREM CallersKeepTheirApplication == PlansSpec => []RequestsStayInTheirApplication
<1>1. PlansInvariant => RequestsStayInTheirApplication
  BY DEF PlansInvariant
<1> QED BY <1>1, PlansSafe, PTL

(* CreateScheduledPlan may be repeated as often as its answer is lost: the *)
(* ClientID has one plan, and a receipt is for the content that was asked. *)
THEOREM CreationsMakeOnePlan == PlansSpec => []CreationIsIdempotent
<1> QED BY InvariantMeans, PlansSafe, PTL

(* ReplaceScheduledPlan's compare-and-swap lets no change overwrite one it *)
(* has not seen, however many handlers have read the plan before.          *)
THEOREM ChangesAreKept == PlansSpec => []NoChangeIsLost
<1>1. PlansInvariant => NoChangeIsLost
  BY DEF PlansInvariant
<1> QED BY <1>1, PlansSafe, PTL

(* What a receipt of the transport's commands says was so, is its owner's, *)
(* and, of a deletion, is so for ever: a replay answers only the deletion  *)
(* that made the tombstone.                                                *)
THEOREM ReceiptsStayTrue == PlansSpec => []ReceiptsAreTrue
<1> QED BY InvariantMeans, PlansSafe, PTL

(* ListScheduledPlans, page after page with the cursor of the last, leaves *)
(* out no plan that was there from the first page on.                      *)
THEOREM ListingsAreComplete == PlansSpec => []PagesAreComplete
<1> QED BY InvariantMeans, PlansSafe, PTL
=============================================================================
