---------------------------- MODULE MCScheduledPlans ----------------------------
(***************************************************************************)
(* Two products: that create one plan, for one owner, for two or for two   *)
(* applications; that change a plan; and one that lists its owner's plans  *)
(* while the other creates and deletes.                                    *)
(***************************************************************************)
EXTENDS ScheduledPlans

Party(application, owner, ops) == [application |-> application, owner |-> owner, ops |-> ops]
Two(first, second) == [p \in Products |-> IF p = 1 THEN first ELSE second]

Plan(owner, clientID) ==
    [owner |-> owner, clientID |-> clientID, request |-> "draft", content |-> "draft",
     status |-> "enabled", revision |-> 1]

Empty == [i \in Ids |-> NoPlan]
\* Two plans of Ann's, with one of Bob's and a free place between them
ThreePlans ==
    [i \in Ids |-> CASE i = 1 -> Plan("ann", "k0") [] i = 2 -> Plan("bob", "k0")
                     [] i = 3 -> NoPlan [] i = 4 -> Plan("ann", "k2")]

Creates == {"create", "update", "delete"}
Changes == {"get", "update", "pause", "resume", "delete", "deletion"}

Creation ==
    {[party |-> Two(Party("runtime-a", "ann", Creates), second), plans |-> Empty] :
        second \in {Party("runtime-a", "ann", Creates), Party("runtime-a", "bob", Creates),
                    Party("runtime-b", "bob", {"create"})}}
Changing ==
    {[party |-> Two(Party("runtime-a", "ann", Changes), Party("runtime-a", "ann", Changes)),
      plans |-> ThreePlans]}
Listing ==
    {[party |-> Two(Party("runtime-a", "ann", {"list"}),
                    Party("runtime-a", "ann", {"get", "create", "delete"})),
      plans |-> ThreePlans]}

MCSettings == Creation \cup Changing \cup Listing
MCSends == [p \in Products |-> IF p = 1 THEN 3 ELSE 2]
=============================================================================
