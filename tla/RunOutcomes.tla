------------------------------ MODULE RunOutcomes ------------------------------
(***************************************************************************)
(* What the run store promises about a window, without leases, workers or  *)
(* time: a run is entered once and ends once.  Accepted and cancelled are  *)
(* for ever; a dead letter can be put back, until it is resolved.  Only    *)
(* what the downstream owner did is accepted, and it does a run once.      *)
(***************************************************************************)
CONSTANTS Runs

VARIABLES outcome,   \* what became of each run
          done       \* the runs the downstream owner has done

ovars == <<outcome, done>>

Outcomes == {"none", "pending", "accepted", "dead", "resolved", "cancelled"}

OInit == outcome = [r \in Runs |-> "none"] /\ done = {}

Becomes(r, from, to) ==
    outcome[r] = from /\ outcome' = [outcome EXCEPT ![r] = to] /\ UNCHANGED done

Enter(r) == Becomes(r, "none", "pending")

(* A request under way may be done whatever became of its run. *)
Do(r) == outcome[r] # "none" /\ done' = done \cup {r} /\ UNCHANGED outcome

Accept(r) == r \in done /\ Becomes(r, "pending", "accepted")

GiveUp(r) == Becomes(r, "pending", "dead")

Cancel(r) == Becomes(r, "pending", "cancelled")

Requeue(r) == Becomes(r, "dead", "pending")

Resolve(r) == Becomes(r, "dead", "resolved")

ONext == \E r \in Runs :
    \/ Enter(r) \/ Do(r) \/ Accept(r) \/ GiveUp(r)
    \/ Cancel(r) \/ Requeue(r) \/ Resolve(r)

OSpec == OInit /\ [][ONext]_ovars
=============================================================================
