------------------------------- MODULE RunLeases -------------------------------
(***************************************************************************)
(* What becomes of a due window after its claim: the run store grants a    *)
(* lease with a fencing token, the worker dispatches the run and renews    *)
(* the lease meanwhile, and commits what the dispatch returned.  A worker  *)
(* may stop or be late, and another then takes the run over; the request   *)
(* of the first may still be done downstream.  Operators retry, cancel,    *)
(* requeue and resolve.                                                    *)
(*                                                                         *)
(* The configuration is normalized by the SDK.  The store, the workers and *)
(* the downstream owner are its users, modelled from the contracts of      *)
(* RunStore, Lease and TriggerBacklog.  Time is kept as what is left of    *)
(* each timer, so that it need not be bounded.                             *)
(***************************************************************************)
EXTENDS Integers, FiniteSets

CONSTANTS Workers, Runs,
          Configs,                  \* worker configurations as a host gives them
          DefaultLeaseTTL, DefaultMaxPending, LargestMaxPending,
          DefaultDispatchTimeout, LargestDispatchTimeout,
          MaxAttempts,              \* of the definition's policy
          Backoffs,                 \* pauses between its attempts
          MaxFaults,                \* bound: workers lost and leases not renewed in time
          MaxOperations             \* bound: what operators do

ASSUME LeasesAssumption ==
    /\ IsFiniteSet(Runs)
    /\ Configs \subseteq [leaseTTL : Int, maxPending : Int, dispatchTimeout : Int]
    /\ {DefaultLeaseTTL, DefaultMaxPending, DefaultDispatchTimeout,
        LargestMaxPending, LargestDispatchTimeout, MaxAttempts} \subseteq Nat \ {0}
    /\ DefaultMaxPending <= LargestMaxPending
    /\ DefaultDispatchTimeout <= LargestDispatchTimeout
    /\ Backoffs \subseteq Nat /\ Backoffs # {}
    /\ MaxFaults \in Nat /\ MaxOperations \in Nat

VARIABLES
    config,      \* the normalized configuration
    status,      \* of each run
    token,       \* the fencing token of its newest lease
    lease,       \* what is left of that lease
    attempt,     \* which attempt it is on
    wait,        \* what is left of the pause before its next attempt
    task,        \* per worker, the run it dispatches
    sent,        \* the runs requests were sent for, under one idempotency key each:
                 \* a request may reach the owner late, more than once or never
    executed,    \* the runs the owner has executed
    requeued,    \* the runs an operator put back
    spent        \* the bounded events so far

runVars == <<status, token, lease, attempt, wait>>
vars == <<config, runVars, task, sent, executed, requeued, spent>>

Bounded(value, default, largest) ==
    IF value <= 0 THEN default ELSE IF value > largest THEN largest ELSE value

(* A faulty variant: no dispatch timeout is none at all. *)
NormalizeWithoutTimeout(c) ==
    [leaseTTL |-> IF c.leaseTTL <= 0 THEN DefaultLeaseTTL ELSE c.leaseTTL,
     maxPending |-> Bounded(c.maxPending, DefaultMaxPending, LargestMaxPending),
     dispatchTimeout |-> IF c.dispatchTimeout <= 0 THEN -1 ELSE c.dispatchTimeout]

NormalizeWorkerConfig(c) ==
    [leaseTTL |-> IF c.leaseTTL <= 0 THEN DefaultLeaseTTL ELSE c.leaseTTL,
     maxPending |-> Bounded(c.maxPending, DefaultMaxPending, LargestMaxPending),
     dispatchTimeout |-> Bounded(c.dispatchTimeout, DefaultDispatchTimeout,
                                 LargestDispatchTimeout)]

NoTask == [state |-> "idle"]

Init ==
    /\ config \in {NormalizeWorkerConfig(c) : c \in Configs}
    /\ status = [r \in Runs |-> "none"] /\ token = [r \in Runs |-> 0]
    /\ lease = [r \in Runs |-> 0] /\ attempt = [r \in Runs |-> 0]
    /\ wait = [r \in Runs |-> 0] /\ task = [w \in Workers |-> NoTask]
    /\ sent = {} /\ executed = {} /\ requeued = {}
    /\ spent = [crashes |-> 0, losses |-> 0, operations |-> 0]

-----------------------------------------------------------------------------
(* Claims *)

(* The durable triggers that are leased or wait for a retry *)
Pending == {r \in Runs : status[r] \in {"leased", "retry"}}

(* A faulty variant: a run that waits for a retry is not counted. *)
RoomAmongLeased == Cardinality({r \in Runs : status[r] = "leased"}) < config.maxPending

BacklogHasRoom == Cardinality(Pending) < config.maxPending

(* A faulty variant: a lease in its last moment is taken for an expired one. *)
ExpiresSoon(r) == lease[r] <= 1

Expired(r) == lease[r] = 0

NextToken(r) == token[r] + 1

(* Claim is one transaction: a window without a run while the backlog has  *)
(* room, a retry that is due, or a run whose lease ran out.  Taking a run  *)
(* over repeats the attempt of the worker before.                          *)
Claim(w, r) ==
    /\ task[w] = NoTask
    /\ \/ /\ status[r] = "none" /\ BacklogHasRoom
          /\ attempt' = [attempt EXCEPT ![r] = 1]
       \/ /\ status[r] = "retry" /\ wait[r] = 0
          /\ attempt' = [attempt EXCEPT ![r] = @ + 1]
       \/ /\ status[r] = "leased" /\ Expired(r)
          /\ UNCHANGED attempt
    /\ status' = [status EXCEPT ![r] = "leased"]
    /\ token' = [token EXCEPT ![r] = NextToken(r)]
    /\ lease' = [lease EXCEPT ![r] = config.leaseTTL]
    /\ task' = [task EXCEPT ![w] =
            [state |-> "dispatching", run |-> r, token |-> NextToken(r),
             left |-> config.dispatchTimeout]]
    /\ sent' = sent \cup {r}
    /\ UNCHANGED <<config, wait, executed, requeued, spent>>

-----------------------------------------------------------------------------
(* Leases *)

Dispatching(w) == task[w].state = "dispatching"
RunOf(w) == task[w].run
Holds(w, r) == task[w] # NoTask /\ RunOf(w) = r

(* A faulty variant: a lease is the run's, whoever renews or commits. *)
FencedByRun(w) == status[RunOf(w)] = "leased"

(* A faulty variant: the token is compared, the status is not. *)
FencedByToken(w) == token[RunOf(w)] = task[w].token

(* The token fences a worker whose run was taken over; a run that ended    *)
(* has no lease.                                                           *)
Fenced(w) == status[RunOf(w)] = "leased" /\ token[RunOf(w)] = task[w].token

Drop(w) == task' = [task EXCEPT ![w] = NoTask]

(* Renew extends a live lease.  A worker told that it lost its own cancels *)
(* the dispatch and commits nothing.                                       *)
Renew(w) ==
    /\ Dispatching(w)
    /\ LET r == RunOf(w)
       IN  \/ /\ Fenced(w) /\ ~Expired(r) /\ lease[r] < config.leaseTTL
              /\ lease' = [lease EXCEPT ![r] = config.leaseTTL]
              /\ UNCHANGED task
           \/ /\ ~Fenced(w) \/ Expired(r)
              /\ Drop(w) /\ UNCHANGED lease
    /\ UNCHANGED <<config, status, token, attempt, wait, sent, executed, requeued, spent>>

(* Time passes for every timer.  Unless a bounded loss is spent, workers   *)
(* renew, or commit, before their leases run out.                          *)
FaultsLeft == spent.crashes + spent.losses < MaxFaults

AboutToLose == {w \in Workers : task[w] # NoTask /\ Fenced(w) /\ lease[RunOf(w)] = 1}

Less(n) == IF n > 0 THEN n - 1 ELSE n

Tick ==
    /\ AboutToLose = {} \/ FaultsLeft
    /\ spent' = IF AboutToLose = {} THEN spent ELSE [spent EXCEPT !.losses = @ + 1]
    /\ lease' = [r \in Runs |-> IF status[r] = "leased" THEN Less(lease[r]) ELSE lease[r]]
    /\ wait' = [r \in Runs |-> Less(wait[r])]
    /\ task' = [w \in Workers |-> IF Dispatching(w) THEN [task[w] EXCEPT !.left = Less(@)]
                                  ELSE task[w]]
    /\ UNCHANGED <<config, status, token, attempt, sent, executed, requeued>>

-----------------------------------------------------------------------------
(* Dispatch *)

Returns(w, result) == task' = [task EXCEPT ![w] =
    [state |-> result, run |-> RunOf(w), token |-> task[w].token]]

(* An answer reaches a worker that waits for one about the run, or nobody. *)
Answer(r, result) ==
    \/ UNCHANGED task
    \/ \E w \in Workers : Dispatching(w) /\ RunOf(w) = r /\ Returns(w, result)

(* The owner executes a key once and repeats the receipt of one it knows. *)
Execute(r) ==
    /\ executed' = executed \cup {r} /\ Answer(r, "done")
    /\ UNCHANGED <<config, runVars, sent, requeued, spent>>

Reject(r) ==
    /\ r \notin executed /\ Answer(r, "failed")
    /\ UNCHANGED <<config, runVars, sent, executed, requeued, spent>>

TimeOut(w) ==
    /\ Dispatching(w) /\ task[w].left = 0
    /\ Returns(w, "failed")
    /\ UNCHANGED <<config, runVars, sent, executed, requeued, spent>>

-----------------------------------------------------------------------------
(* Results *)

LastAttempt(r) == attempt[r] >= MaxAttempts

Ends(r, result) ==
    status' = [status EXCEPT ![r] = result] /\ lease' = [lease EXCEPT ![r] = 0]

(* Accept: the receipt of the worker that holds the run *)
Accept(w) ==
    /\ task[w].state = "done"
    /\ \/ Fenced(w) /\ Ends(RunOf(w), "accepted")
       \/ ~Fenced(w) /\ UNCHANGED <<status, lease>>
    /\ Drop(w)
    /\ UNCHANGED <<config, token, attempt, wait, sent, executed, requeued, spent>>

(* Fail: a retry after a pause, or a dead letter *)
Fail(w) ==
    /\ task[w].state = "failed"
    /\ LET r == RunOf(w)
       IN  \/ /\ Fenced(w) /\ LastAttempt(r)
              /\ Ends(r, "dead") /\ UNCHANGED wait
           \/ /\ Fenced(w) /\ ~LastAttempt(r)
              /\ Ends(r, "retry")
              /\ \E pause \in Backoffs : wait' = [wait EXCEPT ![r] = pause]
           \/ ~Fenced(w) /\ UNCHANGED <<status, lease, wait>>
    /\ Drop(w)
    /\ UNCHANGED <<config, token, attempt, sent, executed, requeued, spent>>

(* A worker stops; its lease runs out by itself. *)
Crash(w) ==
    /\ task[w] # NoTask /\ FaultsLeft
    /\ Drop(w) /\ spent' = [spent EXCEPT !.crashes = @ + 1]
    /\ UNCHANGED <<config, runVars, sent, executed, requeued>>

-----------------------------------------------------------------------------
(* Operators *)

Operate == /\ spent.operations < MaxOperations
           /\ spent' = [spent EXCEPT !.operations = @ + 1]
           /\ UNCHANGED <<config, token, task, sent, executed>>

(* A run that waits is due at once. *)
RetryRun(r) ==
    /\ status[r] = "retry" /\ wait[r] > 0 /\ Operate
    /\ wait' = [wait EXCEPT ![r] = 0]
    /\ UNCHANGED <<status, lease, attempt, requeued>>

(* A pending run is cancelled, under a worker that dispatches it too. *)
CancelRun(r) ==
    /\ r \in Pending /\ Operate
    /\ Ends(r, "cancelled")
    /\ UNCHANGED <<attempt, wait, requeued>>

ResolveDeadLetter(r) ==
    /\ status[r] = "dead" /\ Operate
    /\ status' = [status EXCEPT ![r] = "resolved"]
    /\ UNCHANGED <<lease, attempt, wait, requeued>>

(* The run starts its attempts over; it is no new trigger. *)
RequeueDeadLetter(r) ==
    /\ status[r] = "dead" /\ Operate
    /\ status' = [status EXCEPT ![r] = "retry"]
    /\ attempt' = [attempt EXCEPT ![r] = 0] /\ wait' = [wait EXCEPT ![r] = 0]
    /\ requeued' = requeued \cup {r} /\ UNCHANGED lease

Next ==
    \/ Tick
    \/ \E w \in Workers :
          (\E r \in Runs : Claim(w, r)) \/ Renew(w) \/ TimeOut(w) \/ Accept(w) \/ Fail(w) \/ Crash(w)
    \/ \E r \in sent : Execute(r) \/ Reject(r)
    \/ \E r \in Runs : RetryRun(r) \/ CancelRun(r) \/ ResolveDeadLetter(r) \/ RequeueDeadLetter(r)

Spec == Init /\ [][Next]_vars

(* Time passes; workers poll on a timer, renew while they dispatch, give   *)
(* up at the timeout and commit.  Nothing is asked of the owner.           *)
FairSpec ==
    /\ Spec /\ WF_vars(Tick)
    /\ \A w \in Workers :
          /\ WF_vars(\E r \in Runs : Claim(w, r)) /\ WF_vars(Renew(w)) /\ WF_vars(TimeOut(w))
          /\ WF_vars(Accept(w) \/ Fail(w))

-----------------------------------------------------------------------------

Statuses == {"none", "leased", "retry", "accepted", "dead", "resolved", "cancelled"}

Tasks == {NoTask}
    \cup [state : {"dispatching"}, run : Runs, token : Nat \ {0}, left : Nat]
    \cup [state : {"done", "failed"}, run : Runs, token : Nat \ {0}]

TypeOK ==
    /\ config \in [leaseTTL : Nat \ {0}, maxPending : 1..LargestMaxPending,
                   dispatchTimeout : 1..LargestDispatchTimeout]
    /\ status \in [Runs -> Statuses] /\ token \in [Runs -> Nat] /\ lease \in [Runs -> Nat]
    /\ attempt \in [Runs -> 0..MaxAttempts] /\ wait \in [Runs -> Nat]
    /\ task \in [Workers -> Tasks] /\ requeued \subseteq Runs
    /\ sent \subseteq Runs /\ executed \subseteq sent
    /\ spent \in [crashes : 0..MaxFaults, losses : 0..MaxFaults, operations : 0..MaxOperations]

(* A task is on a run that was sent, under a token it was once granted.    *)
TasksAreGranted ==
    \A w \in Workers : task[w] # NoTask =>
        RunOf(w) \in sent /\ task[w].token <= token[RunOf(w)]

TokensDiffer ==
    \A v, w \in Workers : v # w /\ task[v] # NoTask /\ Holds(w, RunOf(v)) =>
        task[v].token # task[w].token

(* Until a lease is lost, a task on a run that was not cancelled has it.   *)
TasksAreLeased ==
    spent.losses = 0 =>
        \A w \in Workers : task[w] # NoTask =>
            status[RunOf(w)] = "cancelled" \/ (Fenced(w) /\ ~Expired(RunOf(w)))

HeldByOne ==
    spent.losses = 0 =>
        \A v, w \in Workers : task[v] # NoTask /\ Holds(w, RunOf(v)) => v = w

(* What was sent, is done or waits for another attempt *)
SentIsEntered == \A r \in sent : status[r] # "none"
DoneWasExecuted == \A w \in Workers : task[w].state = "done" => RunOf(w) \in executed
RetriesAreLeft == \A r \in Runs : status[r] = "retry" => attempt[r] < MaxAttempts

(* The inductive invariant of the proofs: tokens tell the tasks on one run *)
(* apart, only a lost lease lets a second task in, and what a task reports *)
(* as done was done.                                                       *)
LeaseInvariant ==
    /\ TypeOK /\ TasksAreGranted /\ TokensDiffer
    /\ TasksAreLeased /\ HeldByOne
    /\ SentIsEntered /\ DoneWasExecuted /\ RetriesAreLeft
    /\ Cardinality(Pending \ requeued) <= config.maxPending

(* As long as leases are renewed in time they exclude: two workers work    *)
(* on one run only after one of them lost its lease, and at most one of    *)
(* them has the newest token.                                              *)
OverlapOnlyAfterLoss ==
    \A r \in Runs, v, w \in Workers :
        v # w /\ Holds(v, r) /\ Holds(w, r) =>
            spent.losses > 0 /\ task[v].token # task[w].token

(* The triggers that are leased or wait for a retry keep to the limit,     *)
(* whatever the workers claim at once; only what operators put back        *)
(* exceeds it.                                                             *)
BacklogWithinLimit == Cardinality(Pending \ requeued) <= config.maxPending

(* A leased run changes its status only by the worker with its newest      *)
(* token, or by an operator who cancels it: a worker that lost its lease   *)
(* never commits its result.                                               *)
OnlyTheHolderCommits ==
    [][\A r \in Runs :
          status[r] = "leased" /\ status'[r] \notin {"leased", "cancelled"} =>
              \E w \in Workers : /\ Holds(w, r) /\ task[w].token = token[r]
                                 /\ task'[w] = NoTask]_vars

(* Every run ends in the end, as accepted, cancelled or a dead letter,     *)
(* though the owner never answers and workers and leases are lost.         *)
EveryRunEnds ==
    <>[](\A r \in Runs : status[r] \in {"accepted", "dead", "resolved", "cancelled"})

Outcome(r) == IF status[r] \in {"leased", "retry"} THEN "pending" ELSE status[r]

RunOutcomesSpec == INSTANCE RunOutcomes WITH
    outcome <- [r \in Runs |-> Outcome(r)],
    done <- executed

(* The store keeps the promise of RunOutcomes: a run ends once, accepted   *)
(* only if it was executed, and what has ended is not disturbed by         *)
(* workers that come late.                                                 *)
ImplementsOutcomes == RunOutcomesSpec!OSpec
=============================================================================
