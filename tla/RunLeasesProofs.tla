---------------------------- MODULE RunLeasesProofs ----------------------------
(***************************************************************************)
(* Proofs about RunLeases for every set of workers and runs, every worker  *)
(* configuration and every bound.                                          *)
(***************************************************************************)
EXTENDS RunLeases, FiniteSetTheorems, TLAPS

(* A task is idle or has a run and a token, and a dispatch also a timer.   *)
LEMMA TaskShapes ==
    ASSUME NEW t \in Tasks
    PROVE  /\ t # NoTask <=> t.state # "idle"
           /\ t.state \in {"idle", "dispatching", "done", "failed"}
           /\ t.state # "idle" => t.run \in Runs /\ t.token \in Nat \ {0}
           /\ t.state = "dispatching" =>
                 /\ t.left \in Nat
                 /\ t = [state |-> "dispatching", run |-> t.run, token |-> t.token,
                         left |-> t.left]
BY DEF Tasks, NoTask

(* The tasks that Claim, Returns and Tick make are tasks.                  *)
LEMMA TasksMade ==
    /\ NoTask \in Tasks
    /\ \A r \in Runs, n \in Nat \ {0} :
          /\ \A left \in Nat :
                [state |-> "dispatching", run |-> r, token |-> n, left |-> left] \in Tasks
          /\ \A result \in {"done", "failed"} :
                [state |-> result, run |-> r, token |-> n] \in Tasks
    /\ \A t \in Tasks : t.state = "dispatching" =>
          /\ [t EXCEPT !.left = Less(@)] \in Tasks
          /\ [t EXCEPT !.left = Less(@)].state = "dispatching"
          /\ [t EXCEPT !.left = Less(@)].run = t.run
          /\ [t EXCEPT !.left = Less(@)].token = t.token
<1>1. NoTask \in Tasks
  BY DEF Tasks
<1>2. \A r \in Runs, n \in Nat \ {0}, left \in Nat :
          [state |-> "dispatching", run |-> r, token |-> n, left |-> left] \in Tasks
  BY DEF Tasks
<1>3. \A r \in Runs, n \in Nat \ {0} : \A result \in {"done", "failed"} :
          [state |-> result, run |-> r, token |-> n] \in Tasks
  BY DEF Tasks
<1>4. ASSUME NEW t \in Tasks, t.state = "dispatching"
      PROVE  /\ [t EXCEPT !.left = Less(@)] \in Tasks
             /\ [t EXCEPT !.left = Less(@)].state = "dispatching"
             /\ [t EXCEPT !.left = Less(@)].run = t.run
             /\ [t EXCEPT !.left = Less(@)].token = t.token
  <2>1. /\ t.run \in Runs /\ t.token \in Nat \ {0} /\ t.left \in Nat
        /\ t = [state |-> "dispatching", run |-> t.run, token |-> t.token, left |-> t.left]
    BY <1>4, TaskShapes
  <2>2. Less(t.left) \in Nat
    BY <2>1 DEF Less
  <2>3. [t EXCEPT !.left = Less(@)]
           = [state |-> "dispatching", run |-> t.run, token |-> t.token, left |-> Less(t.left)]
    BY <2>1
  <2> QED BY <2>1, <2>2, <2>3, <1>2
<1> QED BY <1>1, <1>2, <1>3, <1>4

(* The normalized configuration is within its limits, whatever the host    *)
(* gave.                                                                   *)
LEMMA ConfigIsBounded ==
    \A c \in Configs : NormalizeWorkerConfig(c) \in
        [leaseTTL : Nat \ {0}, maxPending : 1..LargestMaxPending,
         dispatchTimeout : 1..LargestDispatchTimeout]
<1> SUFFICES ASSUME NEW c \in Configs
             PROVE  NormalizeWorkerConfig(c) \in
                        [leaseTTL : Nat \ {0}, maxPending : 1..LargestMaxPending,
                         dispatchTimeout : 1..LargestDispatchTimeout]
  OBVIOUS
<1>1. c.leaseTTL \in Int /\ c.maxPending \in Int /\ c.dispatchTimeout \in Int
  BY LeasesAssumption DEF LeasesAssumption
<1>2. Bounded(c.maxPending, DefaultMaxPending, LargestMaxPending) \in 1..LargestMaxPending
  BY <1>1, LeasesAssumption DEF LeasesAssumption, Bounded
<1>3. Bounded(c.dispatchTimeout, DefaultDispatchTimeout, LargestDispatchTimeout)
          \in 1..LargestDispatchTimeout
  BY <1>1, LeasesAssumption DEF LeasesAssumption, Bounded
<1>4. (IF c.leaseTTL <= 0 THEN DefaultLeaseTTL ELSE c.leaseTTL) \in Nat \ {0}
  BY <1>1, LeasesAssumption DEF LeasesAssumption
<1> QED BY <1>2, <1>3, <1>4 DEF NormalizeWorkerConfig

LEMMA InitTyped == Init => TypeOK
<1> SUFFICES ASSUME Init PROVE TypeOK
  OBVIOUS
<1>1. config \in [leaseTTL : Nat \ {0}, maxPending : 1..LargestMaxPending,
                  dispatchTimeout : 1..LargestDispatchTimeout]
  BY ConfigIsBounded DEF Init
<1>2. /\ status \in [Runs -> Statuses] /\ token \in [Runs -> Nat] /\ lease \in [Runs -> Nat]
      /\ attempt \in [Runs -> 0..MaxAttempts] /\ wait \in [Runs -> Nat]
  BY LeasesAssumption DEF LeasesAssumption, Init, Statuses
<1>3. task \in [Workers -> Tasks]
  BY TasksMade DEF Init
<1>4. spent \in [crashes : 0..MaxFaults, losses : 0..MaxFaults, operations : 0..MaxOperations]
  BY LeasesAssumption DEF LeasesAssumption, Init
<1> QED BY <1>1, <1>2, <1>3, <1>4 DEF TypeOK, Init

(* Every step keeps the types.                                             *)
LEMMA TypeStep ==
    ASSUME TypeOK, RetriesAreLeft, [Next]_vars
    PROVE  TypeOK'
<1> USE DEF TypeOK
<1>1. ASSUME NEW w \in Workers, NEW r \in Runs, Claim(w, r)
      PROVE  TypeOK'
  <2>1. attempt' \in [Runs -> 0..MaxAttempts]
    BY <1>1, LeasesAssumption DEF Claim, RetriesAreLeft, LeasesAssumption
  <2>2. NextToken(r) \in Nat \ {0} /\ config.dispatchTimeout \in Nat /\ config.leaseTTL \in Nat
    BY LeasesAssumption DEF NextToken, LeasesAssumption
  <2>3. task' \in [Workers -> Tasks]
    BY <1>1, <2>2, TasksMade DEF Claim
  <2>4. status' \in [Runs -> Statuses] /\ token' \in [Runs -> Nat] /\ lease' \in [Runs -> Nat]
    BY <1>1, <2>2 DEF Claim, Statuses
  <2> QED BY <1>1, <2>1, <2>3, <2>4 DEF Claim
<1>2. ASSUME NEW w \in Workers, Renew(w)
      PROVE  TypeOK'
  <2>1. config.leaseTTL \in Nat
    OBVIOUS
  <2>2. task' \in [Workers -> Tasks] /\ lease' \in [Runs -> Nat]
    BY <1>2, <2>1, TasksMade DEF Renew, Drop
  <2> QED BY <1>2, <2>2 DEF Renew
<1>3. ASSUME NEW w \in Workers, TimeOut(w)
      PROVE  TypeOK'
  <2>1. task' \in [Workers -> Tasks]
    BY <1>3, TasksMade, TaskShapes DEF TimeOut, Returns, Dispatching, RunOf
  <2> QED BY <1>3, <2>1 DEF TimeOut, runVars
<1>4. ASSUME NEW w \in Workers, Accept(w)
      PROVE  TypeOK'
  <2>1. RunOf(w) \in Runs
    BY <1>4, TaskShapes DEF Accept, RunOf
  <2>2. status' \in [Runs -> Statuses] /\ lease' \in [Runs -> Nat]
    BY <1>4, <2>1 DEF Accept, Ends, Statuses
  <2>3. task' \in [Workers -> Tasks]
    BY <1>4, TasksMade DEF Accept, Drop
  <2> QED BY <1>4, <2>2, <2>3 DEF Accept
<1>5. ASSUME NEW w \in Workers, Fail(w)
      PROVE  TypeOK'
  <2>1. RunOf(w) \in Runs
    BY <1>5, TaskShapes DEF Fail, RunOf
  <2>2. /\ status' \in [Runs -> Statuses] /\ lease' \in [Runs -> Nat]
        /\ wait' \in [Runs -> Nat]
    BY <1>5, <2>1, LeasesAssumption DEF Fail, Ends, Statuses, LeasesAssumption
  <2>3. task' \in [Workers -> Tasks]
    BY <1>5, TasksMade DEF Fail, Drop
  <2> QED BY <1>5, <2>2, <2>3 DEF Fail
<1>6. ASSUME NEW w \in Workers, Crash(w)
      PROVE  TypeOK'
  <2>1. task' \in [Workers -> Tasks]
    BY <1>6, TasksMade DEF Crash, Drop
  <2>2. spent' \in [crashes : 0..MaxFaults, losses : 0..MaxFaults, operations : 0..MaxOperations]
    BY <1>6, LeasesAssumption DEF Crash, FaultsLeft, LeasesAssumption
  <2> QED BY <1>6, <2>1, <2>2 DEF Crash, runVars
<1>7. ASSUME Tick
      PROVE  TypeOK'
  <2>1. lease' \in [Runs -> Nat] /\ wait' \in [Runs -> Nat]
    BY <1>7 DEF Tick, Less
  <2>2. task' \in [Workers -> Tasks]
    BY <1>7, TasksMade DEF Tick, Dispatching
  <2>3. spent' \in [crashes : 0..MaxFaults, losses : 0..MaxFaults, operations : 0..MaxOperations]
    BY <1>7, LeasesAssumption DEF Tick, FaultsLeft, LeasesAssumption
  <2> QED BY <1>7, <2>1, <2>2, <2>3 DEF Tick
<1>8. ASSUME NEW r \in sent, Execute(r) \/ Reject(r)
      PROVE  TypeOK'
  <2>1. ASSUME NEW result \in {"done", "failed"}, Answer(r, result)
        PROVE  task' \in [Workers -> Tasks]
    <3>1. CASE UNCHANGED task
      BY <3>1
    <3>2. ASSUME NEW w \in Workers, Dispatching(w), Returns(w, result)
          PROVE  task' \in [Workers -> Tasks]
      BY <3>2, TasksMade, TaskShapes DEF Returns, Dispatching, RunOf
    <3> QED BY <2>1, <3>1, <3>2 DEF Answer
  <2>2. task' \in [Workers -> Tasks]
    BY <1>8, <2>1 DEF Execute, Reject
  <2> QED BY <1>8, <2>2 DEF Execute, Reject, runVars
<1>9. ASSUME NEW r \in Runs,
             RetryRun(r) \/ CancelRun(r) \/ ResolveDeadLetter(r) \/ RequeueDeadLetter(r)
      PROVE  TypeOK'
  <2>1. spent' \in [crashes : 0..MaxFaults, losses : 0..MaxFaults, operations : 0..MaxOperations]
    BY <1>9, LeasesAssumption
    DEF RetryRun, CancelRun, ResolveDeadLetter, RequeueDeadLetter, Operate, LeasesAssumption
  <2>2. /\ status' \in [Runs -> Statuses] /\ lease' \in [Runs -> Nat]
        /\ attempt' \in [Runs -> 0..MaxAttempts] /\ wait' \in [Runs -> Nat]
    BY <1>9, LeasesAssumption
    DEF RetryRun, CancelRun, ResolveDeadLetter, RequeueDeadLetter, Ends, Statuses,
        LeasesAssumption
  <2> QED BY <1>9, <2>1, <2>2
      DEF RetryRun, CancelRun, ResolveDeadLetter, RequeueDeadLetter, Operate
<1>10. CASE UNCHANGED vars
  BY <1>10 DEF vars, runVars
<1> QED
  BY <1>1, <1>2, <1>3, <1>4, <1>5, <1>6, <1>7, <1>8, <1>9, <1>10 DEF Next

-----------------------------------------------------------------------------
(* What a step does to tasks, tokens and requests *)

(* A worker's task ends, goes on for the same lease, or is a new claim;    *)
(* and it is done only when the owner has executed its run.                *)
LEMMA TaskSteps ==
    ASSUME TypeOK, Next, NEW w \in Workers
    PROVE  \/ task'[w] = NoTask
           \/ /\ task[w] # NoTask /\ task'[w].run = task[w].run
              /\ task'[w].token = task[w].token
              /\ task'[w].state = "done" => task[w].state = "done" \/ task[w].run \in executed'
           \/ \E r \in Runs : Claim(w, r)
<1> USE DEF TypeOK
<1> DEFINE Kept == /\ task[w] # NoTask /\ task'[w].run = task[w].run
                   /\ task'[w].token = task[w].token
                   /\ task'[w].state = "done" =>
                         task[w].state = "done" \/ task[w].run \in executed'
<1>1. task'[w] = task[w] => task'[w] = NoTask \/ Kept
  OBVIOUS
<1>2. ASSUME NEW v \in Workers, NEW r \in Runs, Claim(v, r), v # w
      PROVE  task'[w] = task[w]
  BY <1>2 DEF Claim
<1>3. ASSUME NEW v \in Workers, Renew(v) \/ Accept(v) \/ Fail(v) \/ Crash(v)
      PROVE  task'[w] = task[w] \/ task'[w] = NoTask
  BY <1>3 DEF Renew, Accept, Fail, Crash, Drop
<1>4. ASSUME NEW v \in Workers, NEW result \in {"done", "failed"},
             Dispatching(v), Returns(v, result), result = "done" => RunOf(v) \in executed'
      PROVE  task'[w] = task[w] \/ Kept
  BY <1>4, TaskShapes DEF Returns, Dispatching, RunOf
<1>5. ASSUME NEW v \in Workers, TimeOut(v)
      PROVE  task'[w] = task[w] \/ Kept
  BY <1>4, <1>5 DEF TimeOut
<1>6. ASSUME NEW r \in sent, Execute(r) \/ Reject(r)
      PROVE  task'[w] = task[w] \/ Kept
  BY <1>4, <1>6 DEF Execute, Reject, Answer
<1>7. ASSUME Tick
      PROVE  task'[w] = task[w] \/ Kept
  <2>1. CASE Dispatching(w)
    <3>1. task[w] \in Tasks /\ task'[w] = [task[w] EXCEPT !.left = Less(@)]
      BY <1>7, <2>1 DEF Tick
    <3> QED BY <2>1, <3>1, TasksMade, TaskShapes DEF Dispatching
  <2>2. CASE ~Dispatching(w)
    BY <1>7, <2>2 DEF Tick
  <2> QED BY <2>1, <2>2
<1>8. ASSUME NEW r \in Runs,
             RetryRun(r) \/ CancelRun(r) \/ ResolveDeadLetter(r) \/ RequeueDeadLetter(r)
      PROVE  task'[w] = task[w]
  BY <1>8 DEF RetryRun, CancelRun, ResolveDeadLetter, RequeueDeadLetter, Operate
<1> QED
  BY <1>1, <1>2, <1>3, <1>5, <1>6, <1>7, <1>8 DEF Next

(* Tokens, requests and what was executed only grow, and lost leases are   *)
(* not forgotten.                                                          *)
LEMMA NothingIsForgotten ==
    ASSUME TypeOK, [Next]_vars
    PROVE  /\ \A r \in Runs : token[r] <= token'[r]
           /\ sent \subseteq sent' /\ executed \subseteq executed'
           /\ spent.losses <= spent'.losses /\ config' = config
<1> USE DEF TypeOK
<1>1. ASSUME NEW w \in Workers, NEW r \in Runs, Claim(w, r)
      PROVE  /\ \A x \in Runs : token[x] <= token'[x]
             /\ sent \subseteq sent' /\ UNCHANGED <<executed, spent, config>>
  BY <1>1 DEF Claim, NextToken
<1>2. CASE Tick
  BY <1>2 DEF Tick
<1>3. CASE /\ UNCHANGED <<token, sent, config>> /\ executed \subseteq executed'
           /\ spent'.losses = spent.losses
  BY <1>3
<1> QED
  BY <1>1, <1>2, <1>3
  DEF Next, vars, runVars, Renew, TimeOut, Accept, Fail, Crash, Execute, Reject, RetryRun,
      CancelRun, ResolveDeadLetter, RequeueDeadLetter, Operate

-----------------------------------------------------------------------------
(* The conjuncts of the invariant, one by one *)

(* A claim grants the newest token and sends the request; a task that goes *)
(* on keeps what it was granted.                                           *)
LEMMA GrantedStep ==
    ASSUME TypeOK, TypeOK', TasksAreGranted, Next
    PROVE  TasksAreGranted'
<1> SUFFICES ASSUME NEW w \in Workers, task'[w] # NoTask
             PROVE  task'[w].run \in sent' /\ task'[w].token <= token'[task'[w].run]
  BY DEF TasksAreGranted, RunOf
<1>1. CASE /\ task[w] # NoTask /\ task'[w].run = task[w].run
           /\ task'[w].token = task[w].token
  <2>1. /\ task[w].run \in sent /\ task[w].run \in Runs /\ task[w].token \in Nat
        /\ task[w].token <= token[task[w].run]
    BY <1>1, TaskShapes DEF TypeOK, TasksAreGranted, RunOf
  <2> QED BY <1>1, <2>1, NothingIsForgotten DEF TypeOK
<1>2. ASSUME NEW r \in Runs, Claim(w, r)
      PROVE  task'[w].run \in sent' /\ task'[w].token <= token'[task'[w].run]
  BY <1>2 DEF Claim, NextToken, TypeOK
<1> QED BY <1>1, <1>2, TaskSteps

(* A claim's token is newer than those of all tasks on its run.            *)
LEMMA DifferStep ==
    ASSUME TypeOK, TasksAreGranted, TokensDiffer, Next
    PROVE  TokensDiffer'
<1> DEFINE Kept(w) == /\ task[w] # NoTask /\ task'[w].run = task[w].run
                      /\ task'[w].token = task[w].token
<1>1. ASSUME NEW v \in Workers, NEW w \in Workers, v # w, task'[w] # NoTask,
             task'[v].run = task'[w].run, NEW r \in Runs, Claim(v, r)
      PROVE  task'[v].token # task'[w].token
  <2>1. /\ task'[w] = task[w] /\ task'[v].run = r /\ task'[v].token = token[r] + 1
    BY <1>1 DEF Claim, NextToken, TypeOK
  <2>2. task[w].token <= token[r] /\ task[w].token \in Nat /\ token[r] \in Nat
    BY <1>1, <2>1, TaskShapes DEF TasksAreGranted, RunOf, TypeOK
  <2> QED BY <2>1, <2>2
<1> SUFFICES ASSUME NEW v \in Workers, NEW w \in Workers, v # w,
                    task'[v] # NoTask, task'[w] # NoTask, task'[w].run = task'[v].run
             PROVE  task'[v].token # task'[w].token
  BY DEF TokensDiffer, Holds, RunOf
<1>2. /\ Kept(v) \/ \E r \in Runs : Claim(v, r)
      /\ Kept(w) \/ \E r \in Runs : Claim(w, r)
  BY TaskSteps
<1>3. CASE Kept(v) /\ Kept(w)
  BY <1>3 DEF TokensDiffer, Holds, RunOf
<1> QED BY <1>1, <1>2, <1>3

(* While no lease was lost a claim finds no task on its run, unless it was *)
(* cancelled, which no claim takes.                                        *)
LEMMA HeldByOneStep ==
    ASSUME TypeOK, TypeOK', TasksAreLeased, HeldByOne, Next
    PROVE  HeldByOne'
<1> DEFINE Kept(w) == task[w] # NoTask /\ task'[w].run = task[w].run
<1>1. ASSUME spent.losses = 0, NEW v \in Workers, NEW w \in Workers, v # w, task'[w] # NoTask,
             NEW r \in Runs, Claim(v, r), task'[w].run = r
      PROVE  FALSE
  <2>1. task'[w] = task[w]
    BY <1>1 DEF Claim, TypeOK
  <2>2. status[r] = "cancelled" \/ (status[r] = "leased" /\ ~Expired(r))
    BY <1>1, <2>1 DEF TasksAreLeased, RunOf, Fenced
  <2> QED BY <1>1, <2>2 DEF Claim
<1> SUFFICES ASSUME spent'.losses = 0, NEW v \in Workers, NEW w \in Workers, v # w,
                    task'[v] # NoTask, task'[w] # NoTask, task'[w].run = task'[v].run
             PROVE  FALSE
  BY DEF HeldByOne, Holds, RunOf
<1>2. spent.losses = 0
  BY NothingIsForgotten DEF TypeOK
<1>3. /\ Kept(v) \/ \E r \in Runs : Claim(v, r)
      /\ Kept(w) \/ \E r \in Runs : Claim(w, r)
  BY TaskSteps
<1>4. CASE Kept(v) /\ Kept(w)
  BY <1>2, <1>4 DEF HeldByOne, Holds, RunOf
<1>5. \A u \in Workers, r \in Runs : Claim(u, r) => task'[u].run = r
  BY DEF Claim, TypeOK
<1> QED BY <1>1, <1>2, <1>3, <1>4, <1>5

(* Workers renew, or commit, in time; a run another claims, ends or puts   *)
(* back is not one under a live lease.                                     *)
LEMMA LeasedStep ==
    ASSUME TypeOK, TypeOK', TasksAreLeased, HeldByOne, Next
    PROVE  TasksAreLeased'
<1> DEFINE Live(r, w) == status[r] = "leased" /\ token[r] = task[w].token /\ lease[r] # 0
           LiveNext(r, w) == status'[r] = "leased" /\ token'[r] = task'[w].token /\ lease'[r] # 0
<1> SUFFICES ASSUME spent'.losses = 0, NEW w \in Workers, task'[w] # NoTask
             PROVE  status'[task'[w].run] = "cancelled" \/ LiveNext(task'[w].run, w)
  BY DEF TasksAreLeased, Fenced, Expired, RunOf
<1> DEFINE r == task'[w].run
<1>1. spent.losses = 0
  BY NothingIsForgotten DEF TypeOK
<1>2. r \in Runs
  BY TaskShapes DEF TypeOK
<1>3. task[w] # NoTask => status[task[w].run] = "cancelled" \/ Live(task[w].run, w)
  BY <1>1 DEF TasksAreLeased, Fenced, Expired, RunOf
<1>4. ASSUME NEW v \in Workers, NEW x \in Runs, Claim(v, x)
      PROVE  status'[r] = "cancelled" \/ LiveNext(r, w)
  <2>1. config.leaseTTL # 0
    BY DEF TypeOK
  <2>2. CASE v = w
    BY <1>4, <2>1, <2>2 DEF Claim, TypeOK
  <2>3. CASE v # w
    <3>1. task'[w] = task[w]
      BY <1>4, <2>3 DEF Claim, TypeOK
    <3>2. x # r
      BY <1>3, <1>4, <3>1 DEF Claim, Expired
    <3> QED BY <1>2, <1>3, <1>4, <3>1, <3>2 DEF Claim, TypeOK
  <2> QED BY <2>2, <2>3
<1>5. ASSUME NEW v \in Workers, Renew(v)
      PROVE  status'[r] = "cancelled" \/ LiveNext(r, w)
  <2>1. task'[w] = task[w] /\ UNCHANGED <<status, token>>
    BY <1>5 DEF Renew, Drop, TypeOK
  <2>2. lease'[r] = lease[r] \/ (lease'[r] = config.leaseTTL /\ config.leaseTTL # 0)
    BY <1>2, <1>5 DEF Renew, TypeOK
  <2> QED BY <1>2, <1>3, <2>1, <2>2
<1>6. ASSUME Tick
      PROVE  status'[r] = "cancelled" \/ LiveNext(r, w)
  <2>1. AboutToLose = {}
    <3>1. spent' = [spent EXCEPT !.losses = @ + 1] => spent'.losses # 0
      BY <1>1 DEF TypeOK
    <3> QED BY <1>6, <3>1 DEF Tick
  <2>2. /\ task[w] # NoTask /\ task[w].run = r /\ task'[w].token = task[w].token
    <3>1. CASE Dispatching(w)
      <4>1. task[w] \in Tasks /\ task'[w] = [task[w] EXCEPT !.left = Less(@)]
        BY <1>6, <3>1 DEF Tick, TypeOK
      <4> QED BY <3>1, <4>1, TasksMade, TaskShapes DEF Dispatching
    <3>2. CASE ~Dispatching(w)
      BY <1>6, <3>2 DEF Tick
    <3> QED BY <3>1, <3>2
  <2>3. UNCHANGED <<status, token>> /\ (status[r] = "leased" => lease'[r] = Less(lease[r]))
    BY <1>2, <1>6 DEF Tick, TypeOK
  <2>4. Live(r, w) => lease[r] # 1
    BY <2>1, <2>2 DEF AboutToLose, Fenced, RunOf
  <2>5. lease[r] \in Nat /\ lease[r] # 0 /\ lease[r] # 1 => Less(lease[r]) # 0
    BY DEF Less
  <2>6. lease[r] \in Nat
    BY <1>2 DEF TypeOK
  <2> QED BY <1>3, <2>2, <2>3, <2>4, <2>5, <2>6
<1>7. ASSUME NEW v \in Workers, Accept(v) \/ Fail(v)
      PROVE  status'[r] = "cancelled" \/ LiveNext(r, w)
  <2>1. /\ task[v].state \in {"done", "failed"} /\ task' = [task EXCEPT ![v] = NoTask]
        /\ token' = token
    BY <1>7 DEF Accept, Fail, Drop
  <2>2. v # w /\ task'[w] = task[w] /\ task[v] # NoTask
    BY <2>1, TaskShapes DEF TypeOK
  <2>3. task[v].run # r
    BY <1>1, <2>2 DEF HeldByOne, Holds, RunOf
  <2>4. status'[r] = status[r] /\ lease'[r] = lease[r]
    BY <1>2, <1>7, <2>3 DEF Accept, Fail, Ends, RunOf, TypeOK
  <2> QED BY <1>3, <2>1, <2>2, <2>4
<1>8. ASSUME NEW x \in Runs,
             RetryRun(x) \/ CancelRun(x) \/ ResolveDeadLetter(x) \/ RequeueDeadLetter(x)
      PROVE  status'[r] = "cancelled" \/ LiveNext(r, w)
  <2>1. task' = task /\ token' = token
    BY <1>8 DEF RetryRun, CancelRun, ResolveDeadLetter, RequeueDeadLetter, Operate
  <2>2. CASE CancelRun(x)
    <3>1. x = r => status'[r] = "cancelled"
      BY <1>2, <2>2 DEF CancelRun, Ends, TypeOK
    <3>2. x # r => status'[r] = status[r] /\ lease'[r] = lease[r]
      BY <1>2, <2>2 DEF CancelRun, Ends, TypeOK
    <3> QED BY <1>3, <2>1, <3>1, <3>2
  <2>3. CASE RetryRun(x)
    BY <1>3, <2>1, <2>3 DEF RetryRun
  <2>4. CASE ResolveDeadLetter(x) \/ RequeueDeadLetter(x)
    <3>1. status[x] = "dead" /\ lease' = lease
      BY <2>4 DEF ResolveDeadLetter, RequeueDeadLetter
    <3>2. x # r
      BY <1>3, <2>1, <3>1
    <3>3. status'[r] = status[r]
      BY <1>2, <2>4, <3>2 DEF ResolveDeadLetter, RequeueDeadLetter, TypeOK
    <3> QED BY <1>3, <2>1, <3>1, <3>3
  <2> QED BY <1>8, <2>2, <2>3, <2>4
<1>9. CASE UNCHANGED runVars
  <2>1. \/ task[w] # NoTask /\ task[w].run = r /\ task'[w].token = task[w].token
        \/ \E x \in Runs : Claim(w, x)
    BY TaskSteps
  <2> QED BY <1>3, <1>4, <1>9, <2>1 DEF runVars
<1> QED
  BY <1>4, <1>5, <1>6, <1>7, <1>8, <1>9 DEF Next, TimeOut, Crash, Execute, Reject

LEMMA OutcomesStep ==
    ASSUME TypeOK, TypeOK', SentIsEntered, DoneWasExecuted, RetriesAreLeft, Next
    PROVE  SentIsEntered' /\ DoneWasExecuted' /\ RetriesAreLeft'
<1>1. ASSUME NEW r \in Runs, status'[r] # status[r]
      PROVE  /\ status'[r] # "none"
             /\ status'[r] = "retry" => attempt'[r] < MaxAttempts
  <2>1. ASSUME NEW w \in Workers, NEW x \in Runs, Claim(w, x)
        PROVE  status'[r] = "leased"
    BY <1>1, <2>1 DEF Claim, TypeOK
  <2>2. ASSUME NEW w \in Workers, Accept(w)
        PROVE  status'[r] = "accepted"
    BY <1>1, <2>2 DEF Accept, Ends, TypeOK
  <2>3. ASSUME NEW w \in Workers, Fail(w)
        PROVE  status'[r] = "dead" \/ (status'[r] = "retry" /\ attempt'[r] < MaxAttempts)
    BY <1>1, <2>3, LeasesAssumption DEF Fail, Ends, LastAttempt, TypeOK, LeasesAssumption
  <2>4. ASSUME NEW x \in Runs, RequeueDeadLetter(x)
        PROVE  status'[r] = "retry" /\ attempt'[r] < MaxAttempts
    BY <1>1, <2>4, LeasesAssumption DEF RequeueDeadLetter, TypeOK, LeasesAssumption
  <2>5. ASSUME NEW x \in Runs, CancelRun(x) \/ ResolveDeadLetter(x) \/ RetryRun(x)
        PROVE  status'[r] \in {"cancelled", "resolved"}
    BY <1>1, <2>5 DEF CancelRun, Ends, ResolveDeadLetter, RetryRun, TypeOK
  <2> QED
    BY <1>1, <2>1, <2>2, <2>3, <2>4, <2>5
    DEF Next, Renew, TimeOut, Crash, Tick, Execute, Reject, runVars
<1>2. SentIsEntered'
  <2>1. ASSUME NEW r \in sent', r \notin sent
        PROVE  status'[r] # "none"
    <3>1. PICK w \in Workers, x \in Runs : Claim(w, x)
      BY <2>1
      DEF Next, Renew, TimeOut, Accept, Fail, Crash, Tick, Execute, Reject, RetryRun, CancelRun,
          ResolveDeadLetter, RequeueDeadLetter, Operate
    <3> QED BY <2>1, <3>1 DEF Claim, TypeOK
  <2> QED BY <1>1, <2>1 DEF SentIsEntered, TypeOK
<1>3. DoneWasExecuted'
  <2> SUFFICES ASSUME NEW w \in Workers, task'[w].state = "done"
               PROVE  task'[w].run \in executed'
    BY DEF DoneWasExecuted, RunOf
  <2>1. ASSUME NEW r \in Runs, Claim(w, r)
        PROVE  task'[w].state = "dispatching"
    BY <2>1 DEF Claim, TypeOK
  <2>2. task'[w] # NoTask
    BY DEF NoTask
  <2> QED BY <2>1, <2>2, TaskSteps, NothingIsForgotten DEF DoneWasExecuted, RunOf
<1>4. RetriesAreLeft'
  <2>1. ASSUME NEW r \in Runs, status'[r] = status[r], status[r] = "retry"
        PROVE  attempt'[r] = attempt[r]
    <3>1. ASSUME NEW w \in Workers, NEW x \in Runs, Claim(w, x)
          PROVE  attempt'[r] = attempt[r]
      <4>1. x # r
        BY <2>1, <3>1 DEF Claim, TypeOK
      <4> QED BY <3>1, <4>1 DEF Claim, TypeOK
    <3>2. ASSUME NEW x \in Runs, RequeueDeadLetter(x)
          PROVE  attempt'[r] = attempt[r]
      BY <2>1, <3>2 DEF RequeueDeadLetter, TypeOK
    <3> QED
      BY <3>1, <3>2
      DEF Next, Renew, TimeOut, Accept, Fail, Crash, Tick, Execute, Reject, RetryRun, CancelRun,
          ResolveDeadLetter, runVars
  <2> QED BY <1>1, <2>1 DEF RetriesAreLeft
<1> QED BY <1>2, <1>3, <1>4

(* Only a claim of a new window adds to the backlog, and it found room;    *)
(* what an operator puts back is not counted.                              *)
LEMMA BacklogStep ==
    ASSUME TypeOK, Cardinality(Pending \ requeued) <= config.maxPending, Next
    PROVE  (Cardinality(Pending \ requeued) <= config.maxPending)'
<1> DEFINE Counted == Pending \ requeued
<1>1. /\ Pending \subseteq Runs /\ IsFiniteSet(Pending) /\ IsFiniteSet(Counted)
      /\ Cardinality(Pending) \in Nat /\ Cardinality(Counted) \in Nat
  <2>1. Pending \subseteq Runs /\ Counted \subseteq Pending
    BY DEF Pending
  <2>2. IsFiniteSet(Pending)
    BY <2>1, LeasesAssumption, FS_Subset DEF LeasesAssumption
  <2> QED BY <2>1, <2>2, FS_Subset, FS_CardinalityType
<1>2. config' = config /\ config.maxPending \in Nat
  BY NothingIsForgotten, LeasesAssumption DEF TypeOK, LeasesAssumption
<1>3. CASE Counted' \subseteq Counted
  <2>1. IsFiniteSet(Counted') /\ Cardinality(Counted') <= Cardinality(Counted)
    BY <1>1, <1>3, FS_Subset
  <2>2. Cardinality(Counted') \in Nat
    BY <2>1, FS_CardinalityType
  <2> QED BY <1>1, <1>2, <2>1, <2>2
<1>4. ASSUME NEW w \in Workers, NEW r \in Runs, Claim(w, r)
      PROVE  (Cardinality(Counted) <= config.maxPending)'
  <2>1. CASE status[r] = "none"
    <3>1. Pending' = Pending \cup {r} /\ r \notin Pending /\ requeued' = requeued
      BY <1>4, <2>1 DEF Claim, Pending, TypeOK
    <3>2. Cardinality(Pending) < config.maxPending
      BY <1>4, <2>1 DEF Claim, BacklogHasRoom
    <3>3. IsFiniteSet(Pending') /\ Cardinality(Pending') = Cardinality(Pending) + 1
      BY <1>1, <3>1, FS_AddElement
    <3>4. Counted' \subseteq Pending'
      OBVIOUS
    <3>5. Cardinality(Counted') <= Cardinality(Pending') /\ Cardinality(Counted') \in Nat
      BY <3>3, <3>4, FS_Subset, FS_CardinalityType
    <3> QED BY <1>1, <1>2, <3>2, <3>3, <3>5
  <2>2. CASE status[r] # "none"
    <3>1. Counted' = Counted
      BY <1>4, <2>2 DEF Claim, Pending, TypeOK
    <3> QED BY <1>3, <3>1
  <2> QED BY <2>1, <2>2
<1>5. ASSUME NEW w \in Workers, Accept(w) \/ Fail(w)
      PROVE  Counted' \subseteq Counted
  <2>1. requeued' = requeued
    BY <1>5 DEF Accept, Fail
  <2>2. status' = status \/ (Fenced(w) /\ \E s : status' = [status EXCEPT ![RunOf(w)] = s])
    BY <1>5 DEF Accept, Fail, Ends
  <2>3. Pending' \subseteq Pending
    BY <2>2 DEF Pending, Fenced, TypeOK
  <2> QED BY <2>1, <2>3
<1>6. ASSUME NEW r \in Runs,
             RetryRun(r) \/ CancelRun(r) \/ ResolveDeadLetter(r) \/ RequeueDeadLetter(r)
      PROVE  Counted' \subseteq Counted
  BY <1>6
  DEF RetryRun, CancelRun, ResolveDeadLetter, RequeueDeadLetter, Ends, Pending, TypeOK
<1> QED
  BY <1>3, <1>4, <1>5, <1>6 
  DEF Next, Renew, TimeOut, Crash, Tick, Execute, Reject, runVars, Pending

-----------------------------------------------------------------------------

(* Tokens tell tasks apart, only a lost lease lets a second worker in, and *)
(* the backlog is bounded: the inductive invariant always holds.           *)
THEOREM LeasesSafe == Spec => []LeaseInvariant
<1>1. Init => LeaseInvariant
  <2> SUFFICES ASSUME Init PROVE LeaseInvariant
    OBVIOUS
  <2>1. TypeOK
    BY InitTyped
  <2>2. \A w \in Workers : task[w] = NoTask /\ task[w].state = "idle"
    BY DEF Init, NoTask
  <2>3. \A r \in Runs : status[r] = "none"
    BY DEF Init
  <2>4. Cardinality(Pending \ requeued) <= config.maxPending
    <3>1. Pending \ requeued = {}
      BY <2>3 DEF Pending
    <3>2. config.maxPending \in Nat
      BY <2>1, LeasesAssumption DEF TypeOK, LeasesAssumption
    <3> QED BY <3>1, <3>2, FS_EmptySet
  <2>5. sent = {}
    BY DEF Init
  <2> QED
    BY <2>1, <2>2, <2>3, <2>4, <2>5
    DEF LeaseInvariant, TasksAreGranted, TokensDiffer, TasksAreLeased, HeldByOne, SentIsEntered,
        DoneWasExecuted, RetriesAreLeft
<1>2. LeaseInvariant /\ [Next]_vars => LeaseInvariant'
  <2> SUFFICES ASSUME LeaseInvariant, [Next]_vars PROVE LeaseInvariant'
    OBVIOUS
  <2>1. TypeOK'
    BY TypeStep DEF LeaseInvariant
  <2>2. CASE Next
    BY <2>1, <2>2, GrantedStep, DifferStep, LeasedStep, HeldByOneStep, OutcomesStep, BacklogStep
    DEF LeaseInvariant
  <2>3. CASE UNCHANGED vars
    BY <2>3
    DEF vars, runVars, LeaseInvariant, TypeOK, TasksAreGranted, TokensDiffer, TasksAreLeased,
        HeldByOne, SentIsEntered, DoneWasExecuted, RetriesAreLeft, Fenced, Expired, Holds,
        RunOf, Pending
  <2> QED BY <2>2, <2>3
<1> QED BY <1>1, <1>2, PTL DEF Spec

(* Two workers work on one run only after a lease was lost, and never with *)
(* the same token.                                                         *)
THEOREM LeasesExclude == Spec => []OverlapOnlyAfterLoss
<1>1. LeaseInvariant => OverlapOnlyAfterLoss
  <2> SUFFICES ASSUME LeaseInvariant, NEW r \in Runs, NEW v \in Workers, NEW w \in Workers,
                      v # w, Holds(v, r), Holds(w, r)
               PROVE  spent.losses > 0 /\ task[v].token # task[w].token
    BY DEF OverlapOnlyAfterLoss
  <2>1. task[v].token # task[w].token
    BY DEF LeaseInvariant, TokensDiffer, Holds
  <2>2. spent.losses # 0
    BY DEF LeaseInvariant, HeldByOne, Holds
  <2>3. spent.losses \in Nat
    BY LeasesAssumption DEF LeaseInvariant, TypeOK, LeasesAssumption
  <2> QED BY <2>1, <2>2, <2>3
<1> QED BY <1>1, LeasesSafe, PTL

(* The backlog keeps to its limit, but for what operators put back.        *)
THEOREM BacklogIsBounded == Spec => []BacklogWithinLimit
<1>1. LeaseInvariant => BacklogWithinLimit
  BY DEF LeaseInvariant, BacklogWithinLimit
<1> QED BY <1>1, LeasesSafe, PTL

(* No step but the newest token's holder's, or an operator's, ends or      *)
(* postpones a leased run.                                                 *)
THEOREM HoldersCommit == Spec => OnlyTheHolderCommits
<1> DEFINE Commits == \A r \in Runs :
              status[r] = "leased" /\ status'[r] \notin {"leased", "cancelled"} =>
                  \E w \in Workers : /\ Holds(w, r) /\ task[w].token = token[r]
                                     /\ task'[w] = NoTask
<1>1. LeaseInvariant /\ [Next]_vars => [Commits]_vars
  <2> SUFFICES ASSUME LeaseInvariant, Next, NEW r \in Runs,
                      status[r] = "leased", status'[r] \notin {"leased", "cancelled"}
               PROVE  \E w \in Workers : /\ Holds(w, r) /\ task[w].token = token[r]
                                         /\ task'[w] = NoTask
    OBVIOUS
  <2> USE DEF LeaseInvariant, TypeOK
  <2>1. ASSUME NEW w \in Workers, Accept(w) \/ Fail(w)
        PROVE  Holds(w, r) /\ task[w].token = token[r] /\ task'[w] = NoTask
    <3>1. task[w].state \in {"done", "failed"} /\ task' = [task EXCEPT ![w] = NoTask]
      BY <2>1 DEF Accept, Fail, Drop
    <3>2. RunOf(w) = r /\ Fenced(w)
      BY <2>1 DEF Accept, Fail, Ends
    <3> QED BY <3>1, <3>2, TaskShapes DEF Holds, Fenced
  <2>2. ~\E w \in Workers, x \in Runs : Claim(w, x)
    BY DEF Claim
  <2>3. ~\E x \in Runs : \/ RetryRun(x) \/ CancelRun(x)
                          \/ ResolveDeadLetter(x) \/ RequeueDeadLetter(x)
    BY DEF RetryRun, CancelRun, ResolveDeadLetter, RequeueDeadLetter, Ends
  <2> QED
    BY <2>1, <2>2, <2>3 DEF Next, Renew, TimeOut, Crash, Tick, Execute, Reject, runVars
<1> QED BY <1>1, LeasesSafe, PTL DEF Spec, OnlyTheHolderCommits

-----------------------------------------------------------------------------
(* RunLeases implements RunOutcomes *)

outcomes == [r \in Runs |-> Outcome(r)]

(* A step that keeps a run among the pending, or leaves it alone, is a     *)
(* stutter of the abstract specification, unless the owner executes.       *)
LEMMA StepRefines ==
    ASSUME LeaseInvariant, Next
    PROVE  RunOutcomesSpec!ONext \/ UNCHANGED RunOutcomesSpec!ovars
<1> USE DEF LeaseInvariant, TypeOK
<1>1. ASSUME NEW r \in Runs, NEW s, status' = [status EXCEPT ![r] = s]
      PROVE  outcomes' = [outcomes EXCEPT ![r] = IF s \in {"leased", "retry"} THEN "pending" ELSE s]
  BY <1>1 DEF outcomes, Outcome
<1>2. \A r \in Runs : outcomes[r] = Outcome(r)
  BY DEF outcomes
<1>3. status' = status => outcomes' = outcomes
  BY DEF outcomes, Outcome
<1>4. ASSUME NEW w \in Workers, NEW r \in Runs, Claim(w, r)
      PROVE  RunOutcomesSpec!Enter(r) \/ UNCHANGED RunOutcomesSpec!ovars
  <2>1. outcomes' = [outcomes EXCEPT ![r] = "pending"] /\ executed' = executed
    BY <1>1, <1>4 DEF Claim
  <2>2. CASE status[r] = "none"
    BY <1>2, <2>1, <2>2 DEF Outcome, outcomes, RunOutcomesSpec!Enter, RunOutcomesSpec!Becomes
  <2>3. CASE status[r] # "none"
    <3>1. outcomes[r] = "pending"
      BY <1>2, <1>4, <2>3 DEF Claim, Outcome
    <3>2. outcomes' = outcomes
      BY <2>1, <3>1 DEF outcomes
    <3> QED BY <2>1, <3>2 DEF RunOutcomesSpec!ovars, outcomes
  <2> QED BY <2>2, <2>3
<1>5. ASSUME NEW r \in sent, Execute(r)
      PROVE  RunOutcomesSpec!Do(r)
  <2>1. outcomes[r] # "none"
    BY <1>2 DEF SentIsEntered, Outcome
  <2> QED BY <1>3, <1>5, <2>1 DEF Execute, runVars, RunOutcomesSpec!Do, outcomes
<1>6. ASSUME NEW w \in Workers, Accept(w), Fenced(w)
      PROVE  RunOf(w) \in Runs /\ RunOutcomesSpec!Accept(RunOf(w))
  <2>1. RunOf(w) \in Runs /\ RunOf(w) \in executed
    BY <1>6 DEF Accept, DoneWasExecuted
  <2>2. outcomes[RunOf(w)] = "pending"
    BY <1>2, <1>6, <2>1 DEF Fenced, Outcome
  <2>3. outcomes' = [outcomes EXCEPT ![RunOf(w)] = "accepted"] /\ executed' = executed
    BY <1>1, <1>6, <2>1 DEF Accept, Ends
  <2> QED
    BY <2>1, <2>2, <2>3 DEF outcomes, RunOutcomesSpec!Accept, RunOutcomesSpec!Becomes
<1>7. ASSUME NEW w \in Workers, Fail(w), Fenced(w)
      PROVE  \/ RunOf(w) \in Runs /\ RunOutcomesSpec!GiveUp(RunOf(w))
             \/ UNCHANGED RunOutcomesSpec!ovars
  <2>1. RunOf(w) \in Runs
    BY <1>7, TaskShapes DEF Fail, RunOf
  <2>2. outcomes[RunOf(w)] = "pending" /\ executed' = executed
    BY <1>2, <1>7, <2>1 DEF Fail, Fenced, Outcome
  <2>3. CASE status' = [status EXCEPT ![RunOf(w)] = "dead"]
    <3>1. outcomes' = [outcomes EXCEPT ![RunOf(w)] = "dead"]
      BY <1>1, <2>1, <2>3
    <3> QED
      BY <2>1, <2>2, <3>1 DEF outcomes, RunOutcomesSpec!GiveUp, RunOutcomesSpec!Becomes
  <2>4. CASE status' = [status EXCEPT ![RunOf(w)] = "retry"]
    <3>1. outcomes' = [outcomes EXCEPT ![RunOf(w)] = "pending"]
      BY <1>1, <2>1, <2>4
    <3>2. outcomes' = outcomes
      BY <2>1, <2>2, <3>1 DEF outcomes
    <3> QED BY <2>2, <3>2 DEF outcomes, RunOutcomesSpec!ovars
  <2> QED BY <1>7, <2>3, <2>4 DEF Fail, Ends
<1>8. ASSUME NEW r \in Runs, CancelRun(r)
      PROVE  RunOutcomesSpec!Cancel(r)
  <2>1. outcomes[r] = "pending"
    BY <1>2, <1>8 DEF CancelRun, Pending, Outcome
  <2>2. outcomes' = [outcomes EXCEPT ![r] = "cancelled"] /\ executed' = executed
    BY <1>1, <1>8 DEF CancelRun, Ends, Operate
  <2> QED BY <2>1, <2>2 DEF outcomes, RunOutcomesSpec!Cancel, RunOutcomesSpec!Becomes
<1>9. ASSUME NEW r \in Runs, ResolveDeadLetter(r)
      PROVE  RunOutcomesSpec!Resolve(r)
  <2>1. outcomes[r] = "dead"
    BY <1>2, <1>9 DEF ResolveDeadLetter, Outcome
  <2>2. outcomes' = [outcomes EXCEPT ![r] = "resolved"] /\ executed' = executed
    BY <1>1, <1>9 DEF ResolveDeadLetter, Operate
  <2> QED BY <2>1, <2>2 DEF outcomes, RunOutcomesSpec!Resolve, RunOutcomesSpec!Becomes
<1>10. ASSUME NEW r \in Runs, RequeueDeadLetter(r)
       PROVE  RunOutcomesSpec!Requeue(r)
  <2>1. outcomes[r] = "dead"
    BY <1>2, <1>10 DEF RequeueDeadLetter, Outcome
  <2>2. outcomes' = [outcomes EXCEPT ![r] = "pending"] /\ executed' = executed
    BY <1>1, <1>10 DEF RequeueDeadLetter, Operate
  <2> QED BY <2>1, <2>2 DEF outcomes, RunOutcomesSpec!Requeue, RunOutcomesSpec!Becomes
<1>11. CASE UNCHANGED <<status, executed>>
  BY <1>3, <1>11 DEF RunOutcomesSpec!ovars, outcomes
<1> QED
  <2>1. ASSUME NEW w \in Workers, Accept(w) \/ Fail(w), ~Fenced(w)
        PROVE  UNCHANGED <<status, executed>>
    BY <2>1 DEF Accept, Fail
  <2>2. ASSUME NEW r \in sent
        PROVE  r \in Runs
    OBVIOUS
  <2> QED
    BY <1>4, <1>5, <1>6, <1>7, <1>8, <1>9, <1>10, <1>11, <2>1, <2>2
    DEF Next, Tick, Renew, TimeOut, Crash, Reject, RetryRun, runVars, Operate,
        RunOutcomesSpec!ONext

(* The store keeps the abstract promise: every run is entered once and     *)
(* ends once, accepted only if the owner executed it, whatever late        *)
(* workers, crashes and operators do.                                      *)
THEOREM LeasesImplementOutcomes == Spec => ImplementsOutcomes
<1>1. Init => RunOutcomesSpec!OInit
  BY DEF Init, RunOutcomesSpec!OInit, Outcome
<1>2. LeaseInvariant /\ [Next]_vars => [RunOutcomesSpec!ONext]_(RunOutcomesSpec!ovars)
  <2>1. ASSUME UNCHANGED vars
        PROVE  UNCHANGED RunOutcomesSpec!ovars
    BY <2>1 DEF vars, runVars, RunOutcomesSpec!ovars, Outcome
  <2> QED BY <2>1, StepRefines
<1> QED
  BY <1>1, <1>2, LeasesSafe, PTL DEF Spec, ImplementsOutcomes, RunOutcomesSpec!OSpec
=============================================================================
