---------------------------- MODULE CallbackDispatch ----------------------------
(***************************************************************************)
(* The Dispatch Gateway: Remote.Dispatch sends a resolved target to a      *)
(* Runtime, in a bounded number of attempts over a network that loses,     *)
(* delays and reorders, and the Runtime claims each request durably by its *)
(* idempotency key before it invokes the downstream owner.                 *)
(*                                                                         *)
(* The client, the signature's freshness and the replay rule are the       *)
(* SDK's.  The receiver's claims and the downstream owner are its users,   *)
(* modelled from EvaluateCallbackReplay's contract.                        *)
(***************************************************************************)
EXTENDS Integers, FiniteSets

CONSTANTS Dispatches,    \* calls of Dispatch
          Errands,       \* what the calls may be for: per call the application,
                         \* the idempotency key, the execution and the exact
                         \* bytes of its request
          Runtime,       \* the Runtime the credential is bound to
          MaxAttempts, MaxClockSkew,
          MaxNow,        \* bound: time stops here
          MaxCrashes     \* bound: receivers lost between two steps

ASSUME DispatchAssumption ==
    /\ MaxAttempts \in Nat \ {0} /\ MaxClockSkew \in Nat
    /\ MaxNow \in Nat /\ MaxCrashes \in Nat

VARIABLES
    call,       \* per dispatch: its errand, state, attempt and outcome
    requests,   \* signed requests under way
    responses,  \* responses under way
    claims,     \* the receiver's durable claims, one per key once claimed
    handlers,   \* requests a receiver is working on, with the claim's fence
    executed,   \* what the downstream owner has done: keys and bodies
    now, crashes

vars == <<call, requests, responses, claims, handlers, executed, now, crashes>>
network == <<requests, responses>>
receiver == <<claims, handlers, executed>>

Keys == {errand[d].key : errand \in Errands, d \in Dispatches}
KeyOf(d) == call[d].errand.key
ExecutionOf(d) == call[d].errand.execution
BodyOf(d) == call[d].errand.body
NoClaim == [state |-> "none"]

Init ==
    /\ \E errand \in Errands :
          call = [d \in Dispatches |->
                     [errand |-> errand[d], state |-> "idle", attempt |-> 0, outcome |-> "none"]]
    /\ requests = {} /\ responses = {}
    /\ claims = [k \in Keys |-> NoClaim] /\ handlers = {} /\ executed = {}
    /\ now = 0 /\ crashes = 0

-----------------------------------------------------------------------------
(* The client *)

Become(d, state, attempt, outcome) ==
    call' = [call EXCEPT ![d] = [errand |-> call[d].errand, state |-> state,
                                 attempt |-> attempt, outcome |-> outcome]]

(* The credential is bound to one Runtime: another application's request   *)
(* is refused before anything is sent.                                     *)
Begin(d) ==
    /\ call[d].state = "idle"
    /\ IF call[d].errand.application = Runtime THEN Become(d, "sending", 1, "none")
       ELSE Become(d, "returned", 0, "authentication")
    /\ UNCHANGED <<network, receiver, now, crashes>>

(* perform signs the body anew with the time of the attempt. *)
Send(d) ==
    /\ call[d].state = "sending"
    /\ requests' = requests \cup
            {[dispatch |-> d, attempt |-> call[d].attempt, signedAt |-> now]}
    /\ Become(d, "awaiting", call[d].attempt, "none")
    /\ UNCHANGED <<responses, receiver, now, crashes>>

Retryable(status) == status = 429 \/ status >= 500

(* CallbackError.Is, and the errors perform returns itself *)
ErrorKind(status) ==
    CASE status \in {400, 422}       -> "invalid"
      [] status = 401                -> "authentication"
      [] status \in {403, 404, 405}  -> "rejected"
      [] status = 409                -> "conflict"
      [] Retryable(status)           -> "retryable"
      [] OTHER                       -> "failed"

LastAttempt(d) == call[d].attempt = MaxAttempts

(* A faulty variant: the count starts again. *)
RetryForever(d, outcome) ==
    Become(d, "pausing", IF LastAttempt(d) THEN 0 ELSE call[d].attempt, "none")

RetryOrReturn(d, outcome) ==
    IF LastAttempt(d) THEN Become(d, "returned", call[d].attempt, outcome)
    ELSE Become(d, "pausing", call[d].attempt, "none")

(* A faulty variant: any receipt will do. *)
AnyReceipt(d, receipt) == TRUE

(* The receipt is not empty and names the execution asked for. *)
ReceiptFits(d, receipt) == receipt # "none" /\ receipt = ExecutionOf(d)

Receive(d) ==
    \E r \in responses :
        /\ r.dispatch = d /\ responses' = responses \ {r}
        /\ \/ /\ r.status = 200
              /\ Become(d, "returned", call[d].attempt,
                        IF ReceiptFits(d, r.receipt) THEN "accepted" ELSE "response_invalid")
           \/ Retryable(r.status) /\ RetryOrReturn(d, "retryable")
           \/ /\ r.status # 200 /\ ~Retryable(r.status)
              /\ Become(d, "returned", call[d].attempt, ErrorKind(r.status))
        /\ UNCHANGED <<requests, receiver, now, crashes>>

(* The request timed out or the connection broke, and a response under way *)
(* is lost with it: whether the receiver saw the request is not known.     *)
TransportError(d) ==
    /\ call[d].state = "awaiting" /\ RetryOrReturn(d, "retryable")
    /\ responses' = {r \in responses : r.dispatch # d}
    /\ UNCHANGED <<requests, receiver, now, crashes>>

Resume(d) ==
    /\ call[d].state = "pausing" /\ Become(d, "sending", call[d].attempt + 1, "none")
    /\ UNCHANGED <<network, receiver, now, crashes>>

(* The caller's context is done while Dispatch waits to try again. *)
Cancel(d) ==
    /\ call[d].state = "pausing" /\ Become(d, "returned", call[d].attempt, "cancelled")
    /\ UNCHANGED <<network, receiver, now, crashes>>

-----------------------------------------------------------------------------
(* The receiver *)

(* verifyTimestamp *)
Fresh(r) == now - r.signedAt <= MaxClockSkew /\ r.signedAt - now <= MaxClockSkew

(* Faulty variants: the bytes are not compared; every repetition conflicts. *)
ReplayByKey(current, body) == IF current.state = "none" THEN "claim" ELSE "replay"
ReplayNever(current, body) == IF current.state = "none" THEN "claim" ELSE "conflict"

EvaluateCallbackReplay(current, body) ==
    CASE current.state = "none" -> "claim"
      [] current.state # "none" /\ current.body # body -> "conflict"
      [] current.state # "none" /\ current.body = body -> "replay"

(* Nobody hears the answer to an attempt that was given up. *)
Answer(r, status, receipt) ==
    responses' =
        IF call[r.dispatch].state = "awaiting" /\ call[r.dispatch].attempt = r.attempt
        THEN responses \cup {[dispatch |-> r.dispatch, status |-> status, receipt |-> receipt]}
        ELSE responses

Claim(r, fence) ==
    /\ claims' = [claims EXCEPT ![KeyOf(r.dispatch)] =
            [state |-> "active", body |-> BodyOf(r.dispatch),
             execution |-> ExecutionOf(r.dispatch), fence |-> fence]]
    /\ handlers' = handlers \cup {[request |-> r, fence |-> fence]}
    /\ UNCHANGED <<responses, executed>>

(* A request arrives: a stale signature and different bytes are refused; a *)
(* new key and an expired claim are claimed; a terminal claim answers with *)
(* its receipt and an active one asks to come back.                        *)
Arrive(r) ==
    LET claim == claims[KeyOf(r.dispatch)]
        verdict == EvaluateCallbackReplay(claim, BodyOf(r.dispatch))
    IN  /\ requests' = requests \ {r}
        /\ \/ /\ ~Fresh(r) /\ Answer(r, 401, "none") /\ UNCHANGED receiver
           \/ /\ Fresh(r) /\ verdict = "conflict"
              /\ Answer(r, 409, "none") /\ UNCHANGED receiver
           \/ /\ Fresh(r) /\ verdict = "claim" /\ Claim(r, 1)
           \/ /\ Fresh(r) /\ verdict = "replay" /\ claim.state = "expired"
              /\ Claim(r, claim.fence + 1)
           \/ /\ Fresh(r) /\ verdict = "replay" /\ claim.state = "active"
              /\ Answer(r, 503, "none") /\ UNCHANGED receiver
           \/ /\ Fresh(r) /\ verdict = "replay" /\ claim.state = "terminal"
              /\ Answer(r, 200, claim.execution) /\ UNCHANGED receiver
        /\ UNCHANGED <<call, now, crashes>>

(* The downstream owner does a key's work once and repeats its receipt. *)
Invoke(h) ==
    /\ LET done == [key |-> KeyOf(h.request.dispatch), body |-> BodyOf(h.request.dispatch)]
       IN  done \notin executed /\ executed' = executed \cup {done}
    /\ UNCHANGED <<call, network, claims, handlers, now, crashes>>

(* The work is done: the claim is terminal unless another handler has      *)
(* taken it over, who then answers for it.                                 *)
Complete(h) ==
    LET key == KeyOf(h.request.dispatch)
        body == BodyOf(h.request.dispatch)
    IN  /\ [key |-> key, body |-> body] \in executed
        /\ handlers' = handlers \ {h}
        /\ \/ /\ claims[key].fence = h.fence
              /\ claims' = [claims EXCEPT ![key].state = "terminal"]
              /\ Answer(h.request, 200, ExecutionOf(h.request.dispatch))
           \/ /\ claims[key].fence # h.fence
              /\ Answer(h.request, 503, "none") /\ UNCHANGED claims
        /\ UNCHANGED <<call, requests, executed, now, crashes>>

(* A handler dies; its claim stays active until it expires. *)
Crash(h) ==
    /\ crashes < MaxCrashes /\ crashes' = crashes + 1 /\ handlers' = handlers \ {h}
    /\ UNCHANGED <<call, network, claims, executed, now>>

(* A claim expires with time, its handler alive or not. *)
Expire(k) ==
    /\ claims[k].state = "active" /\ claims' = [claims EXCEPT ![k].state = "expired"]
    /\ UNCHANGED <<call, network, handlers, executed, now, crashes>>

-----------------------------------------------------------------------------
(* The network.  A message that never arrives is lost; one that arrives    *)
(* after its sender gave it up is late.                                    *)

(* Something between the two answers in the receiver's place, with an      *)
(* error or with an empty receipt.                                         *)
Intercept(r) ==
    /\ requests' = requests \ {r}
    /\ \E status \in {200, 403, 429} : Answer(r, status, "none")
    /\ UNCHANGED <<call, receiver, now, crashes>>

(* A success response is cut off, longer than the caller reads or not      *)
(* JSON: its receipt does not come, though the work is done.               *)
Truncate(r) ==
    /\ r.status = 200 /\ r.receipt # "none"
    /\ responses' = (responses \ {r}) \cup {[r EXCEPT !.receipt = "none"]}
    /\ UNCHANGED <<call, requests, receiver, now, crashes>>

Tick ==
    /\ now < MaxNow /\ now' = now + 1
    /\ UNCHANGED <<call, network, receiver, crashes>>

Client(d) ==
    Begin(d) \/ Send(d) \/ Receive(d) \/ TransportError(d) \/ Resume(d) \/ Cancel(d)

Environment ==
    \/ Tick
    \/ \E r \in requests : Arrive(r) \/ Intercept(r)
    \/ \E r \in responses : Truncate(r)
    \/ \E h \in handlers : Invoke(h) \/ Complete(h) \/ Crash(h)
    \/ \E k \in Keys : Expire(k)

Next == Environment \/ \E d \in Dispatches : Client(d)

DispatchSpec == Init /\ [][Next]_vars

(* A call goes on: it reads what arrives, gives up on what does not within *)
(* its request timeout, and its pauses end.                                *)
FairDispatchSpec == DispatchSpec /\ \A d \in Dispatches : WF_vars(Client(d))

-----------------------------------------------------------------------------

Outcomes == {"none", "accepted", "response_invalid", "invalid", "authentication", "rejected",
             "conflict", "retryable", "failed", "cancelled"}
ErrandsOfCalls == {errand[d] : errand \in Errands, d \in Dispatches}
Bodies == {errand.body : errand \in ErrandsOfCalls}
Executions == {errand.execution : errand \in ErrandsOfCalls}
Requests == [dispatch : Dispatches, attempt : 1..MaxAttempts, signedAt : 0..MaxNow]
Responses == [dispatch : Dispatches, status : {200, 401, 403, 409, 429, 503},
              receipt : Executions \cup {"none"}]
Claims == {NoClaim} \cup [state : {"active", "expired", "terminal"}, body : Bodies,
                         execution : Executions, fence : Nat \ {0}]

TypeOK ==
    /\ call \in [Dispatches ->
          [errand : ErrandsOfCalls, state : {"idle", "sending", "awaiting", "pausing", "returned"},
           attempt : 0..MaxAttempts, outcome : Outcomes]]
    /\ requests \subseteq Requests /\ responses \subseteq Responses
    /\ claims \in [Keys -> Claims] /\ handlers \subseteq [request : Requests, fence : Nat \ {0}]
    /\ executed \subseteq [key : Keys, body : Bodies]
    /\ now \in 0..MaxNow /\ crashes \in 0..MaxCrashes

(* A call counts its attempts from 1 and keeps one for every pause.        *)
AttemptsAreCounted ==
    \A d \in Dispatches :
        /\ call[d].state = "idle" => call[d].attempt = 0
        /\ call[d].state \in {"sending", "awaiting", "pausing"} => call[d].attempt > 0
        /\ call[d].state = "pausing" => call[d].attempt < MaxAttempts

(* An attempt is under way once: as a request, with a handler or, while it *)
(* is the one its call awaits, as a response.                              *)
UnderWay == requests \cup {h.request : h \in handlers}
OfAttempt(m, d, n) == m.dispatch = d /\ m.attempt = n

AnsweredOnce ==
    /\ \A m \in UnderWay :
          /\ m.attempt <= call[m.dispatch].attempt
          /\ call[m.dispatch].state = "sending" => m.attempt < call[m.dispatch].attempt
    /\ \A m, n \in requests : OfAttempt(m, n.dispatch, n.attempt) => m = n
    /\ \A g, h \in handlers : OfAttempt(g.request, h.request.dispatch, h.request.attempt) => g = h
    /\ \A m \in requests, h \in handlers : ~OfAttempt(m, h.request.dispatch, h.request.attempt)
    /\ \A r \in responses :
          /\ call[r.dispatch].state = "awaiting"
          /\ \A s \in responses : s.dispatch = r.dispatch => s = r
          /\ \A m \in UnderWay : ~OfAttempt(m, r.dispatch, call[r.dispatch].attempt)

(* A key, once claimed, is for one body for ever: that of its handlers and *)
(* of what was executed.                                                   *)
ClaimedFor(key, body) == claims[key].state # "none" /\ claims[key].body = body

KeysKeepTheirBody ==
    /\ \A h \in handlers : ClaimedFor(KeyOf(h.request.dispatch), BodyOf(h.request.dispatch))
    /\ \A e \in executed : ClaimedFor(e.key, e.body)

Done(d) == [key |-> KeyOf(d), body |-> BodyOf(d)] \in executed
TakenByOther(d) == claims[KeyOf(d)].state # "none" /\ claims[KeyOf(d)].body # BodyOf(d)

TerminalWasExecuted ==
    \A k \in Keys : claims[k].state = "terminal" => [key |-> k, body |-> claims[k].body] \in executed

(* An answer was true when it was given, and stays true. *)
AnswersAreTrue ==
    /\ \A r \in responses :
          /\ r.status = 200 /\ ReceiptFits(r.dispatch, r.receipt) => Done(r.dispatch)
          /\ r.status = 409 => TakenByOther(r.dispatch)
    /\ \A d \in Dispatches :
          /\ call[d].outcome = "accepted" => Done(d)
          /\ call[d].outcome = "conflict" => TakenByOther(d)

(* The inductive invariant of the proofs *)
DispatchInvariant ==
    /\ TypeOK /\ AttemptsAreCounted /\ AnsweredOnce
    /\ KeysKeepTheirBody /\ TerminalWasExecuted /\ AnswersAreTrue

(* The downstream owner is never given two bodies under one key, whatever  *)
(* crashed, expired or came late.                                          *)
OneBodyPerKey == \A e, f \in executed : e.key = f.key => e.body = f.body

(* A call that reports acceptance had its own body executed. *)
AcceptedWasExecuted ==
    \A d \in Dispatches : call[d].outcome = "accepted"
        => [key |-> KeyOf(d), body |-> BodyOf(d)] \in executed

(* A conflict is a conflict of content: the call's own body neither was    *)
(* nor will be executed, so an exact retry never meets one.                *)
ConflictIsFinal ==
    [][\A d \in Dispatches : call[d].outcome = "conflict"
            => [key |-> KeyOf(d), body |-> BodyOf(d)] \notin executed']_vars

(* Every call of Dispatch returns. *)
DispatchReturns == \A d \in Dispatches : <>(call[d].state = "returned")
=============================================================================
