------------------------- MODULE CallbackDispatchProofs -------------------------
(***************************************************************************)
(* Proofs about CallbackDispatch for every set of calls and errands, every *)
(* number of attempts, every clock skew and every bound.                   *)
(***************************************************************************)
EXTENDS CallbackDispatch, TLAPS

(* A step of the client changes one call, and never its errand.            *)
LEMMA BecomeOnly ==
    ASSUME TypeOK, NEW d \in Dispatches, NEW state, NEW attempt, NEW outcome,
           Become(d, state, attempt, outcome)
    PROVE  /\ call'[d] = [errand |-> call[d].errand, state |-> state, attempt |-> attempt,
                          outcome |-> outcome]
           /\ \A c \in Dispatches : c # d => call'[c] = call[c]
           /\ call' = [c \in Dispatches |-> call'[c]]
<1>1. call[d] = [errand |-> call[d].errand, state |-> call[d].state,
                 attempt |-> call[d].attempt, outcome |-> call[d].outcome]
  BY DEF TypeOK
<1>2. call' = [call EXCEPT ![d] = [errand |-> call[d].errand, state |-> state,
                                   attempt |-> attempt, outcome |-> outcome]]
  BY <1>1 DEF Become
<1> QED BY <1>2 DEF TypeOK

LEMMA ErrandsAreTyped ==
    ASSUME TypeOK, NEW d \in Dispatches
    PROVE  KeyOf(d) \in Keys /\ BodyOf(d) \in Bodies /\ ExecutionOf(d) \in Executions
<1>1. PICK errand \in Errands, c \in Dispatches : call[d].errand = errand[c]
  BY DEF TypeOK, ErrandsOfCalls
<1> QED BY <1>1 DEF KeyOf, BodyOf, ExecutionOf, Keys, Bodies, Executions, ErrandsOfCalls

(* A claim is empty, or has a body, an execution and a fence.              *)
LEMMA ClaimShapes ==
    ASSUME NEW c \in Claims
    PROVE  \/ c = NoClaim /\ c.state = "none"
           \/ /\ c.state \in {"active", "expired", "terminal"} /\ c.body \in Bodies
              /\ c.execution \in Executions /\ c.fence \in Nat \ {0}
              /\ c = [state |-> c.state, body |-> c.body, execution |-> c.execution,
                      fence |-> c.fence]
BY DEF Claims, NoClaim

(* What is left of a response whose receipt does not come                  *)
LEMMA TruncatedShape ==
    ASSUME TypeOK, NEW r \in responses, Truncate(r), NEW s \in responses'
    PROVE  \/ s \in responses /\ s # r
           \/ s.dispatch = r.dispatch /\ s.status = 200 /\ s.receipt = "none" /\ s \in Responses
<1>1. r \in Responses /\ r.status = 200
  BY DEF TypeOK, Truncate
<1>2. s \in responses \ {r} \/ s = [r EXCEPT !.receipt = "none"]
  BY DEF Truncate
<1> QED BY <1>1, <1>2 DEF Responses

-----------------------------------------------------------------------------
(* Types *)

LEMMA AnswersAreTyped ==
    ASSUME TypeOK, NEW r \in Requests, NEW status \in {200, 401, 403, 409, 429, 503},
           NEW receipt \in Executions \cup {"none"}, Answer(r, status, receipt)
    PROVE  responses' \subseteq Responses
BY DEF TypeOK, Answer, Requests, Responses

LEMMA ClientTypes ==
    ASSUME TypeOK, AttemptsAreCounted, NEW d \in Dispatches, Client(d), DispatchAssumption
    PROVE  TypeOK'
<1>1. ASSUME NEW state \in {"idle", "sending", "awaiting", "pausing", "returned"},
             NEW attempt \in 0..MaxAttempts, NEW outcome \in Outcomes,
             Become(d, state, attempt, outcome)
      PROVE  call' \in [Dispatches -> [errand : ErrandsOfCalls,
                 state : {"idle", "sending", "awaiting", "pausing", "returned"},
                 attempt : 0..MaxAttempts, outcome : Outcomes]]
  BY <1>1 DEF Become, TypeOK
<1>2. call[d].attempt \in 0..MaxAttempts
  BY DEF TypeOK
<1>3. \A outcome \in Outcomes : RetryOrReturn(d, outcome) =>
          call' \in [Dispatches -> [errand : ErrandsOfCalls,
                 state : {"idle", "sending", "awaiting", "pausing", "returned"},
                 attempt : 0..MaxAttempts, outcome : Outcomes]]
  BY <1>1, <1>2 DEF RetryOrReturn, Outcomes
<1>4. CASE Begin(d)
  BY <1>1, <1>4 DEF Begin, Outcomes, TypeOK, network, receiver, DispatchAssumption
<1>5. CASE Send(d)
  <2>1. call[d].attempt \in 1..MaxAttempts
    BY <1>2, <1>5 DEF Send, AttemptsAreCounted
  <2>2. requests' \subseteq Requests
    BY <1>5, <2>1 DEF Send, Requests, TypeOK
  <2> QED BY <1>1, <1>2, <1>5, <2>2 DEF Send, Outcomes, TypeOK, receiver
<1>6. CASE Receive(d)
  <2>1. PICK r \in responses :
            /\ responses' = responses \ {r}
            /\ \/ Become(d, "returned", call[d].attempt,
                         IF ReceiptFits(d, r.receipt) THEN "accepted" ELSE "response_invalid")
               \/ RetryOrReturn(d, "retryable")
               \/ Become(d, "returned", call[d].attempt, ErrorKind(r.status))
    BY <1>6 DEF Receive
  <2>2. r.status \in {200, 401, 403, 409, 429, 503}
    BY DEF TypeOK, Responses
  <2>3. ErrorKind(r.status) \in Outcomes
    BY <2>2 DEF ErrorKind, Retryable, Outcomes
  <2>4. call' \in [Dispatches -> [errand : ErrandsOfCalls,
                 state : {"idle", "sending", "awaiting", "pausing", "returned"},
                 attempt : 0..MaxAttempts, outcome : Outcomes]]
    <3>1. (IF ReceiptFits(d, r.receipt) THEN "accepted" ELSE "response_invalid") \in Outcomes
          /\ "retryable" \in Outcomes
      BY DEF Outcomes
    <3> QED BY <1>1, <1>2, <1>3, <2>1, <2>3, <3>1
  <2> QED BY <1>6, <2>1, <2>4 DEF Receive, TypeOK, receiver
<1>7. CASE TransportError(d)
  <2>1. "retryable" \in Outcomes
    BY DEF Outcomes
  <2> QED BY <1>3, <1>7, <2>1 DEF TransportError, TypeOK, receiver
<1>8. CASE Resume(d)
  <2>1. call[d].attempt + 1 \in 0..MaxAttempts
    BY <1>2, <1>8, DispatchAssumption DEF Resume, AttemptsAreCounted, DispatchAssumption
  <2> QED BY <1>1, <1>8, <2>1 DEF Resume, Outcomes, TypeOK, network, receiver
<1>9. CASE Cancel(d)
  BY <1>1, <1>2, <1>9 DEF Cancel, Outcomes, TypeOK, network, receiver
<1> QED BY <1>4, <1>5, <1>6, <1>7, <1>8, <1>9 DEF Client

LEMMA EnvironmentTypes ==
    ASSUME TypeOK, KeysKeepTheirBody, Environment, DispatchAssumption
    PROVE  TypeOK'
<1>1. CASE Tick
  BY <1>1 DEF Tick, TypeOK, network, receiver, DispatchAssumption
<1>2. ASSUME NEW r \in requests, Arrive(r)
      PROVE  TypeOK'
  <2> DEFINE d == r.dispatch
             claim == claims[KeyOf(d)]
  <2>1. r \in Requests /\ d \in Dispatches
    BY DEF TypeOK, Requests
  <2>2. /\ KeyOf(d) \in Keys /\ BodyOf(d) \in Bodies /\ ExecutionOf(d) \in Executions
        /\ claim \in Claims
    BY <2>1, ErrandsAreTyped DEF TypeOK
  <2>3. requests' \subseteq Requests /\ UNCHANGED <<call, now, crashes>>
    BY <1>2 DEF Arrive, TypeOK
  <2>4. ASSUME NEW fence \in Nat \ {0}, Claim(r, fence)
        PROVE  TypeOK'
    <3>1. claims' \in [Keys -> Claims]
      BY <2>2, <2>4 DEF Claim, Claims, TypeOK
    <3>2. handlers' \subseteq [request : Requests, fence : Nat \ {0}]
      BY <2>1, <2>4 DEF Claim, TypeOK
    <3> QED BY <2>3, <2>4, <3>1, <3>2 DEF Claim, TypeOK
  <2>5. ASSUME NEW status \in {401, 409, 503}, Answer(r, status, "none"), UNCHANGED receiver
        PROVE  TypeOK'
    BY <2>1, <2>3, <2>5, AnswersAreTyped DEF TypeOK, receiver
  <2>6. ASSUME claim.state = "terminal", Answer(r, 200, claim.execution), UNCHANGED receiver
        PROVE  TypeOK'
    <3>1. claim.execution \in Executions
      BY <2>2, <2>6, ClaimShapes
    <3> QED BY <2>1, <2>3, <2>6, <3>1, AnswersAreTyped DEF TypeOK, receiver
  <2>7. claim.state = "expired" => claim.fence + 1 \in Nat \ {0}
    BY <2>2, ClaimShapes
  <2> QED BY <1>2, <2>4, <2>5, <2>6, <2>7 DEF Arrive
<1>3. ASSUME NEW r \in requests, Intercept(r)
      PROVE  TypeOK'
  <2>1. r \in Requests
    BY DEF TypeOK
  <2>2. responses' \subseteq Responses
    BY <1>3, <2>1, AnswersAreTyped DEF Intercept
  <2> QED BY <1>3, <2>2 DEF Intercept, TypeOK, receiver
<1>4. ASSUME NEW h \in handlers, Invoke(h)
      PROVE  TypeOK'
  <2>1. h.request.dispatch \in Dispatches
    BY DEF TypeOK, Requests
  <2>2. executed' \subseteq [key : Keys, body : Bodies]
    BY <1>4, <2>1, ErrandsAreTyped DEF Invoke, TypeOK
  <2> QED BY <1>4, <2>2 DEF Invoke, TypeOK, network
<1>5. ASSUME NEW h \in handlers, Complete(h)
      PROVE  TypeOK'
  <2> DEFINE d == h.request.dispatch
  <2>1. h.request \in Requests /\ d \in Dispatches
    BY DEF TypeOK, Requests
  <2>2. KeyOf(d) \in Keys /\ ExecutionOf(d) \in Executions
    BY <2>1, ErrandsAreTyped
  <2>3. claims' \in [Keys -> Claims]
    <3>1. claims[KeyOf(d)].state # "none"
      BY DEF KeysKeepTheirBody, ClaimedFor
    <3>2. claims[KeyOf(d)] \in Claims
      BY <2>2 DEF TypeOK
    <3>3. [claims[KeyOf(d)] EXCEPT !.state = "terminal"] \in Claims
      BY <3>1, <3>2, ClaimShapes DEF Claims
    <3>4. claims' = claims
            \/ claims' = [claims EXCEPT ![KeyOf(d)] = [claims[KeyOf(d)] EXCEPT !.state = "terminal"]]
      BY <1>5 DEF Complete
    <3> QED BY <3>3, <3>4 DEF TypeOK
  <2>4. responses' \subseteq Responses
    BY <1>5, <2>1, <2>2, AnswersAreTyped DEF Complete
  <2> QED BY <1>5, <2>3, <2>4 DEF Complete, TypeOK
<1>6. ASSUME NEW h \in handlers, Crash(h)
      PROVE  TypeOK'
  BY <1>6 DEF Crash, TypeOK, network, DispatchAssumption
<1>7. ASSUME NEW k \in Keys, Expire(k)
      PROVE  TypeOK'
  <2>1. claims[k] \in Claims
    BY DEF TypeOK
  <2>2. [claims[k] EXCEPT !.state = "expired"] \in Claims
    BY <1>7, <2>1, ClaimShapes DEF Expire, Claims
  <2>3. claims' = [claims EXCEPT ![k] = [claims[k] EXCEPT !.state = "expired"]]
    BY <1>7 DEF Expire
  <2> QED BY <1>7, <2>2, <2>3 DEF Expire, TypeOK, network
<1>8. ASSUME NEW r \in responses, Truncate(r)
      PROVE  TypeOK'
  <2>1. responses' \subseteq Responses
    BY <1>8, TruncatedShape DEF TypeOK
  <2> QED BY <1>8, <2>1 DEF Truncate, TypeOK, receiver
<1> QED BY <1>1, <1>2, <1>3, <1>4, <1>5, <1>6, <1>7, <1>8 DEF Environment

-----------------------------------------------------------------------------
(* Attempts and answers *)

(* The attempts are counted, and what a call still waits for is under way  *)
(* once: the client's steps.                                               *)
LEMMA ClientCounts ==
    ASSUME TypeOK, AttemptsAreCounted, AnsweredOnce, NEW d \in Dispatches, Client(d),
           DispatchAssumption
    PROVE  AttemptsAreCounted' /\ AnsweredOnce'
<1> DEFINE n == call[d].attempt
<1>1. n \in 0..MaxAttempts /\ MaxAttempts \in Nat \ {0}
  BY DEF TypeOK, DispatchAssumption
<1>2. \A m \in UnderWay : m.dispatch \in Dispatches /\ m.attempt \in 1..MaxAttempts
  BY DEF UnderWay, TypeOK, Requests
<1>3. \A r \in responses : r.dispatch \in Dispatches
  BY DEF TypeOK, Responses
<1>4. call \in [Dispatches -> [errand : ErrandsOfCalls,
          state : {"idle", "sending", "awaiting", "pausing", "returned"},
          attempt : 0..MaxAttempts, outcome : Outcomes]]
  BY DEF TypeOK
<1>5. ASSUME NEW outcome, RetryOrReturn(d, outcome)
      PROVE  \E state \in {"pausing", "returned"} : \E o :
                 Become(d, state, n, o) /\ (state = "pausing" => n # MaxAttempts)
  BY <1>5 DEF RetryOrReturn, LastAttempt
<1>6. ASSUME NEW state \in {"pausing", "returned"}, NEW o, Become(d, state, n, o),
             state = "pausing" => n > 0 /\ n # MaxAttempts,
             responses' = {r \in responses : r.dispatch # d}, UNCHANGED <<requests, receiver>>
      PROVE  AttemptsAreCounted' /\ AnsweredOnce'
  <2>1. AttemptsAreCounted'
    BY <1>1, <1>4, <1>6 DEF AttemptsAreCounted, Become
  <2>2. UnderWay' = UnderWay /\ handlers' = handlers
    BY <1>6 DEF UnderWay, receiver
  <2> QED BY <1>1, <1>2, <1>3, <1>4, <1>6, <2>1, <2>2 DEF AnsweredOnce, OfAttempt, Become
<1>7. CASE Begin(d)
  <2>1. AttemptsAreCounted'
    BY <1>1, <1>4, <1>7 DEF AttemptsAreCounted, Become, Begin
  <2>2. UnderWay' = UnderWay /\ handlers' = handlers
    BY <1>7 DEF UnderWay, receiver, network, Begin
  <2>3. \A m \in UnderWay : m.dispatch # d
    BY <1>2, <1>7 DEF Begin, AttemptsAreCounted, AnsweredOnce
  <2>4. \A r \in responses : r.dispatch # d
    BY <1>7 DEF Begin, AnsweredOnce
  <2> QED BY <1>2, <1>3, <1>4, <1>7, <2>1, <2>2, <2>3, <2>4
          DEF AnsweredOnce, OfAttempt, Become, Begin, network
<1>8. CASE Send(d)
  <2> DEFINE q == [dispatch |-> d, attempt |-> n, signedAt |-> now]
  <2>1. AttemptsAreCounted'
    BY <1>1, <1>4, <1>8 DEF AttemptsAreCounted, Become, Send
  <2>2. UnderWay' = UnderWay \cup {q} /\ handlers' = handlers /\ requests' = requests \cup {q}
    BY <1>8 DEF UnderWay, receiver, Send
  <2>3. \A m \in UnderWay : m.dispatch = d => m.attempt < n
    BY <1>8 DEF Send, AnsweredOnce
  <2>4. \A r \in responses : r.dispatch # d
    BY <1>8 DEF Send, AnsweredOnce
  <2>5. requests \subseteq UnderWay /\ \A h \in handlers : h.request \in UnderWay
    BY DEF UnderWay
  <2>6. /\ call'[d].state = "awaiting" /\ call'[d].attempt = n
        /\ \A c \in Dispatches : c # d => call'[c] = call[c]
        /\ responses' = responses
    BY <1>4, <1>8 DEF Send, Become
  <2>7. \A m \in UnderWay' : /\ m.attempt <= call'[m.dispatch].attempt
                             /\ call'[m.dispatch].state = "sending"
                                    => m.attempt < call'[m.dispatch].attempt
    BY <1>1, <1>2, <2>2, <2>6 DEF AnsweredOnce
  <2>8. \A m, o \in requests' : OfAttempt(m, o.dispatch, o.attempt) => m = o
    BY <1>1, <1>2, <2>2, <2>3, <2>5 DEF AnsweredOnce, OfAttempt
  <2>9. \A m \in requests', h \in handlers' : ~OfAttempt(m, h.request.dispatch, h.request.attempt)
    BY <1>1, <1>2, <2>2, <2>3, <2>5 DEF AnsweredOnce, OfAttempt
  <2>10. \A r \in responses' :
            /\ call'[r.dispatch].state = "awaiting"
            /\ \A s \in responses' : s.dispatch = r.dispatch => s = r
            /\ \A m \in UnderWay' : ~OfAttempt(m, r.dispatch, call'[r.dispatch].attempt)
    BY <1>3, <2>2, <2>4, <2>6 DEF AnsweredOnce, OfAttempt
  <2> QED BY <2>1, <2>2, <2>7, <2>8, <2>9, <2>10 DEF AnsweredOnce, OfAttempt
<1>9. CASE Receive(d)
  <2>1. PICK r \in responses :
            /\ r.dispatch = d /\ responses' = responses \ {r}
            /\ \/ Become(d, "returned", n,
                         IF ReceiptFits(d, r.receipt) THEN "accepted" ELSE "response_invalid")
               \/ RetryOrReturn(d, "retryable")
               \/ Become(d, "returned", n, ErrorKind(r.status))
            /\ UNCHANGED <<requests, receiver>>
    BY <1>9 DEF Receive
  <2>2. call[d].state = "awaiting" /\ responses' = {s \in responses : s.dispatch # d}
    BY <2>1 DEF AnsweredOnce
  <2>3. n > 0
    BY <1>1, <2>2 DEF AttemptsAreCounted
  <2>4. PICK state, o :
            /\ state \in {"pausing", "returned"} /\ Become(d, state, n, o)
            /\ (state = "pausing" => n # MaxAttempts)
    BY <1>5, <2>1
  <2> QED BY <1>6, <2>1, <2>2, <2>3, <2>4
<1>10. CASE TransportError(d)
  <2>1. n > 0
    BY <1>1, <1>10 DEF TransportError, AttemptsAreCounted
  <2>2. PICK state, o :
            /\ state \in {"pausing", "returned"} /\ Become(d, state, n, o)
            /\ (state = "pausing" => n # MaxAttempts)
    BY <1>5, <1>10 DEF TransportError
  <2> QED BY <1>6, <1>10, <2>1, <2>2 DEF TransportError
<1>11. ASSUME call[d].state = "pausing", UNCHANGED <<network, receiver>>,
              NEW o, Become(d, "sending", n + 1, o) \/ Become(d, "returned", n, o)
       PROVE  AttemptsAreCounted' /\ AnsweredOnce'
  <2>1. AttemptsAreCounted'
    BY <1>1, <1>4, <1>11 DEF AttemptsAreCounted, Become
  <2>2. UnderWay' = UnderWay /\ handlers' = handlers /\ requests' = requests
        /\ responses' = responses
    BY <1>11 DEF UnderWay, receiver, network
  <2>3. \A r \in responses : r.dispatch # d
    BY <1>11 DEF AnsweredOnce
  <2>4. \A c \in Dispatches : c # d => call'[c] = call[c]
    BY <1>4, <1>11 DEF Become
  <2>5. \A m \in UnderWay' : /\ m.attempt <= call'[m.dispatch].attempt
                             /\ call'[m.dispatch].state = "sending"
                                    => m.attempt < call'[m.dispatch].attempt
    BY <1>1, <1>2, <1>4, <1>11, <2>2, <2>4 DEF AnsweredOnce, Become
  <2> QED BY <1>3, <2>1, <2>2, <2>3, <2>4, <2>5 DEF AnsweredOnce, OfAttempt
<1>12. CASE Resume(d)
  BY <1>11, <1>12 DEF Resume
<1>13. CASE Cancel(d)
  BY <1>11, <1>13 DEF Cancel
<1> QED BY <1>7, <1>8, <1>9, <1>10, <1>12, <1>13 DEF Client

(* The answer to an attempt that is no longer under way is the only one.   *)
LEMMA AnswerCounts ==
    ASSUME TypeOK, AnsweredOnce, NEW r \in UnderWay, NEW status, NEW receipt,
           Answer(r, status, receipt), call' = call,
           \A m \in UnderWay' : m \in UnderWay /\ ~OfAttempt(m, r.dispatch, r.attempt)
    PROVE  \A s \in responses' :
               /\ call[s.dispatch].state = "awaiting"
               /\ \A t \in responses' : t.dispatch = s.dispatch => t = s
               /\ \A m \in UnderWay' : ~OfAttempt(m, s.dispatch, call[s.dispatch].attempt)
<1> DEFINE a == [dispatch |-> r.dispatch, status |-> status, receipt |-> receipt]
<1>1. CASE call[r.dispatch].state = "awaiting" /\ call[r.dispatch].attempt = r.attempt
  <2>1. responses' = responses \cup {a}
    BY <1>1 DEF Answer
  <2>2. \A s \in responses : s.dispatch # r.dispatch
    BY <1>1 DEF AnsweredOnce, OfAttempt
  <2>3. a.dispatch = r.dispatch
    OBVIOUS
  <2> QED BY <1>1, <2>1, <2>2, <2>3 DEF AnsweredOnce, OfAttempt
<1>2. CASE responses' = responses
  BY <1>2 DEF AnsweredOnce
<1> QED BY <1>1, <1>2 DEF Answer

(* A request that leaves the network, answered or not. *)
LEMMA ArrivalCounts ==
    ASSUME TypeOK, AttemptsAreCounted, AnsweredOnce, NEW r \in requests,
           requests' = requests \ {r}, call' = call, UNCHANGED handlers,
           NEW status, NEW receipt, Answer(r, status, receipt)
    PROVE  AttemptsAreCounted' /\ AnsweredOnce'
<1>1. UnderWay' \subseteq UnderWay /\ r \in UnderWay
  BY DEF UnderWay
<1>2. \A m \in UnderWay' : ~OfAttempt(m, r.dispatch, r.attempt)
  BY DEF UnderWay, AnsweredOnce, OfAttempt
<1>3. \A s \in responses' :
          /\ call[s.dispatch].state = "awaiting"
          /\ \A t \in responses' : t.dispatch = s.dispatch => t = s
          /\ \A m \in UnderWay' : ~OfAttempt(m, s.dispatch, call[s.dispatch].attempt)
  BY <1>1, <1>2, AnswerCounts
<1> QED BY <1>1, <1>3 DEF AttemptsAreCounted, AnsweredOnce, OfAttempt

LEMMA EnvironmentCounts ==
    ASSUME TypeOK, AttemptsAreCounted, AnsweredOnce, Environment
    PROVE  AttemptsAreCounted' /\ AnsweredOnce'
<1>1. ASSUME UNCHANGED <<call, requests, responses>>, handlers' \subseteq handlers
      PROVE  AttemptsAreCounted' /\ AnsweredOnce'
  <2>1. UnderWay' \subseteq UnderWay
    BY <1>1 DEF UnderWay
  <2> QED BY <1>1, <2>1 DEF AttemptsAreCounted, AnsweredOnce, OfAttempt
<1>2. CASE Tick
  BY <1>1, <1>2 DEF Tick, network, receiver
<1>3. ASSUME NEW r \in requests, Arrive(r)
      PROVE  AttemptsAreCounted' /\ AnsweredOnce'
  <2>1. requests' = requests \ {r} /\ call' = call
    BY <1>3 DEF Arrive
  <2>2. ASSUME NEW status, NEW receipt, Answer(r, status, receipt), UNCHANGED receiver
        PROVE  AttemptsAreCounted' /\ AnsweredOnce'
    BY <2>1, <2>2, ArrivalCounts DEF receiver
  <2>3. ASSUME NEW fence, Claim(r, fence)
        PROVE  AttemptsAreCounted' /\ AnsweredOnce'
    <3> DEFINE h == [request |-> r, fence |-> fence]
    <3>1. handlers' = handlers \cup {h} /\ responses' = responses /\ h.request = r
      BY <2>3 DEF Claim
    <3>2. UnderWay' = UnderWay
      BY <2>1, <3>1 DEF UnderWay
    <3>3. \A g, i \in handlers' :
              OfAttempt(g.request, i.request.dispatch, i.request.attempt) => g = i
      BY <3>1 DEF AnsweredOnce, OfAttempt
    <3>4. \A m \in requests', i \in handlers' :
              ~OfAttempt(m, i.request.dispatch, i.request.attempt)
      BY <2>1, <3>1 DEF AnsweredOnce, OfAttempt
    <3> QED BY <2>1, <3>1, <3>2, <3>3, <3>4 DEF AttemptsAreCounted, AnsweredOnce, OfAttempt
  <2> QED BY <1>3, <2>2, <2>3 DEF Arrive
<1>4. ASSUME NEW r \in requests, Intercept(r)
      PROVE  AttemptsAreCounted' /\ AnsweredOnce'
  BY <1>4, ArrivalCounts DEF Intercept, receiver
<1>5. ASSUME NEW h \in handlers, Invoke(h)
      PROVE  AttemptsAreCounted' /\ AnsweredOnce'
  BY <1>1, <1>5 DEF Invoke, network
<1>6. ASSUME NEW h \in handlers, Complete(h)
      PROVE  AttemptsAreCounted' /\ AnsweredOnce'
  <2>1. PICK status, receipt : Answer(h.request, status, receipt)
    BY <1>6 DEF Complete
  <2>2. requests' = requests /\ handlers' = handlers \ {h} /\ call' = call
    BY <1>6 DEF Complete
  <2>3. UnderWay' \subseteq UnderWay /\ h.request \in UnderWay
    BY <2>2 DEF UnderWay
  <2>4. \A m \in UnderWay' : ~OfAttempt(m, h.request.dispatch, h.request.attempt)
    BY <2>2 DEF UnderWay, AnsweredOnce, OfAttempt
  <2>5. \A s \in responses' :
            /\ call[s.dispatch].state = "awaiting"
            /\ \A t \in responses' : t.dispatch = s.dispatch => t = s
            /\ \A m \in UnderWay' : ~OfAttempt(m, s.dispatch, call[s.dispatch].attempt)
    BY <2>1, <2>2, <2>3, <2>4, AnswerCounts
  <2> QED BY <2>2, <2>3, <2>5 DEF AttemptsAreCounted, AnsweredOnce, OfAttempt
<1>7. ASSUME NEW h \in handlers, Crash(h)
      PROVE  AttemptsAreCounted' /\ AnsweredOnce'
  BY <1>1, <1>7 DEF Crash, network
<1>8. ASSUME NEW k \in Keys, Expire(k)
      PROVE  AttemptsAreCounted' /\ AnsweredOnce'
  BY <1>1, <1>8 DEF Expire, network
<1>9. ASSUME NEW r \in responses, Truncate(r)
      PROVE  AttemptsAreCounted' /\ AnsweredOnce'
  <2>1. /\ call' = call /\ requests' = requests /\ handlers' = handlers
        /\ UnderWay' = UnderWay
    BY <1>9 DEF Truncate, receiver, UnderWay
  <2>2. \A s \in responses' : (s \in responses /\ s # r) \/ s.dispatch = r.dispatch
    BY <1>9, TruncatedShape
  <2>3. \A s \in responses : s # r => s.dispatch # r.dispatch
    BY DEF AnsweredOnce
  <2>4. \A s, t \in responses' : t.dispatch = s.dispatch => t = s
    <3>1. responses' = (responses \ {r}) \cup {[r EXCEPT !.receipt = "none"]}
      BY <1>9 DEF Truncate
    <3>2. \A s \in responses' : s.dispatch = r.dispatch => s = [r EXCEPT !.receipt = "none"]
      BY <2>3, <3>1
    <3>3. \A s \in responses' : s.dispatch # r.dispatch => s \in responses
      BY <2>2
    <3> QED BY <3>2, <3>3 DEF AnsweredOnce
  <2>5. \A s \in responses' :
            /\ call[s.dispatch].state = "awaiting"
            /\ \A m \in UnderWay : ~OfAttempt(m, s.dispatch, call[s.dispatch].attempt)
    BY <2>2 DEF AnsweredOnce
  <2> QED BY <2>1, <2>4, <2>5 DEF AttemptsAreCounted, AnsweredOnce, OfAttempt
<1> QED BY <1>2, <1>3, <1>4, <1>5, <1>6, <1>7, <1>8, <1>9 DEF Environment

-----------------------------------------------------------------------------
(* Claims, executions and what was answered about them *)

(* What a call is for never changes. *)
LEMMA ErrandsKept ==
    ASSUME TypeOK, [Next]_vars
    PROVE  \A d \in Dispatches :
               /\ KeyOf(d)' = KeyOf(d) /\ BodyOf(d)' = BodyOf(d)
               /\ ExecutionOf(d)' = ExecutionOf(d)
<1>1. ASSUME NEW d \in Dispatches, Client(d)
      PROVE  \E state, attempt, outcome : Become(d, state, attempt, outcome)
  BY <1>1 DEF Client, Begin, Send, Receive, TransportError, Resume, Cancel, RetryOrReturn
<1>2. Environment => call' = call
  BY DEF Environment, Tick, Arrive, Intercept, Truncate, Invoke, Complete, Crash, Expire
<1>3. \A d \in Dispatches : call'[d].errand = call[d].errand
  <2>1. ASSUME NEW d \in Dispatches, Client(d)
        PROVE  \A c \in Dispatches : call'[c].errand = call[c].errand
    BY <1>1, <2>1 DEF Become, TypeOK
  <2> QED BY <1>2, <2>1 DEF Next, vars
<1> QED BY <1>3 DEF KeyOf, BodyOf, ExecutionOf

(* The replay rule's verdicts *)
LEMMA ReplayVerdicts ==
    ASSUME NEW current \in Claims, NEW body
    PROVE  /\ EvaluateCallbackReplay(current, body) = "claim" => current.state = "none"
           /\ EvaluateCallbackReplay(current, body) = "conflict"
                => current.state # "none" /\ current.body # body
           /\ EvaluateCallbackReplay(current, body) = "replay"
                => current.state # "none" /\ current.body = body
BY DEF EvaluateCallbackReplay

(* The receiver's steps: a claim keeps its body, and what was executed     *)
(* stays executed.                                                         *)
LEMMA ClaimsKept ==
    ASSUME TypeOK, KeysKeepTheirBody, [Next]_vars
    PROVE  /\ \A k \in Keys : \A body : ClaimedFor(k, body) => ClaimedFor(k, body)'
           /\ executed \subseteq executed'
<1>1. ASSUME UNCHANGED receiver
      PROVE  /\ \A k \in Keys : \A body : ClaimedFor(k, body) => ClaimedFor(k, body)'
             /\ executed \subseteq executed'
  BY <1>1 DEF receiver, ClaimedFor
<1>2. ASSUME NEW d \in Dispatches, Client(d)
      PROVE  UNCHANGED receiver
  BY <1>2 DEF Client, Begin, Send, Receive, TransportError, Resume, Cancel
<1>3. ASSUME NEW r \in requests, Arrive(r), ~UNCHANGED receiver
      PROVE  /\ \A k \in Keys : \A body : ClaimedFor(k, body) => ClaimedFor(k, body)'
             /\ executed \subseteq executed'
  <2> DEFINE d == r.dispatch
             claim == claims[KeyOf(d)]
  <2>1. d \in Dispatches
    BY DEF TypeOK, Requests
  <2>2. KeyOf(d) \in Keys /\ claim \in Claims
    BY <2>1, ErrandsAreTyped DEF TypeOK
  <2>3. PICK fence : Claim(r, fence) /\ EvaluateCallbackReplay(claim, BodyOf(d)) \in {"claim", "replay"}
    BY <1>3 DEF Arrive
  <2>4. claim.state = "none" \/ claim.body = BodyOf(d)
    BY <2>2, <2>3, ReplayVerdicts
  <2> QED BY <2>2, <2>3, <2>4 DEF Claim, ClaimedFor, TypeOK
<1>4. ASSUME NEW h \in handlers, Complete(h)
      PROVE  /\ \A k \in Keys : \A body : ClaimedFor(k, body) => ClaimedFor(k, body)'
             /\ executed \subseteq executed'
  <2> DEFINE key == KeyOf(h.request.dispatch)
  <2>1. claims[key].state # "none" /\ executed' = executed
    BY <1>4 DEF KeysKeepTheirBody, ClaimedFor, Complete
  <2>2. h.request.dispatch \in Dispatches
    BY DEF TypeOK, Requests
  <2>3. key \in Keys /\ claims[key] \in Claims
    BY <2>2, ErrandsAreTyped DEF TypeOK
  <2>4. claims' = claims
          \/ claims' = [claims EXCEPT ![key] = [claims[key] EXCEPT !.state = "terminal"]]
    BY <1>4 DEF Complete
  <2>5. /\ [claims[key] EXCEPT !.state = "terminal"].state # "none"
        /\ [claims[key] EXCEPT !.state = "terminal"].body = claims[key].body
    BY <2>1, <2>3, ClaimShapes
  <2> QED BY <2>1, <2>3, <2>4, <2>5 DEF ClaimedFor, TypeOK
<1>5. ASSUME NEW k \in Keys, Expire(k)
      PROVE  /\ \A l \in Keys : \A body : ClaimedFor(l, body) => ClaimedFor(l, body)'
             /\ executed \subseteq executed'
  <2>1. claims' = [claims EXCEPT ![k] = [claims[k] EXCEPT !.state = "expired"]]
        /\ executed' = executed /\ claims[k].state = "active"
    BY <1>5 DEF Expire
  <2>2. claims[k] \in Claims
    BY DEF TypeOK
  <2>3. /\ [claims[k] EXCEPT !.state = "expired"].state # "none"
        /\ [claims[k] EXCEPT !.state = "expired"].body = claims[k].body
    BY <2>1, <2>2, ClaimShapes
  <2> QED BY <2>1, <2>3 DEF ClaimedFor, TypeOK
<1>6. ASSUME NEW h \in handlers, Invoke(h) \/ Crash(h)
      PROVE  /\ \A k \in Keys : \A body : ClaimedFor(k, body) => ClaimedFor(k, body)'
             /\ executed \subseteq executed'
  BY <1>6 DEF Invoke, Crash, ClaimedFor
<1>7. Tick \/ (\E r \in requests : Intercept(r)) \/ (\E r \in responses : Truncate(r))
        \/ UNCHANGED vars => UNCHANGED receiver
  BY DEF Tick, Intercept, Truncate, vars, receiver
<1> QED BY <1>1, <1>2, <1>3, <1>4, <1>5, <1>6, <1>7 DEF Next, Environment

LEMMA BodiesStep ==
    ASSUME TypeOK, KeysKeepTheirBody, [Next]_vars
    PROVE  KeysKeepTheirBody'
<1>1. \A k \in Keys : \A body : ClaimedFor(k, body) => ClaimedFor(k, body)'
  BY ClaimsKept
<1>2. \A h \in handlers : /\ h.request.dispatch \in Dispatches
                          /\ KeyOf(h.request.dispatch) \in Keys
                          /\ KeyOf(h.request.dispatch)' = KeyOf(h.request.dispatch)
                          /\ BodyOf(h.request.dispatch)' = BodyOf(h.request.dispatch)
  <2>1. \A h \in handlers : h.request.dispatch \in Dispatches
    BY DEF TypeOK, Requests
  <2> QED BY <2>1, ErrandsAreTyped, ErrandsKept
<1>3. \A e \in executed : e.key \in Keys
  BY DEF TypeOK
<1>4. ASSUME handlers' \subseteq handlers, executed' = executed
      PROVE  KeysKeepTheirBody'
  BY <1>1, <1>2, <1>3, <1>4 DEF KeysKeepTheirBody
<1>5. CASE handlers' \subseteq handlers /\ executed' = executed
  BY <1>4, <1>5
<1>6. ASSUME NEW h \in handlers, Invoke(h)
      PROVE  KeysKeepTheirBody'
  <2> DEFINE done == [key |-> KeyOf(h.request.dispatch), body |-> BodyOf(h.request.dispatch)]
  <2>1. executed' = executed \cup {done} /\ handlers' = handlers
    BY <1>6 DEF Invoke
  <2>2. done.key = KeyOf(h.request.dispatch) /\ done.body = BodyOf(h.request.dispatch)
    OBVIOUS
  <2>3. ClaimedFor(done.key, done.body)'
    BY <1>1, <1>2, <2>2 DEF KeysKeepTheirBody
  <2> QED BY <1>1, <1>2, <1>3, <2>1, <2>3 DEF KeysKeepTheirBody
<1>7. ASSUME NEW r \in requests, NEW fence, Claim(r, fence)
      PROVE  KeysKeepTheirBody'
  <2> DEFINE d == r.dispatch
             h == [request |-> r, fence |-> fence]
  <2>1. d \in Dispatches
    BY DEF TypeOK, Requests
  <2>2. KeyOf(d) \in Keys /\ KeyOf(d)' = KeyOf(d) /\ BodyOf(d)' = BodyOf(d)
    BY <2>1, ErrandsAreTyped, ErrandsKept
  <2>3. handlers' = handlers \cup {h} /\ executed' = executed /\ h.request = r
    BY <1>7 DEF Claim
  <2>4. ClaimedFor(KeyOf(d), BodyOf(d))'
    BY <1>7, <2>2 DEF Claim, ClaimedFor, TypeOK
  <2> QED BY <1>1, <1>2, <1>3, <2>2, <2>3, <2>4 DEF KeysKeepTheirBody
<1>8. ASSUME NEW d \in Dispatches, Client(d)
      PROVE  UNCHANGED receiver
  BY <1>8 DEF Client, Begin, Send, Receive, TransportError, Resume, Cancel
<1>9. ASSUME NEW r \in requests, Arrive(r)
      PROVE  UNCHANGED receiver \/ \E fence : Claim(r, fence)
  BY <1>9 DEF Arrive
<1>10. (\E r \in requests : Intercept(r)) \/ (\E r \in responses : Truncate(r)) \/ Tick
         \/ UNCHANGED vars => UNCHANGED receiver
  BY DEF Intercept, Truncate, Tick, vars, receiver
<1>11. ASSUME NEW h \in handlers, Complete(h) \/ Crash(h)
       PROVE  handlers' \subseteq handlers /\ executed' = executed
  BY <1>11 DEF Complete, Crash
<1>12. ASSUME NEW k \in Keys, Expire(k)
       PROVE  handlers' \subseteq handlers /\ executed' = executed
  BY <1>12 DEF Expire
<1>13. UNCHANGED receiver => handlers' \subseteq handlers /\ executed' = executed
  BY DEF receiver
<1> QED BY <1>5, <1>6, <1>7, <1>8, <1>9, <1>10, <1>11, <1>12, <1>13 DEF Next, Environment

LEMMA TerminalStep ==
    ASSUME TypeOK, KeysKeepTheirBody, TerminalWasExecuted, [Next]_vars
    PROVE  TerminalWasExecuted'
<1>1. executed \subseteq executed'
  BY ClaimsKept
<1>2. CASE claims' = claims
  BY <1>1, <1>2 DEF TerminalWasExecuted
<1>3. ASSUME NEW r \in requests, Arrive(r), claims' # claims
      PROVE  TerminalWasExecuted'
  <2>1. PICK fence : Claim(r, fence)
    BY <1>3 DEF Arrive, receiver
  <2>2. r.dispatch \in Dispatches
    BY DEF TypeOK, Requests
  <2>3. KeyOf(r.dispatch) \in Keys
    BY <2>2, ErrandsAreTyped
  <2>4. \A k \in Keys : claims'[k].state = "terminal" => claims'[k] = claims[k]
    BY <2>1, <2>3 DEF Claim, TypeOK
  <2> QED BY <1>1, <2>4 DEF TerminalWasExecuted
<1>4. ASSUME NEW h \in handlers, Complete(h), claims' # claims
      PROVE  TerminalWasExecuted'
  <2> DEFINE key == KeyOf(h.request.dispatch)
  <2>1. h.request.dispatch \in Dispatches
    BY DEF TypeOK, Requests
  <2>2. key \in Keys /\ claims[key] \in Claims
    BY <2>1, ErrandsAreTyped DEF TypeOK
  <2>3. /\ claims' = [claims EXCEPT ![key] = [claims[key] EXCEPT !.state = "terminal"]]
        /\ [key |-> key, body |-> BodyOf(h.request.dispatch)] \in executed
    BY <1>4 DEF Complete
  <2>4. claims[key].body = BodyOf(h.request.dispatch) /\ claims[key].state # "none"
    BY DEF KeysKeepTheirBody, ClaimedFor
  <2>5. [claims[key] EXCEPT !.state = "terminal"].body = claims[key].body
    BY <2>2, <2>4, ClaimShapes
  <2> QED BY <1>1, <2>2, <2>3, <2>4, <2>5 DEF TerminalWasExecuted, TypeOK
<1>5. ASSUME NEW k \in Keys, Expire(k)
      PROVE  TerminalWasExecuted'
  <2>1. claims[k] \in Claims /\ claims[k].state = "active"
    BY <1>5 DEF TypeOK, Expire
  <2>2. claims' = [claims EXCEPT ![k] = [claims[k] EXCEPT !.state = "expired"]]
    BY <1>5 DEF Expire
  <2>3. [claims[k] EXCEPT !.state = "expired"].state = "expired"
    BY <2>1, ClaimShapes
  <2> QED BY <1>1, <2>1, <2>2, <2>3 DEF TerminalWasExecuted, TypeOK
<1>6. ASSUME NEW d \in Dispatches, Client(d)
      PROVE  claims' = claims
  BY <1>6 DEF Client, Begin, Send, Receive, TransportError, Resume, Cancel, receiver
<1>7. ASSUME NEW h \in handlers, Invoke(h) \/ Crash(h)
      PROVE  claims' = claims
  BY <1>7 DEF Invoke, Crash
<1>8. Tick \/ (\E r \in requests : Intercept(r)) \/ (\E r \in responses : Truncate(r))
        \/ UNCHANGED vars => claims' = claims
  BY DEF Tick, Intercept, Truncate, vars, receiver
<1> QED BY <1>2, <1>3, <1>4, <1>5, <1>6, <1>7, <1>8 DEF Next, Environment

(* An answer is about the call it answers: acceptance means that the       *)
(* call's own body was executed, a conflict that its key is another's.     *)
LEMMA AnswersStep ==
    ASSUME TypeOK, KeysKeepTheirBody, TerminalWasExecuted, AnswersAreTrue, [Next]_vars,
           DispatchAssumption
    PROVE  AnswersAreTrue'
<1>1. ASSUME NEW d \in Dispatches
      PROVE  /\ Done(d) => Done(d)'
             /\ TakenByOther(d) => TakenByOther(d)'
             /\ \A receipt : ReceiptFits(d, receipt)' = ReceiptFits(d, receipt)
  <2>1. KeyOf(d) \in Keys /\ KeyOf(d)' = KeyOf(d) /\ BodyOf(d)' = BodyOf(d)
        /\ ExecutionOf(d)' = ExecutionOf(d)
    BY ErrandsAreTyped, ErrandsKept
  <2>2. Done(d) => Done(d)'
    BY <2>1, ClaimsKept DEF Done
  <2>3. TakenByOther(d) => TakenByOther(d)'
    BY <2>1, ClaimsKept DEF TakenByOther, ClaimedFor
  <2> QED BY <2>1, <2>2, <2>3 DEF ReceiptFits
<1>2. \A r \in responses : r.dispatch \in Dispatches
  BY DEF TypeOK, Responses
<1>3. ASSUME NEW r, r.dispatch \in Dispatches, NEW status, NEW receipt,
             Answer(r, status, receipt), call' = call,
             status = 200 /\ ReceiptFits(r.dispatch, receipt) => Done(r.dispatch),
             status = 409 => TakenByOther(r.dispatch)
      PROVE  AnswersAreTrue'
  <2>1. \A s \in responses' : s \in responses \/ s = [dispatch |-> r.dispatch, status |-> status,
                                                      receipt |-> receipt]
    BY <1>3 DEF Answer
  <2>2. \A s \in responses' :
            /\ s.dispatch \in Dispatches
            /\ s.status = 200 /\ ReceiptFits(s.dispatch, s.receipt) => Done(s.dispatch)
            /\ s.status = 409 => TakenByOther(s.dispatch)
    BY <1>2, <1>3, <2>1 DEF AnswersAreTrue
  <2> QED BY <1>1, <1>3, <2>2 DEF AnswersAreTrue
<1>4. ASSUME call' = call, responses' = responses
      PROVE  AnswersAreTrue'
  BY <1>1, <1>2, <1>4 DEF AnswersAreTrue
<1>5. ASSUME NEW d \in Dispatches, Client(d)
      PROVE  AnswersAreTrue'
  <2>1. responses' \subseteq responses
    <3>1. Receive(d) => responses' \subseteq responses
      BY DEF Receive
    <3>2. TransportError(d) => responses' \subseteq responses
      BY DEF TransportError
    <3>3. Begin(d) \/ Send(d) \/ Resume(d) \/ Cancel(d) => responses' = responses
      BY DEF Begin, Send, Resume, Cancel, network
    <3> QED BY <1>5, <3>1, <3>2, <3>3 DEF Client
  <2>2. ASSUME NEW state, NEW attempt, NEW outcome, Become(d, state, attempt, outcome),
               outcome = "accepted" => Done(d), outcome = "conflict" => TakenByOther(d)
        PROVE  AnswersAreTrue'
    <3>1. \A c \in Dispatches : \/ call'[c].outcome = call[c].outcome
                                \/ c = d /\ call'[c].outcome = outcome
      BY <2>2 DEF Become, TypeOK
    <3> QED BY <1>1, <1>2, <2>1, <2>2, <3>1 DEF AnswersAreTrue
  <2>3. ASSUME NEW outcome \in {"retryable"}, RetryOrReturn(d, outcome)
        PROVE  AnswersAreTrue'
    BY <2>2, <2>3 DEF RetryOrReturn
  <2>4. CASE Receive(d)
    <3>1. PICK r \in responses :
              /\ r.dispatch = d
              /\ \/ /\ r.status = 200
                    /\ Become(d, "returned", call[d].attempt,
                           IF ReceiptFits(d, r.receipt) THEN "accepted" ELSE "response_invalid")
                 \/ RetryOrReturn(d, "retryable")
                 \/ Become(d, "returned", call[d].attempt, ErrorKind(r.status))
      BY <2>4 DEF Receive
    <3>2. r.status \in {200, 401, 403, 409, 429, 503}
      BY DEF TypeOK, Responses
    <3>3. ErrorKind(r.status) # "accepted" /\ (ErrorKind(r.status) = "conflict" => r.status = 409)
      BY <3>2 DEF ErrorKind, Retryable
    <3>4. /\ r.status = 200 /\ ReceiptFits(d, r.receipt) => Done(d)
          /\ r.status = 409 => TakenByOther(d)
      BY <3>1 DEF AnswersAreTrue
    <3> QED BY <2>2, <2>3, <3>1, <3>3, <3>4
  <2> QED BY <1>5, <2>2, <2>3, <2>4 DEF Client, Begin, Send, TransportError, Resume, Cancel
<1>6. ASSUME NEW r \in requests, Arrive(r)
      PROVE  AnswersAreTrue'
  <2> DEFINE d == r.dispatch
             claim == claims[KeyOf(d)]
             verdict == EvaluateCallbackReplay(claim, BodyOf(d))
  <2>1. d \in Dispatches
    BY DEF TypeOK, Requests
  <2>2. KeyOf(d) \in Keys /\ claim \in Claims
    BY <2>1, ErrandsAreTyped DEF TypeOK
  <2>3. call' = call
    BY <1>6 DEF Arrive
  <2>4. CASE verdict = "conflict" /\ Answer(r, 409, "none")
    BY <1>3, <2>1, <2>2, <2>3, <2>4, ReplayVerdicts DEF TakenByOther
  <2>5. CASE verdict = "replay" /\ claim.state = "terminal" /\ Answer(r, 200, claim.execution)
    <3>1. Done(d)
      BY <2>2, <2>5, ReplayVerdicts DEF Done, TerminalWasExecuted
    <3> QED BY <1>3, <2>1, <2>3, <2>5, <3>1
  <2>6. CASE Answer(r, 401, "none") \/ Answer(r, 503, "none")
    BY <1>3, <2>1, <2>3, <2>6
  <2>7. ASSUME NEW fence, Claim(r, fence)
        PROVE  AnswersAreTrue'
    BY <1>4, <2>3, <2>7 DEF Claim
  <2> QED BY <1>6, <2>4, <2>5, <2>6, <2>7 DEF Arrive
<1>7. ASSUME NEW r \in requests, Intercept(r)
      PROVE  AnswersAreTrue'
  <2>1. PICK status \in {200, 403, 429} : Answer(r, status, "none")
    BY <1>7 DEF Intercept
  <2>2. r.dispatch \in Dispatches /\ call' = call
    BY <1>7 DEF TypeOK, Requests, Intercept
  <2> QED BY <1>3, <2>1, <2>2 DEF ReceiptFits
<1>8. ASSUME NEW h \in handlers, Complete(h)
      PROVE  AnswersAreTrue'
  <2>1. h.request.dispatch \in Dispatches /\ call' = call
    BY <1>8 DEF TypeOK, Requests, Complete
  <2>2. Done(h.request.dispatch)
    BY <1>8 DEF Complete, Done
  <2>3. PICK status, receipt : status \in {200, 503} /\ Answer(h.request, status, receipt)
    BY <1>8 DEF Complete
  <2> QED BY <1>3, <2>1, <2>2, <2>3
<1>9. Tick \/ (\E h \in handlers : Invoke(h) \/ Crash(h)) \/ (\E k \in Keys : Expire(k))
        \/ UNCHANGED vars => call' = call /\ responses' = responses
  BY DEF Tick, Invoke, Crash, Expire, network, vars
<1>10. ASSUME NEW r \in responses, Truncate(r)
       PROVE  AnswersAreTrue'
  <2>1. call' = call
    BY <1>10 DEF Truncate
  <2>2. \A s \in responses' :
            \/ s \in responses
            \/ s.dispatch \in Dispatches /\ s.status = 200 /\ s.receipt = "none"
    BY <1>2, <1>10, TruncatedShape
  <2>3. \A s \in responses' :
            /\ s.dispatch \in Dispatches
            /\ s.status = 200 /\ ReceiptFits(s.dispatch, s.receipt) => Done(s.dispatch)
            /\ s.status = 409 => TakenByOther(s.dispatch)
    BY <1>2, <2>2 DEF AnswersAreTrue, ReceiptFits
  <2> QED BY <1>1, <2>1, <2>3 DEF AnswersAreTrue
<1> QED BY <1>4, <1>5, <1>6, <1>7, <1>8, <1>9, <1>10 DEF Next, Environment

-----------------------------------------------------------------------------
(* The theorems *)

LEMMA InitInvariant ==
    ASSUME Init, DispatchAssumption
    PROVE  DispatchInvariant
<1>1. PICK errand \in Errands :
          call = [d \in Dispatches |->
                     [errand |-> errand[d], state |-> "idle", attempt |-> 0, outcome |-> "none"]]
  BY DEF Init
<1>2. requests = {} /\ responses = {} /\ handlers = {} /\ executed = {} /\ UnderWay = {}
  BY DEF Init, UnderWay
<1>3. TypeOK
  <2>1. \A d \in Dispatches : errand[d] \in ErrandsOfCalls
    BY DEF ErrandsOfCalls
  <2>2. claims \in [Keys -> Claims]
    BY DEF Init, Claims
  <2>3. 0 \in 0..MaxAttempts /\ 0 \in 0..MaxNow /\ 0 \in 0..MaxCrashes
    BY DEF DispatchAssumption
  <2>4. "none" \in Outcomes
    BY DEF Outcomes
  <2>5. call \in [Dispatches -> [errand : ErrandsOfCalls,
            state : {"idle", "sending", "awaiting", "pausing", "returned"},
            attempt : 0..MaxAttempts, outcome : Outcomes]]
    BY <1>1, <2>1, <2>3, <2>4
  <2> QED BY <1>2, <2>2, <2>3, <2>5 DEF TypeOK, Init
<1>4. AttemptsAreCounted
  BY <1>1 DEF AttemptsAreCounted
<1>5. AnsweredOnce /\ KeysKeepTheirBody
  BY <1>2 DEF AnsweredOnce, KeysKeepTheirBody
<1>6. TerminalWasExecuted
  BY DEF Init, NoClaim, TerminalWasExecuted
<1>7. AnswersAreTrue
  BY <1>1, <1>2 DEF AnswersAreTrue
<1> QED BY <1>3, <1>4, <1>5, <1>6, <1>7 DEF DispatchInvariant

LEMMA InvariantStep ==
    ASSUME DispatchInvariant, [Next]_vars, DispatchAssumption
    PROVE  DispatchInvariant'
<1> USE DEF DispatchInvariant
<1>1. KeysKeepTheirBody' /\ TerminalWasExecuted' /\ AnswersAreTrue'
  BY BodiesStep, TerminalStep, AnswersStep
<1>2. CASE UNCHANGED vars
  <2>1. TypeOK' /\ AttemptsAreCounted'
    BY <1>2 DEF vars, TypeOK, AttemptsAreCounted
  <2>2. AnsweredOnce'
    BY <1>2 DEF vars, AnsweredOnce, UnderWay, OfAttempt
  <2> QED BY <1>1, <2>1, <2>2
<1>3. CASE Environment
  BY <1>1, <1>3, EnvironmentTypes, EnvironmentCounts
<1>4. ASSUME NEW d \in Dispatches, Client(d)
      PROVE  DispatchInvariant'
  BY <1>1, <1>4, ClientTypes, ClientCounts
<1> QED BY <1>2, <1>3, <1>4 DEF Next

(* The Dispatch Gateway keeps its invariant: an attempt is answered at     *)
(* most once and only while its call waits for it, a key once claimed      *)
(* stays with one body, and every answer under way is true                 *)
(* (remote.go:58-89, signature.go:140).                                    *)
THEOREM DispatchSafe == DispatchSpec => []DispatchInvariant
<1>1. Init => DispatchInvariant
  BY InitInvariant, DispatchAssumption
<1>2. DispatchInvariant /\ [Next]_vars => DispatchInvariant'
  BY InvariantStep, DispatchAssumption
<1> QED BY <1>1, <1>2, PTL DEF DispatchSpec

(* The downstream owner is never given two bodies under one key, however   *)
(* many calls share it and whatever crashed, expired or came late.         *)
THEOREM KeysHaveOneBody == DispatchSpec => []OneBodyPerKey
<1>1. DispatchInvariant => OneBodyPerKey
  BY DEF DispatchInvariant, KeysKeepTheirBody, ClaimedFor, OneBodyPerKey
<1> QED BY <1>1, DispatchSafe, PTL

(* A call that reports acceptance had its own body executed: neither a     *)
(* receipt of something else nor one lost on the way makes it report so    *)
(* (remote.go:73).                                                         *)
THEOREM AcceptedMeansExecuted == DispatchSpec => []AcceptedWasExecuted
<1>1. DispatchInvariant => AcceptedWasExecuted
  BY DEF DispatchInvariant, AnswersAreTrue, AcceptedWasExecuted, Done
<1> QED BY <1>1, DispatchSafe, PTL

(* A conflict is one of content, and final: what the call asked for        *)
(* neither was nor will be executed (signature.go:140, gateway.go:93).     *)
THEOREM ConflictsAreFinal == DispatchSpec => ConflictIsFinal
<1>1. ASSUME DispatchInvariant, DispatchInvariant', [Next]_vars, NEW d \in Dispatches,
             call[d].outcome = "conflict"
      PROVE  [key |-> KeyOf(d), body |-> BodyOf(d)] \notin executed'
  <2>1. TypeOK /\ KeysKeepTheirBody /\ TakenByOther(d) /\ KeysKeepTheirBody'
    BY <1>1 DEF DispatchInvariant, AnswersAreTrue
  <2>2. KeyOf(d) \in Keys
    BY <2>1, ErrandsAreTyped
  <2>3. ClaimedFor(KeyOf(d), claims[KeyOf(d)].body)
    BY <2>1 DEF TakenByOther, ClaimedFor
  <2>4. claims'[KeyOf(d)].body # BodyOf(d)
    BY <1>1, <2>1, <2>2, <2>3, ClaimsKept DEF ClaimedFor, TakenByOther
  <2> QED BY <2>1, <2>4 DEF KeysKeepTheirBody, ClaimedFor
<1>2. DispatchInvariant /\ DispatchInvariant' /\ [Next]_vars =>
          [\A d \in Dispatches : call[d].outcome = "conflict"
              => [key |-> KeyOf(d), body |-> BodyOf(d)] \notin executed']_vars
  BY <1>1
<1> QED BY <1>2, DispatchSafe, PTL DEF DispatchSpec, ConflictIsFinal
=============================================================================
