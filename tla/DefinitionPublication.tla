------------------------ MODULE DefinitionPublication ------------------------
(***************************************************************************)
(* Publication of scheduler definitions from the processes of one Runtime  *)
(* to the Scheduler store over an unreliable network.                      *)
(*                                                                         *)
(*   process   the Runtime's publisher processes: each claims a session    *)
(*             when its remote binding opens, numbers its snapshots from 1, *)
(*             may crash and start again                                   *)
(*   claims    session requests the Scheduler has not answered             *)
(*   requests  every snapshot ever sent.  Nothing is removed: a packet may *)
(*             be handled in any order, many times, late, or never         *)
(*   active    the persisted fence of the newest session                   *)
(*   cursor    the persisted cursor of the accepted snapshot               *)
(*   worker    Scheduler requests being handled: a request reads active    *)
(*             and cursor, evaluates, and commits by compare-and-swap      *)
(*   published    history: what the processes published                    *)
(*   acknowledged history: the greatest position answered with success     *)
(*                                                                         *)
(* The store and the publishers live outside the repository; their part of *)
(* the protocol is the one persistence/definitions.go, saashost/factory.go *)
(* and the comments of sdk.go require of them.                             *)
(***************************************************************************)
EXTENDS DefinitionSnapshots

CONSTANTS Processes, Workers,
          Payloads,        \* definition sequences a publisher may send
          StraySnapshots,  \* snapshots of legacy or misdirected clients
          MaxGeneration,   \* bound: sessions issued
          MaxRevision,     \* bound: revisions published by one session
          MaxAttempt       \* bound: session claims made by one process

Snapshot == [publisherSession : Session, revision : Nat, definitions : Payloads]

ASSUME PublicationAssumption ==
    /\ MaxGeneration \in Nat /\ MaxRevision \in Nat /\ MaxAttempt \in Nat
    /\ StraySnapshots \subseteq Snapshot
    /\ \A m \in StraySnapshots : m.publisherSession.sessionNonce[1] # "issued"

VARIABLES process, claims, requests, active, cursor, worker, published, acknowledged

vars == <<process, claims, requests, active, cursor, worker, published, acknowledged>>

-----------------------------------------------------------------------------

(* The session BeginDefinitionPublisherSession issues as number g; its     *)
(* nonce is random, so no other session has it.                            *)
IssuedSession(g) == [generation |-> g, sessionNonce |-> <<"issued", g>>]

Down == [status |-> "down", attempt |-> 0, session |-> NilSession, revision |-> 0]

NoSnapshot == [publisherSession |-> NilSession, revision |-> 0, definitions |-> <<>>]
Idle == [status |-> "idle", snapshot |-> NoSnapshot, seenActive |-> NoFence,
         seenCursor |-> NoCursor, verdict |-> "none"]

EntryOf(m) == [generation |-> m.publisherSession.generation, revision |-> m.revision,
               content |-> ContentSHA256(m.definitions)]

CursorEntry(c) == [generation |-> c.publisherFence.generation, revision |-> c.revision,
                   content |-> c.contentSHA256]

(* A snapshot a process sent under a session the Scheduler issued *)
Genuine(m) == m.publisherSession.sessionNonce[1] = "issued"

PublicationInit ==
    /\ process = [p \in Processes |-> Down]
    /\ claims = {} /\ requests = {}
    /\ active = NoFence /\ cursor = NoCursor
    /\ worker = [w \in Workers |-> Idle]
    /\ published = {}
    /\ acknowledged = [generation |-> 0, revision |-> 0]

-----------------------------------------------------------------------------
(* Publisher processes *)

(* The binding opens, or its claim timed out and is made again. *)
ClaimSession(p) ==
    /\ process[p].status \in {"down", "claiming"}
    /\ process[p].attempt < MaxAttempt
    /\ process' = [process EXCEPT ![p].status = "claiming", ![p].attempt = @ + 1]
    /\ claims' = claims \cup {[process |-> p, attempt |-> process[p].attempt + 1]}
    /\ UNCHANGED <<requests, active, cursor, worker, published, acknowledged>>

(* The process stops; its session and its revision counter die with it. *)
Crash(p) ==
    /\ process[p].status # "down"
    /\ process' = [process EXCEPT ![p] = [Down EXCEPT !.attempt = process[p].attempt]]
    /\ UNCHANGED <<claims, requests, active, cursor, worker, published, acknowledged>>

(* A reconcile sends the next revision under the session of the binding. *)
PublishSnapshot(p, payload) ==
    LET next == process[p].revision + 1
        sent == [publisherSession |-> process[p].session, revision |-> next,
                 definitions |-> payload]
    IN  /\ process[p].status = "bound"
        /\ next <= MaxRevision
        /\ process' = [process EXCEPT ![p].revision = next]
        /\ requests' = requests \cup {sent}
        /\ published' = published \cup {EntryOf(sent)}
        /\ UNCHANGED <<claims, active, cursor, worker, acknowledged>>

(* A retry of a revision: the same definitions, in any order. *)
Retransmit(p, m, payload) ==
    /\ process[p].status = "bound"
    /\ m \in requests /\ m.publisherSession = process[p].session
    /\ ContentSHA256(payload) = ContentSHA256(m.definitions)
    /\ ContentAccepted(payload) <=> ContentAccepted(m.definitions)
    /\ requests' = requests \cup {[m EXCEPT !.definitions = payload]}
    /\ UNCHANGED <<process, claims, active, cursor, worker, published, acknowledged>>

(* A client without a valid session for this application sends a snapshot. *)
SendStray(m) ==
    /\ requests' = requests \cup {m}
    /\ UNCHANGED <<process, claims, active, cursor, worker, published, acknowledged>>

-----------------------------------------------------------------------------
(* Scheduler *)

(* BeginDefinitionPublisherSession: one transaction persists a fence        *)
(* greater than every earlier one and so retires the session before it.    *)
(* The answer may miss its caller: lost, timed out, or the caller is gone. *)
IssueSession(c, delivered) ==
    LET next == active.generation + 1
        waiting == process[c.process].status = "claiming" /\ process[c.process].attempt = c.attempt
    IN  /\ c \in claims
        /\ next <= MaxGeneration
        /\ delivered => waiting
        /\ claims' = claims \ {c}
        /\ active' = PublisherFence(IssuedSession(next))
        /\ process' = IF delivered
                      THEN [process EXCEPT ![c.process].status = "bound",
                                           ![c.process].session = IssuedSession(next),
                                           ![c.process].revision = 0]
                      ELSE process
        /\ UNCHANGED <<requests, cursor, worker, published, acknowledged>>

(* What handling m would decide if it read the store now. *)
Evaluated(m) ==
    [status |-> "evaluated", snapshot |-> m, seenActive |-> active, seenCursor |-> cursor,
     verdict |-> EvaluateDefinitionSnapshot(Application, active, cursor, m)]

(* A request reaches the Scheduler, which reads its store and evaluates. *)
HandleSnapshot(w, m) ==
    /\ worker[w].status = "idle"
    /\ m \in requests
    /\ worker' = [worker EXCEPT ![w] = Evaluated(m)]
    /\ UNCHANGED <<process, claims, requests, active, cursor, published, acknowledged>>

(* A faulty variant: the commit compares only the cursor. *)
UnchangedCursor(w) == worker[w].seenCursor = cursor
(* Nothing the decision was based on has been written since. *)
Unchanged(w) == worker[w].seenActive = active /\ worker[w].seenCursor = cursor

Acknowledge(m) ==
    acknowledged' = IF Before(acknowledged.generation, acknowledged.revision,
                              m.publisherSession.generation, m.revision)
                    THEN [generation |-> m.publisherSession.generation, revision |-> m.revision]
                    ELSE acknowledged

(* SyncDefinitions: the compare-and-swap succeeds, the definitions are     *)
(* replaced and the cursor moves in one transaction.                       *)
CommitSnapshot(w) ==
    LET m == worker[w].snapshot
    IN  /\ worker[w].verdict = "apply"
        /\ Unchanged(w)
        /\ cursor' = NextCursor(Application, m)
        /\ Acknowledge(m)
        /\ worker' = [worker EXCEPT ![w] = Idle]
        /\ UNCHANGED <<process, claims, requests, active, published>>

(* SyncDefinitions: the compare-and-swap fails; evaluate what is there now. *)
RetryCommit(w) ==
    /\ worker[w].verdict = "apply"
    /\ ~Unchanged(w)
    /\ worker' = [worker EXCEPT ![w] = Evaluated(worker[w].snapshot)]
    /\ UNCHANGED <<process, claims, requests, active, cursor, published, acknowledged>>

(* A replay is answered with success and a refusal with its error, both    *)
(* without a write.                                                        *)
AnswerSnapshot(w) ==
    /\ worker[w].verdict \in Refusals \cup {"replay"}
    /\ IF worker[w].verdict = "replay"
       THEN Acknowledge(worker[w].snapshot)
       ELSE UNCHANGED acknowledged
    /\ worker' = [worker EXCEPT ![w] = Idle]
    /\ UNCHANGED <<process, claims, requests, active, cursor, published>>

(* The Scheduler stops: requests being handled vanish, the store survives. *)
RestartScheduler ==
    /\ \E w \in Workers : worker[w] # Idle
    /\ worker' = [w \in Workers |-> Idle]
    /\ UNCHANGED <<process, claims, requests, active, cursor, published, acknowledged>>

-----------------------------------------------------------------------------

Finish(w) == CommitSnapshot(w) \/ RetryCommit(w) \/ AnswerSnapshot(w)

PublicationNext ==
    \/ \E p \in Processes :
          \/ ClaimSession(p)
          \/ Crash(p)
          \/ \E payload \in Payloads :
                \/ PublishSnapshot(p, payload)
                \/ \E m \in requests : Retransmit(p, m, payload)
    \/ \E m \in StraySnapshots : SendStray(m)
    \/ \E c \in claims, delivered \in BOOLEAN : IssueSession(c, delivered)
    \/ \E w \in Workers :
          \/ \E m \in requests : HandleSnapshot(w, m)
          \/ Finish(w)
    \/ RestartScheduler

PublicationSpec == PublicationInit /\ [][PublicationNext]_vars

(* The network eventually delivers the newest snapshot of a publisher that *)
(* stays up and retries, a restart of the Scheduler does not cut every one *)
(* of its attempts short, and a request being handled eventually ends.     *)
NewestOf(p, m) ==
    /\ process[p].status = "bound"
    /\ m.publisherSession = process[p].session /\ m.revision = process[p].revision

PublicationFairness ==
    /\ \A p \in Processes :
          SF_vars(\E w \in Workers, m \in requests : NewestOf(p, m) /\ HandleSnapshot(w, m))
    /\ \A p \in Processes :
          SF_vars(\E w \in Workers : NewestOf(p, worker[w].snapshot) /\ Finish(w))
    /\ \A w \in Workers : WF_vars(Finish(w))

FairPublicationSpec == PublicationSpec /\ PublicationFairness

-----------------------------------------------------------------------------
(* Properties *)

(* Every variable keeps the shape sdk.go and the store contract give it. *)
TypeOK ==
    /\ process \in [Processes -> [status : {"down", "claiming", "bound"}, attempt : Nat,
                                  session : Session, revision : Nat]]
    /\ claims \subseteq [process : Processes, attempt : Nat]
    /\ requests \subseteq Snapshot
    /\ active \in Fence
    /\ cursor.application = Application
    /\ cursor.publisherFence \in Fence /\ cursor.revision \in Nat
    /\ DOMAIN worker = Workers
    /\ \A w \in Workers :
          /\ worker[w].status \in {"idle", "evaluated"}
          /\ worker[w].verdict \in Refusals \cup {"none", "apply", "replay"}
    /\ acknowledged \in [generation : Nat, revision : Nat]

(* The definitions the Scheduler runs on are, with their generation and    *)
(* revision, something a process really published: no sessionless, foreign *)
(* or malformed snapshot is ever accepted.                                 *)
AcceptedWasPublished == cursor # NoCursor => CursorEntry(cursor) \in published

(* A publisher that numbers its snapshots as required is never told that   *)
(* they conflict, that its session is not the one it holds, or that it has *)
(* none, however its packets are reordered, repeated or re-sorted.         *)
GenuineNeverConflicts ==
    \A w \in Workers :
        worker[w].status = "evaluated" /\ Genuine(worker[w].snapshot) =>
            worker[w].verdict \notin {"conflict", "mismatch", "required"}

(* A snapshot is called stale only when something newer exists: a newer    *)
(* session, or an accepted snapshot past it.                               *)
StaleOnlyWhenSuperseded ==
    \A w \in Workers :
        LET m == worker[w].snapshot
        IN  worker[w].verdict = "stale" /\ Genuine(m) =>
              \/ m.publisherSession.generation < active.generation
              \/ Before(m.publisherSession.generation, m.revision,
                        cursor.publisherFence.generation, cursor.revision)

(* Once a reconcile was answered with success the store never falls back   *)
(* behind it, whatever other workers were deciding at the time.            *)
AcknowledgedIsDurable ==
    ~Before(cursor.publisherFence.generation, cursor.revision,
            acknowledged.generation, acknowledged.revision)

(* The cursor only moves forward, by generation and then by revision. *)
CursorAdvances == [][cursor' # cursor => CursorBefore(cursor, cursor')]_vars

(* A write is always made for the session that is the newest at the moment *)
(* of the write: a retired process cannot overwrite, even with a decision  *)
(* taken before it was retired.                                            *)
OnlyActiveSessionWrites == [][cursor' # cursor => cursor'.publisherFence = active]_vars

(* The inductive invariant the proofs use: what every variable knows about *)
(* sessions, fences and published entries.                                 *)
IssuedFence(f) == f = NoFence \/ (f.generation > 0 /\ f = PublisherFence(IssuedSession(f.generation)))

Accepted(c) ==
    /\ IssuedFence(c.publisherFence) /\ c.publisherFence.generation > 0
    /\ c.application = Application
    /\ CursorEntry(c) \in published

SessionsAreIssued ==
    \A p \in Processes : process[p].status = "bound" =>
        /\ process[p].session = IssuedSession(process[p].session.generation)
        /\ process[p].session.generation \in 1..active.generation

SessionsAreUnique ==
    \A p, q \in Processes :
        /\ process[p].status = "bound" /\ process[q].status = "bound"
        /\ process[p].session.generation = process[q].session.generation
        => p = q

PublishedBySession ==
    \A e \in published :
        /\ e.generation \in 1..active.generation
        /\ e.revision \in Nat /\ e.revision > 0
        /\ \A p \in Processes :
              process[p].status = "bound" /\ process[p].session.generation = e.generation
                  => e.revision <= process[p].revision

PublishedOnce ==
    \A e, f \in published : e.generation = f.generation /\ e.revision = f.revision => e = f

RequestsAreKnown ==
    \A m \in requests : Genuine(m) =>
        /\ m.publisherSession = IssuedSession(m.publisherSession.generation)
        /\ EntryOf(m) \in published

(* A decision d was right for the store it read, which is not newer than   *)
(* the present one.                                                        *)
ConsistentDecision(d) ==
    IF d.status = "idle" THEN d.verdict = "none"
    ELSE /\ d.snapshot \in requests
         /\ d.seenActive \in Fence /\ IssuedFence(d.seenActive)
         /\ d.seenActive.generation <= active.generation
         /\ d.seenCursor = NoCursor \/ Accepted(d.seenCursor)
         /\ ~CursorBefore(cursor, d.seenCursor)
         /\ Genuine(d.snapshot) =>
               d.snapshot.publisherSession.generation <= d.seenActive.generation
         /\ d.verdict = EvaluateDefinitionSnapshot(
               Application, d.seenActive, d.seenCursor, d.snapshot)

DecisionsAreConsistent == \A w \in Workers : ConsistentDecision(worker[w])

(* Everything known anywhere was issued and published, and every decision  *)
(* under way was right for a store state not newer than the present one.   *)
PublicationInvariant ==
    /\ TypeOK
    /\ IssuedFence(active)
    /\ cursor = NoCursor \/ Accepted(cursor)
    /\ SessionsAreIssued /\ SessionsAreUnique
    /\ PublishedBySession /\ PublishedOnce
    /\ RequestsAreKnown
    /\ DecisionsAreConsistent
    /\ AcknowledgedIsDurable

(* Publication implements its promise. *)
Order == INSTANCE PublicationOrder
    WITH Contents <- {ContentSHA256(payload) : payload \in Payloads},
         issued <- active.generation,
         published <- published,
         accepted <- CursorEntry(cursor)

ImplementsOrder == Order!OSpec

(* The newest snapshot of a process that stays up, keeps the active        *)
(* session and sends well-formed definitions is eventually in force, unless *)
(* it publishes a newer one.                                               *)
Pending(p, r) ==
    /\ process[p].status = "bound" /\ process[p].revision = r
    /\ process[p].session.generation = active.generation
    /\ \E m \in requests : NewestOf(p, m) /\ ContentAccepted(m.definitions)

InForce(p, r) ==
    /\ cursor.publisherFence = PublisherFence(process[p].session)
    /\ cursor.revision >= r

NewestEventuallyInForce ==
    \A p \in Processes : \A r \in 1..MaxRevision :
        Pending(p, r) ~> (InForce(p, r) \/ ~Pending(p, r))
=============================================================================
