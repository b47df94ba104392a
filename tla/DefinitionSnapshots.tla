------------------------ MODULE DefinitionSnapshots ------------------------
(***************************************************************************)
(* The fenced ordering contract of the definition publication protocol:    *)
(* sessions, fences, snapshots, cursors and EvaluateDefinitionSnapshot, the *)
(* decision every Scheduler store takes on every snapshot it receives.     *)
(*                                                                         *)
(* Abstractions.  A session nonce is a pair <<kind, number>>: the kind     *)
(* "malformed" stands for every session Validate refuses for its contract  *)
(* version or for the shape of its nonce, any other kind for a well-formed *)
(* nonce.  Two nonces of different numbers differ, and SHA-256 is an       *)
(* injective tag.  The nil pointer and the Go zero value of a session, a   *)
(* fence and a cursor are the records NilSession, NoFence and NoCursor.    *)
(* A snapshot's definitions are a sequence; of a definition only its key,  *)
(* its target type and the rest of its body are kept.                      *)
(***************************************************************************)
EXTENDS Naturals, Sequences

CONSTANTS Application   \* the Runtime the store is bound to

NonceKinds == {"issued", "foreign", "malformed"}
Nonce == NonceKinds \X Nat

Session == [generation : Nat, sessionNonce : Nonce]
NilSession == [generation |-> 0, sessionNonce |-> <<"malformed", 0>>]

SHA256(value) == <<"sha256", value>>

Fence == [generation : Nat, sessionSHA256 : {"sha256"} \X Nonce]
NoFence == [generation |-> 0, sessionSHA256 |-> SHA256(<<"malformed", 0>>)]

NoCursor == [application |-> Application, publisherFence |-> NoFence,
             revision |-> 0, contentSHA256 |-> {}]

-----------------------------------------------------------------------------

(* DefinitionPublisherSession.Validate *)
ValidSession(s) == s.sessionNonce[1] # "malformed" /\ s.generation # 0

(* DefinitionPublisherSession.PublisherFence *)
PublisherFence(s) == [generation |-> s.generation, sessionSHA256 |-> SHA256(s.sessionNonce)]

(* DefinitionPublisherFence.Validate *)
ValidFence(f) == f.generation # 0

(* DefinitionPublisherFence.Equal *)
FenceEqual(f, g) == f.generation = g.generation /\ f.sessionSHA256 = g.sessionSHA256

(* DefinitionSnapshotCursor.Validate; the application of a cursor is never blank. *)
ValidCursor(c) == ValidFence(c.publisherFence) /\ c.revision > 0

(* Definition.Normalize: an omitted target type becomes runtime_operation. *)
NormalizeDefinition(d) ==
    IF d.targetType = "" THEN [d EXCEPT !.targetType = "runtime_operation"] ELSE d

(* Definition.Validate of a normalized definition *)
ValidDefinition(d) == d.key # "" /\ d.targetType \in {"runtime_operation", "http"}

(* DefinitionSnapshotContentSHA256 answers an error for an invalid         *)
(* definition and for a repeated key.                                      *)
ContentAccepted(definitions) ==
    /\ \A i \in DOMAIN definitions : ValidDefinition(NormalizeDefinition(definitions[i]))
    /\ \A i, j \in DOMAIN definitions : definitions[i].key = definitions[j].key => i = j

(* ... and otherwise the hash of the normalized definitions sorted by key: *)
(* with the keys distinct, one value per SET of normalized definitions.    *)
ContentSHA256(definitions) ==
    {NormalizeDefinition(definitions[i]) : i \in DOMAIN definitions}

-----------------------------------------------------------------------------

(* The cursor a snapshot moves the store to. *)
NextCursor(application, incoming) ==
    [application |-> application,
     publisherFence |-> PublisherFence(incoming.publisherSession),
     revision |-> incoming.revision,
     contentSHA256 |-> ContentSHA256(incoming.definitions)]

(* Faulty variants: a retired session passes while nothing newer was accepted; ... *)
AgainstActiveWithoutRetirement(fence, active) ==
    IF fence.generation <= active.generation THEN "current" ELSE "mismatch"

(* Where the snapshot's fence stands against the active one. *)
AgainstActive(fence, active) ==
    IF FenceEqual(fence, active) THEN "current"
    ELSE IF fence.generation < active.generation THEN "stale" ELSE "mismatch"

(* ... a new session must continue the numbering of the old one; ... *)
StartsOverOnce(fence, current) == current = NoCursor

(* The first snapshot of a newer session needs no comparison of revisions. *)
StartsOver(fence, current) ==
    current = NoCursor \/ fence.generation > current.publisherFence.generation

(* ... contents are compared before normalization, a retry is taken for an *)
(* old revision, revisions are not compared at all.                        *)
RevisionVerdictRaw(current, incoming) ==
    IF incoming.revision < current.revision THEN "stale"
    ELSE IF incoming.revision > current.revision THEN "apply"
    ELSE IF {incoming.definitions[i] : i \in DOMAIN incoming.definitions} = current.contentSHA256
         THEN "replay" ELSE "conflict"
RevisionVerdictNoReplay(current, incoming) ==
    IF incoming.revision <= current.revision THEN "stale" ELSE "apply"
RevisionVerdictUnordered(current, incoming) ==
    IF incoming.revision # current.revision THEN "apply"
    ELSE IF ContentSHA256(incoming.definitions) = current.contentSHA256 THEN "replay" ELSE "conflict"

(* Two snapshots of one session: a lower revision is stale, an equal one   *)
(* is a replay of the same content or a conflict.                          *)
RevisionVerdict(current, incoming) ==
    IF incoming.revision < current.revision THEN "stale"
    ELSE IF incoming.revision > current.revision THEN "apply"
    ELSE IF ContentSHA256(incoming.definitions) = current.contentSHA256
         THEN "replay" ELSE "conflict"

(* EvaluateDefinitionSnapshot: the checks in the order the code makes      *)
(* them; each error class is the name of its sentinel error.               *)
EvaluateDefinitionSnapshot(application, active, current, incoming) ==
    LET fence == PublisherFence(incoming.publisherSession)
        isFirst == current = NoCursor
    IN  IF ~ValidFence(active) \/ ~ValidSession(incoming.publisherSession) THEN "required"
        ELSE IF incoming.revision <= 0 THEN "conflict"
        ELSE IF ~ContentAccepted(incoming.definitions) THEN "invalid"
        ELSE IF ~isFirst /\ ~ValidCursor(current)
             THEN IF ValidFence(current.publisherFence) THEN "conflict" ELSE "required"
        ELSE IF ~isFirst /\ current.application # application THEN "mismatch"
        ELSE IF ~isFirst /\ fence.generation < current.publisherFence.generation THEN "stale"
        ELSE IF AgainstActive(fence, active) # "current" THEN AgainstActive(fence, active)
        ELSE IF StartsOver(fence, current) THEN "apply"
        ELSE IF ~FenceEqual(fence, current.publisherFence) THEN "conflict"
        ELSE RevisionVerdict(current, incoming)

Refusals == {"required", "conflict", "invalid", "mismatch", "stale"}

(* The order the accepted cursors must follow: generation, then revision.  *)
Before(g1, r1, g2, r2) == g1 < g2 \/ (g1 = g2 /\ r1 < r2)
CursorBefore(c, d) == Before(c.publisherFence.generation, c.revision,
                             d.publisherFence.generation, d.revision)
=============================================================================
