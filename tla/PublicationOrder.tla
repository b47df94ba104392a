--------------------------- MODULE PublicationOrder ---------------------------
(***************************************************************************)
(* What definition publication promises, with no network, no process and   *)
(* no store: sessions are numbered, each session publishes a history of    *)
(* revisions, and the Scheduler's accepted entry moves only forward, only  *)
(* to something that was published, and only on behalf of the session that *)
(* is the newest at that moment.                                           *)
(***************************************************************************)
EXTENDS Naturals

CONSTANTS Contents,        \* canonical contents a snapshot may have
          MaxGeneration,   \* bound: sessions issued
          MaxRevision      \* bound: revisions published by one session

VARIABLES issued,          \* generation of the newest session
          published,       \* every entry a session ever published
          accepted         \* the entry the Scheduler runs on

ovars == <<issued, published, accepted>>

Entry == [generation : 1..MaxGeneration, revision : 1..MaxRevision, content : Contents]
NoEntry == [generation |-> 0, revision |-> 0, content |-> {}]

Precedes(e, f) ==
    \/ e.generation < f.generation
    \/ e.generation = f.generation /\ e.revision < f.revision

OInit == issued = 0 /\ published = {} /\ accepted = NoEntry

(* A session is issued; every older one is retired by it. *)
Issue ==
    /\ issued < MaxGeneration
    /\ issued' = issued + 1
    /\ UNCHANGED <<published, accepted>>

(* A session, retired or not, publishes its next revision, once. *)
Publish(e) ==
    /\ e.generation <= issued
    /\ \A f \in published : f.generation = e.generation => f.revision < e.revision
    /\ published' = published \cup {e}
    /\ UNCHANGED <<issued, accepted>>

(* The Scheduler moves forward to an entry of the newest session. *)
Accept(e) ==
    /\ e \in published
    /\ e.generation = issued
    /\ Precedes(accepted, e)
    /\ accepted' = e
    /\ UNCHANGED <<issued, published>>

ONext == Issue \/ \E e \in Entry : Publish(e) \/ Accept(e)

OSpec == OInit /\ [][ONext]_ovars
=============================================================================
