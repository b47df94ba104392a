----------------------- MODULE MCDefinitionPublication -----------------------
(* Small instances of DefinitionPublication. *)
EXTENDS DefinitionPublication, TLC

A  == [key |-> "a", targetType |-> "runtime_operation", body |-> "1"]
A0 == [A EXCEPT !.targetType = ""]              \* the same definition, type omitted
A2 == [A EXCEPT !.body = "2"]
B  == [key |-> "b", targetType |-> "http", body |-> "1"]

(* One content in two orders, another content, and a snapshot that repeats a key *)
MCPayloads == {<<A, B>>, <<B, A0>>, <<A2>>, <<A2, A2>>}
MCTwoPayloads == {<<A, B>>, <<B, A0>>}
MCLivePayloads == {<<A>>, <<A2, A2>>}

(* A snapshot of a client that predates sessions, and one whose nonce was  *)
(* issued by another store, under a generation this store also issues.     *)
Legacy == [publisherSession |-> NilSession, revision |-> 2, definitions |-> <<A2>>]
Foreign == [publisherSession |-> [generation |-> 1, sessionNonce |-> <<"foreign", 1>>],
            revision |-> 2, definitions |-> <<A2>>]
MCStraySnapshots == {Legacy, Foreign}
MCNoStraySnapshots == {}

MCSymmetry == Permutations(Processes) \cup Permutations(Workers)
=============================================================================
