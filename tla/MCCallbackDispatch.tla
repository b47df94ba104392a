--------------------------- MODULE MCCallbackDispatch ---------------------------
(***************************************************************************)
(* Two calls.  For one run, as after a lease takeover, they send the same  *)
(* bytes; a key may be reused for other bytes; or a call is for another    *)
(* application than the credential's.                                      *)
(***************************************************************************)
EXTENDS CallbackDispatch

Errand(application, body) ==
    [application |-> application, key |-> "run-1", execution |-> "execution-1", body |-> body]

\* The first call is always the same; these are what the second is for.
Takeover == Errand(Runtime, "bytes")
Reused == Errand(Runtime, "other bytes")
Stranger == Errand("another runtime", "bytes")

MCErrands ==
    {[d \in Dispatches |-> IF d = 1 THEN Takeover ELSE second] :
        second \in {Takeover, Reused, Stranger}}
=============================================================================
