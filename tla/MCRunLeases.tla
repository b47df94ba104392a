------------------------------ MODULE MCRunLeases ------------------------------
(* Small instances of RunLeases. *)
EXTENDS RunLeases

Config(leaseTTL, maxPending, dispatchTimeout) ==
    [leaseTTL |-> leaseTTL, maxPending |-> maxPending, dispatchTimeout |-> dispatchTimeout]

\* As the defaults would be, in units of half the default lease; and a lease shorter than the timeout.
MCConfigs == {Config(0, 1, 0), Config(-1, 0, 9)}
=============================================================================
