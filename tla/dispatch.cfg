\* Two calls of two attempts each.
SPECIFICATION FairDispatchSpec
CONSTANTS
    Dispatches = {1, 2}
    Errands <- MCErrands
    Runtime = "runtime"
    MaxAttempts = 2
    MaxClockSkew = 0
    MaxNow = 1
    MaxCrashes = 1
INVARIANTS
    OneBodyPerKey
    AcceptedWasExecuted
PROPERTIES
    ConflictIsFinal
    DispatchReturns
CHECK_DEADLOCK FALSE
