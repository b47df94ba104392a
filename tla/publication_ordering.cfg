\* Two processes, two sessions of two revisions each, two Scheduler workers.
SPECIFICATION PublicationSpec
CONSTANTS
    Application = "runtime"
    Processes = {p1, p2}
    Workers = {w1, w2}
    Payloads <- MCTwoPayloads
    StraySnapshots <- MCNoStraySnapshots
    MaxGeneration = 2
    MaxRevision = 2
    MaxAttempt = 1
SYMMETRY MCSymmetry
INVARIANTS GenuineNeverConflicts StaleOnlyWhenSuperseded
    PublicationInvariant
PROPERTIES CursorAdvances
CHECK_DEADLOCK FALSE
