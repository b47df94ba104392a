\* Two processes, two sessions, two Scheduler workers, stray clients.
SPECIFICATION PublicationSpec
CONSTANTS
    Application = "runtime"
    Processes = {p1, p2}
    Workers = {w1, w2}
    Payloads <- MCPayloads
    StraySnapshots <- MCStraySnapshots
    MaxGeneration = 2
    MaxRevision = 1
    MaxAttempt = 1
SYMMETRY MCSymmetry
PROPERTIES OnlyActiveSessionWrites ImplementsOrder
CHECK_DEADLOCK FALSE
