\* One Scheduler worker, fair delivery of the newest snapshot; no symmetry,
\* since liveness is checked.
SPECIFICATION FairPublicationSpec
CONSTANTS
    Application = "runtime"
    Processes = {p1, p2}
    Workers = {w1}
    Payloads <- MCLivePayloads
    StraySnapshots <- MCNoStraySnapshots
    MaxGeneration = 2
    MaxRevision = 2
    MaxAttempt = 2
PROPERTIES NewestEventuallyInForce
CHECK_DEADLOCK FALSE
