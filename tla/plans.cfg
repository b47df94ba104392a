\* Two products with three requests and two, four plans at most.
SPECIFICATION PlansSpec
CONSTANTS
    Products = {1, 2}
    Settings <- MCSettings
    Ids = {1, 2, 3, 4}
    ClientIDs = {"k1"}
    Contents = {"draft", "final"}
    MaxSends <- MCSends
INVARIANTS
    RequestsStayInTheirApplication
    CreationIsIdempotent
    NoChangeIsLost
    ReceiptsAreTrue
    PagesAreComplete
CHECK_DEADLOCK FALSE
