\* Every call by every name, for hosts with and without their guards.
SPECIFICATION CommandsSpec
CONSTANTS
    Names = {"plain", "a/b", "a%2Fb", "plans-1", "plans/1", "deletion-receipt-1"}
    Escape <- MCEscape
    PlansPrefix = {"plans-1", "plans-eu", "plans/1", "plans%2F1", "plans%252F1"}
    ReceiptPrefix = {"deletion-receipt-1"}
    Applications = {"runtime", "plans-eu", "a/b"}
    Existing <- MCExisting
INVARIANTS
    ActsOnTheNamed
    NothingWithoutEvidence
    ContractServesTheClient
    ErrorsAnswerTheirCalls
CHECK_DEADLOCK FALSE
