\* What the port says of an error that is not marked as ambiguous.
SPECIFICATION Spec
CONSTANTS
    Total = 2
    Concurrency = 1
    OverNats = TRUE
INVARIANTS
    UnwrappedMeansRejected
CHECK_DEADLOCK FALSE
