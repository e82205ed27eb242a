\* A pod that is shut down: what Shutdown's comment says of the drain.
SPECIFICATION Spec
CONSTANTS
    Total = 2
    Concurrency = 1
    OverNats = TRUE
INVARIANTS
    DrainedMeansIdle
CHECK_DEADLOCK FALSE
