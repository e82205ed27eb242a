\* Three recipients, two slots, email-service over NATS: its client gives
\* every answer the SendGrid client gives, and one more.
SPECIFICATION FairSpec
CONSTANTS
    Total = 3
    Concurrency = 2
    OverNats = TRUE
INVARIANTS
    TypeOK
    LedgerAddsUp
    RevertIsSafe
    DrainIsRaceFree
PROPERTIES
    JobEnds
    ImplementsFanOut
CHECK_DEADLOCK FALSE
