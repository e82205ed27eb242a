\* SendGrid: two sends (each immediate or scheduled), two cancels (perhaps of
\* the same schedule), an autosave.
SPECIFICATION Spec
CONSTANTS
    Sends = {s1, s2}
    Cancels = {c1, c2}
    Edits = {e1}
    Recipients = {r1}
    NONE = NONE
    CanSchedule = TRUE
SYMMETRY Symmetry
INVARIANTS
    TypeOK
    ClaimColumns
    OnlyStaleRevertStrands
    OnlyStaleRevertDuplicates
    StoredIsMailed
    PurgedIsDead
PROPERTIES
    SentIsFinal
    JobSettlesOwnClaim
CHECK_DEADLOCK FALSE
