\* Any provider, no schedules: three sends of one newsletter and an autosave.
SPECIFICATION Spec
CONSTANTS
    Sends = {s1, s2, s3}
    Cancels = {}
    Edits = {e1}
    Recipients = {r1, r2}
    NONE = NONE
    CanSchedule = FALSE
SYMMETRY Symmetry
INVARIANTS
    DeliveredNeverDraft
    AtMostOneCopy
    OneFanOut
PROPERTIES
    ImplementsPromise
CHECK_DEADLOCK FALSE
