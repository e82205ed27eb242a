SPECIFICATION Spec
CONSTANTS
    Sends = {s1, s2}
    Cancels = {c1}
    Edits = {}
    Recipients = {r1}
    NONE = NONE
    CanSchedule = TRUE
INVARIANT
    DeliveredNeverDraft
CHECK_DEADLOCK FALSE
