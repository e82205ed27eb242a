\* Liveness under the sweep alone.  No symmetry: it is unsound for liveness.
SPECIFICATION SweptSpec
CONSTANTS
    Sends = {s1, s2}
    Cancels = {c1}
    Edits = {}
    Recipients = {r1}
    NONE = NONE
    CanSchedule = TRUE
PROPERTIES
    EveryClaimSettles
CHECK_DEADLOCK FALSE
