\* Two writers, three batches that overlap, two groups of one message each.
SPECIFICATION Spec
CONSTANTS
    Writers = {w1, w2}
    m1 = m1
    m2 = m2
    g1 = g1
    g2 = g2
    Messages = {m1, m2}
    Groups = {g1, g2}
    GroupOf <- MCGroupOf
    Events <- MCEvents
    Batches <- MCBatches
    NONE = NONE
SYMMETRY Symmetry
INVARIANTS
    TypeOK
    RollupMatchesEvents
    RevertedLeavesNothing
    AckedIsStored
PROPERTIES
    ImplementsEngagement
