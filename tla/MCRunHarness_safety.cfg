SPECIFICATION Spec
CONSTANTS
    lead = lead
    left = left
    right = right
    Inv = {lead, left, right}
    NumStages = 2
    StageOf <- MCStageOf
    MaxCrashes = 2
    MaxFaults = 1
    FaultSites = {"intent", "ack", "close", "settle", "prepare", "progress", "transition"}
    SlowKill = TRUE
SYMMETRY MCSymmetry
INVARIANTS
    SubmissionSealsWholeChain
    NoWorkAheadOfBasis
    CancelledIsQuiescent
    IndInv
PROPERTIES
    FenceHolds
    JournalSpec
CHECK_DEADLOCK FALSE
