SPECIFICATION LiveSpec
CONSTANTS
    lead = lead
    left = left
    right = right
    Inv = {lead, left, right}
    NumStages = 2
    StageOf <- MCStageOf
    MaxCrashes = 2
    MaxFaults = 0
    FaultSites = {}
    SlowKill = FALSE
PROPERTIES
    RunTerminates
    CancellationSettles
CHECK_DEADLOCK FALSE
