SPECIFICATION FairSpec
CONSTANTS
    author = author
    reviewer = reviewer
    claim = claim
    proof = proof
    review = review
    Role = {author, reviewer}
    NumStages = 2
    StageOf <- MCStageOf
    Output = {claim, proof, review}
    OwnerOf <- MCOwnerOf
    MaxCommands = 3
    MaxCrashes = 0
    MaxFaults = 0
PROPERTIES
    CancellationSettles
CHECK_DEADLOCK FALSE
