SPECIFICATION Spec
CONSTANTS
    author = author
    reviewer = reviewer
    claim = claim
    proof = proof
    review = review
    Role = {author, reviewer}
    NumStages = 2
    StageOf <- MCStageOf
    Output = {claim, proof, review}
    OwnerOf <- MCOwnerOf
    MaxCommands = 2
    MaxCrashes = 0
    MaxFaults = 0
INVARIANTS
    OutOfScopeIsIdentical
CHECK_DEADLOCK FALSE
