SPECIFICATION Spec
CONSTANTS
    author = author
    reviewer = reviewer
    claim = claim
    proof = proof
    review = review
    Role = {author, reviewer}
    NumStages = 2
    StageOf <- MCStageOf
    Output = {claim, review}
    OwnerOf <- MCOwnerOf
    MaxCommands = 3
    MaxCrashes = 1
    MaxFaults = 1
INVARIANTS
    TypeOK
    CorrectionsAreVisible
PROPERTIES
    SubmissionListsCorrections
CHECK_DEADLOCK FALSE
