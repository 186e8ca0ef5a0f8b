SPECIFICATION Spec
CONSTANTS
    None = None
    Method = {"m", "n"}
    Digest = {"d1", "d2"}
    MaxVersion = 2
    Mode = {"literature_update", "full_catalog", "focused_method", "theory_establishment",
            "theory_revision", "preliminary", "comprehensive", "assembly", "review_revision"}
    Writes <- EveryDocument
    Earlier <- SomeEarlier
    MaxRuns = 2
INVARIANTS
    TypeOK
    Grounded
    LibraryIsLatest
    TheoryCanBeRead
    IssuesAreAnswered
CHECK_DEADLOCK FALSE
