SPECIFICATION Spec
CONSTANTS
    None = None
    Method = {"m", "n"}
    Digest = {"d1", "d2"}
    MaxVersion = 2
    Mode = {"review_revision"}
    Writes <- EveryDocument
    Earlier <- WithManuscript
    MaxRuns = 2
INVARIANT LedgerIsRead
CHECK_DEADLOCK FALSE
