\* Two configuration commands and one mishap over three profiles, a page left
\* open and a run between them.
CONSTANTS
    Author = {lead}
    Reviewer = reviewer
    Profile = {p1, p2, p3}
    Run = {run1}
    Edit = {e1}
    Matrix = {skills1, skills2}
    None = None
    MaxCommands = 2
    MaxMishaps = 1
SPECIFICATION Spec
INVARIANTS
    TypeOK
    PreparedAsReviewed
    NothingIsLost
    AnswersAreTrue
SYMMETRY Symmetry
CHECK_DEADLOCK FALSE
