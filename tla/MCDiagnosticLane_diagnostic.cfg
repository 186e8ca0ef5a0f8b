SPECIFICATION Spec
CONSTANTS
    Absent = Absent
    None = None
    Start = {s1, s2}
    Key = {k1, k2}
    Policy = {"persistent", "ephemeral"}
    MaxCancels = 1
    MaxMishaps = 2
SYMMETRY MCSymmetry
INVARIANTS
    TypeOK
    OneRunner
    ProfileSurvives
CHECK_DEADLOCK FALSE
