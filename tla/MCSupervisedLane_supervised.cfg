SPECIFICATION FairSpec
CONSTANTS
    Absent = Absent
    None = None
    Invocation = {i1, i2}
    Policy = {"persistent", "ephemeral"}
    MaxMishaps = 2
INVARIANTS
    TypeOK
    OneWriter
    StateSurvives
PROPERTIES
    ImplementsRegister
    LaunchSettles
CHECK_DEADLOCK FALSE
