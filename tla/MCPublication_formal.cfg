SPECIFICATION FairSpec
CONSTANTS
    a = a
    b = b
    None = None
    Bootstrap = Bootstrap
    Project = project
    Method = {a, b}
    Run = {r1, r2}
    Key = {k1, k2}
    Op = {"catalog_run", "theory_run", "lifecycle", "brief", "cancel", "create"}
    MaxCrashes = 1
    MaxCorrections = 1
    MaxProjects = 1
    Draft <- MCDraft
INVARIANTS
    TypeOK
    CatalogMirrorsMethods
    ToldIsSo
PROPERTIES
    ImplementsLog
    RunSettles
CHECK_DEADLOCK FALSE
