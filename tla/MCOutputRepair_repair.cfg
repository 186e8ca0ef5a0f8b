SPECIFICATION Spec
CONSTANTS
    Order <- MCOrder
    Required <- MCRequired
    Catalog <- MCCatalog
    Owned <- MCOwned
    Pattern <- MCPattern
    Sane <- MCSane
    Derived = "derived"
    Writes <- MCWrites
    Changes <- MCChanges
    Asked <- MCAsked
    Blamed <- MCBlamed
    Codes <- MCCodes
    MaxEvents = 3
    Upgradable = {"idle"}
    Absent = Absent
    Garbage = Garbage
INVARIANTS
    TypeOK
    AuthoredIsRecoverable
    DisclosureIsExact
    ClosureIsCoherent
    OutOfScopeIsReturned
    RepairIsComplete
CHECK_DEADLOCK FALSE
