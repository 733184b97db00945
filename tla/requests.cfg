SPECIFICATION Spec
CONSTANTS
    Requests <- ThreeRequests
    Capabilities <- TwoCapabilities
    Asks <- Purposes
    Roles <- TwoRoles
    RoleCapabilities <- DefaultRoles
    MaxTraces = 2
    MaxEvents = 2
    Retention = 1
    MaxSeries = 4
    MaxDay = 2
    MaxMishaps = 2
    MaxWork = 4
INVARIANTS
    OpenStoreIsComplete
    RecentMatchesIndex
    DecisionsAreKept
    TraceTellsOutcome
    
CHECK_DEADLOCK FALSE
