SPECIFICATION FairSpec
CONSTANTS
    Ids = {i1, i2}
    Connectors = {c1, c2}
    Tasks = {t1, t2}
    Revs = {r1, r2}
    NoId = NoId
    NoConnector = NoConnector
    NoRev = NoRev
    CrashingIds = {i1}
    SerialIds = {i1}
    CancellableIds = {i2}
    MaxRestarts = 1
INVARIANTS
    RuntimeIsLive
    NoLostConnector
PROPERTIES
    NoStaleWrite
    DeletedStaysDeleted
    StartupFinishes
    ImplementsOwnership
