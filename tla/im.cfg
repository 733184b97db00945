SPECIFICATION FairSpec
CONSTANTS
    Ids = {i1, i2, i3}
    Connectors = {c1, c2, c3}
    Tasks = {t1, t2}
    NoId = NoId
    NoConnector = NoConnector
    HealthAnswers <- SomeAnswers
    SerialIds = {i1, i2}
    CancellableIds = {i1}
INVARIANTS
    ManagedIsLive
    NoLostConnector
PROPERTIES
    NoResurrection
    ConnectSettles
    ImplementsOwnership
