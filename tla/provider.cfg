SPECIFICATION ProviderSpec
CONSTANTS
    Calls = {c1, c2}
    Sessions = {s1, s2}
    MaxRetries = 2
    MaxPages = 2
    MaxTime = 1
PROPERTIES
    BuiltFromLiveSecret
    RetriesAreSpent
    HealthIsOfOneSession
    CallEnds
