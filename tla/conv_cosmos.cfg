SPECIFICATION Spec
CONSTANTS
    Conversations = {i1}
    Actors = {a1, a2}
    Sessions = {s1, s2}
    Runs = {r1, r2, r3}
    NoThread = NoThread
    NoCaller = NoCaller
    Backend = "cosmos"
    SerialThreadWrites = TRUE
    PrivateIds = TRUE
SYMMETRY Symmetry
INVARIANTS
    OwnMessagesOnly
    AnswerFollowsQuestion
    SuccessIsPersisted
PROPERTIES
    DeletedStaysDeleted
    ImplementsLog
CHECK_DEADLOCK FALSE
