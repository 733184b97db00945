SPECIFICATION FairSpec
CONSTANTS
    Turns = {t1, t2, t3}
    Steps = {m1, m2}
    NoStep = NoStep
    Start = Start
    OverlapTurns = {t1, t2}
    MaxTokens = 1
INVARIANT
    RepliesHaveQuestions
PROPERTIES
    AskedInContext
    RemovedStaysRemoved
    TurnEnds
CHECK_DEADLOCK FALSE
