SPECIFICATION Spec
CONSTANTS
    Turns = {t1}
    Steps = {m1}
    NoStep = NoStep
    Start = Start
    OverlapTurns = {}
    MaxTokens = 2
PROPERTY
    AnswerShown
CHECK_DEADLOCK FALSE
