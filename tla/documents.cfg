SPECIFICATION Spec
CONSTANTS
    Calls = {i1, i2, i3}
    Paths = {p1, p2}
    Pdfs = {p1}
    Contents = {c1, c2}
    NoFile = none
    MaxChanges = 1
    MaxMishaps = 1
INVARIANTS ReservedIsInWork QueuedIsReviewedOnce
PROPERTIES SkippedIsFinished CallEnds
CHECK_DEADLOCK FALSE
