SPECIFICATION Spec
CONSTANTS
    Cases <- Scenarios
    Seeds <- Registry
    Authors = {a1}
    Drivers = {d1, d2}
    Recordings <- Left
    MaxRuns = 3
SYMMETRY Symmetry
INVARIANTS
    PromotedWasReviewed
    ReportsAreTrue
CHECK_DEADLOCK FALSE
