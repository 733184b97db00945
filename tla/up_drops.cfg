SPECIFICATION Spec
CONSTANTS
    Files = {f1, f2}
    Contents = {v1}
    NoContent = NoContent
    Jobs = {j1}
    Sequential = TRUE
    StableFiles = TRUE
    MaxCrashes = 0
SYMMETRY Symmetry
PROPERTY
    SkippedIsRetrievable
