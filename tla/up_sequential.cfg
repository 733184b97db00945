SPECIFICATION Spec
CONSTANTS
    Files = {f1, f2}
    Contents = {v1, v2}
    NoContent = NoContent
    Jobs = {j1}
    Sequential = TRUE
    StableFiles = TRUE
    MaxCrashes = 2
SYMMETRY Symmetry
INVARIANTS
    RecordedWasIndexed
PROPERTIES
    AnsweredIsStored
    SkippedIsUnchanged
