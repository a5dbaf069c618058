\* One local file, the visibility, two texts, two saves, one fault or write of another client.
CONSTANTS
    f1 = f1
    visibility = visibility
    location = location
    Files <- MCFiles
    Metas <- MCMetas
    Visibility = visibility
    None = None
    MaxTyped = 2
    MaxSteps = 4
SPECIFICATION Spec
INVARIANTS
    DraftKept
    PostedOnce
    NoOrphans
PROPERTIES
    KeepsUntouched
CHECK_DEADLOCK FALSE
