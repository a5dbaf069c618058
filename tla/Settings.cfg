\* Two rows at first and one created, five steps of the user, of others and of the network.
CONSTANTS
    None = None
    MaxRows = 3
    MaxSteps = 5
SPECIFICATION Spec
INVARIANTS
    ViewTrue
    SaidDeleted
    FormTrue
PROPERTIES
    KeepsUntouched
CHECK_DEADLOCK FALSE
