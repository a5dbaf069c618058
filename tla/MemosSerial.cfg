\* Every memo and attachment of the bounds may be created and deleted: nothing
\* more can be asked then.
CHECK_DEADLOCK FALSE
SPECIFICATION Spec
CONSTANTS
    Procs = {p1}
    Atts = {a1, a2}
    FileOf <- OwnFile
    Limit = 1
    MaxMemos = 2
    Ops = {"create", "comment", "update", "set", "delete", "upload"}
    Faults = TRUE
SYMMETRY Symmetry
INVARIANTS
    DeletedWhole
    SetAsAsked
