\* Every memo and attachment of the bounds may be created and deleted: nothing
\* more can be asked then.
CHECK_DEADLOCK FALSE
SPECIFICATION Spec
CONSTANTS
    Procs = {p1, p2}
    Atts = {a1}
    FileOf <- OwnFile
    Limit = 1
    MaxMemos = 2
    Ops = {"create", "comment", "set", "delete", "upload", "discard"}
    Faults = FALSE
SYMMETRY Symmetry
INVARIANTS
    CommentForest
    RowHasFile
