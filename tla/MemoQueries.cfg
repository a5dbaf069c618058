\* One memo with two task items, or one comment; two writes, of the user or of another
\* client, or faults.
CONSTANTS
    t1 = t1
    t2 = t2
    w1 = w1
    w2 = w2
    Tasks <- MCTasks
    Slots <- MCSlots
    None = None
    Absent = Absent
    Failed = Failed
    Gone = Gone
    MaxEvents = 2
SPECIFICATION FairSpec
INVARIANTS
    DetailTrue
    CardTrue
PROPERTIES
    Converges
CHECK_DEADLOCK FALSE
