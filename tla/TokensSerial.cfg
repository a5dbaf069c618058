\* SerialSpec, written as a constraint on the states of Spec: two goroutines, the
\* calls of different users interleave, and the calls on one user's list come one
\* after the other.
SPECIFICATION Spec
CONSTANTS
    Users = {u1, u2}
    Tokens = {t1, t2}
    Procs = {p1, p2}
    Ops = {"add", "remove", "touch", "check"}
CONSTRAINT OneAtATime
SYMMETRY Symmetry
INVARIANTS
    RevokedSessionsAreRefused
    Coherent
PROPERTIES
    ImplementsTokenSet
