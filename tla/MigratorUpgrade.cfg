\* All servers may be up, with no death left to inject: nothing more happens.
CHECK_DEADLOCK FALSE
SPECIFICATION FairSpec
CONSTANTS
    Procs = {p1, p2}
    Files <- SQLiteFiles
    Idempotent <- SQLiteIdempotent
    Releases = {2402, 2501}
    Installed = {0, 2204, 2301, 2402, 2501}
    MinVersion = 2200
    Transactional = TRUE
    Secrets = {s1, s2}
    NoSecret = nosecret
    NoView = noview
    NoProc = noproc
    MaxCrashes = 2
INVARIANTS
    VersionIsBacked
    ServesOnItsSchema
    AllOrNothing
PROPERTIES
    EventuallyServes
