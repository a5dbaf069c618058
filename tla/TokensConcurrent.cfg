SPECIFICATION FairSpec
CONSTANTS
    Users = {u1, u2}
    Tokens = {t1, t2}
    Procs = {p1, p2}
    Ops = {"add", "remove", "check"}
INVARIANTS
    OwnTokensOnly
PROPERTIES
    CacheConverges
