\* A founder, a second user who signs up, one tab; the access tokens expire once, and one request
\* or answer is lost, or another tab of the browser signs in or out once.  The system may rest.
CONSTANTS
    a = a
    b = b
    q1 = q1
    Users <- MCUsers
    Founders <- MCFounders
    Background <- MCBackground
    None = None
    Anon = Anon
    Dead = Dead
    NoPublic = TRUE
    MaxFaults = 1
    MaxExpiries = 1
    MaxStates = 1
SPECIFICATION FairSpec
INVARIANTS
    OneRefresh
    OwnData
    SignedOutStays
    CallbackOnce
PROPERTIES
    EventuallyReady
CHECK_DEADLOCK FALSE
