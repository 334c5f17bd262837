CONSTANTS
    Caller = {t1, t2, t3}
    Program = t1
    User = {u1, u2}
    Connections = 3
SPECIFICATION Spec
\* Users leave, and connections are not made for ever.
CHECK_DEADLOCK FALSE
INVARIANTS
    OneConnector
    CacheIsLive
PROPERTIES
    Reconnects
