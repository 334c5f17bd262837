CONSTANTS
    Caller = {t1}
    Program = t1
    User = {u1}
    Connections = 2
SPECIFICATION Spec
CHECK_DEADLOCK FALSE
PROPERTIES
    RetryReconnects
