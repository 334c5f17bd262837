CONSTANTS
    p1 = p1
    c1 = c1
    Call = {c1, c2}
    Blobs = {c1}
    Protocol = {p1, p2}
    ManagedProtocol = {p1}
    MaxAnswers <- OnceTwice
SPECIFICATION MCSpec
\* Components are destroyed and all calls are over.
CHECK_DEADLOCK FALSE
INVARIANTS
    BuffersStayMapped
    BlobsStayMapped
    AgreedIsRead
PROPERTIES
    CompletesCalls
    CallsEnd
