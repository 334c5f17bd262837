CONSTANTS
    Data = {d1, d2}
    MinBlobSize = 2
    MaxBlobSize = 4
    Bytes = 4
    FastPath = 1
    SourceBlobs = 1
    SourceBytes = 2
    MaxInt = 3
    Reader = {r1, r2}
    MaxItems = 3
    MaxBlobs = 4
SYMMETRY Symmetric
SPECIFICATION MSSpec
\* The streams come to their end.
CHECK_DEADLOCK FALSE
INVARIANTS
    ReadsItems
    SameCursor
