CONSTANTS
    Data = {d1, d2, d3}
    MinBlobSize = 2
    MaxBlobSize = 4
    Bytes = 4
    FastPath = 1
    SourceBlobs = 3
    SourceBytes = 3
    MaxInt = 3
SPECIFICATION Spec
\* The object is moved from, or broken.
CHECK_DEADLOCK FALSE
SYMMETRY Symmetric
INVARIANTS
    TypeOK
    CursorInBlob
    ContentsInOrder
    CopiedCompletely
    WritesWholeRange
PROPERTIES
    ChunksStay
