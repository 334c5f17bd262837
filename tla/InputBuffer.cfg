CONSTANTS
    Stream = {s1, s2}
    Blobs = 3
    Bytes = 4
    FastPath = 1
SPECIFICATION FairSpec
INVARIANTS
    TypeOK
    CursorInBlob
PROPERTIES
    ThrowRestores
    EofWhenDone
    DeliversInOrder
    LoopsEnd
