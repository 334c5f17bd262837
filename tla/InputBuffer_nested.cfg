CONSTANTS
    Stream = {s1, s2}
    Blobs = 3
    Bytes = 3
    FastPath = 1
SPECIFICATION Spec
PROPERTIES
    RangeIsExact
