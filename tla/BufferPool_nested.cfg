CONSTANTS
    p1 = p1
    p2 = p2
    q2 = q2
    i1 = i1
    d1 = d1
    Item = {i1, i2, i3, i4}
    Data = {d1, d2}
    Pool = {q1}
    Process = {p1}
    Null = Null
    Host <- OneHost
    MayCrash = {}
SPECIFICATION Spec
\* The program is over when the pools are closed and the items destroyed.
CHECK_DEADLOCK FALSE
SYMMETRY Symmetric
INVARIANTS
    TypeOK
    RecycledIsExclusive
    IdleIsClean
    NoLeak
PROPERTIES
    ReadersKeepContents
