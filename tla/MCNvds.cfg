SPECIFICATION Spec
CONSTANTS
    k1 = k1
    k2 = k2
    k3 = k3
    s1 = s1
    s2 = s2
    m1 = m1
    b1 = b1
    Keys = {k1, k2, k3}
    SmallVals = {s1, s2}
    MiddleVals = {m1}
    BulkVals = {b1}
    Entries <- DataEntries
    NumPages = 3
    Absent = Absent
    Mixed = Mixed
    Instances <- TheInstances
INVARIANTS
    TypeOK
    OneElement
    RebootAgrees
    FreePageKept
PROPERTIES
    Implements
    NoSpaceMeansFull
    CallsReturn
