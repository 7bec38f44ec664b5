CONSTANTS
    r1 = r1
    r2 = r2
    r3 = r3
    w1 = w1
    w2 = w2
    Row <- MCRow
    Writer <- MCWriter
    TableOf <- MCTableOf
    TableCount = 2
    Limit = 1
    FirstCounter = 1
    MaxCounter = 5
    MaxFailures = 1
SPECIFICATION FairSpec
INVARIANTS
    TypeOK
    NothingBehindCursor
PROPERTIES
    CursorOnlyForward
    Converges
