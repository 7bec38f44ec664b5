CONSTANTS
    k1 = k1
    s1 = s1
    tasks = tasks
    suppliers = suppliers
    old = old
    new = new
    t1 = t1
    t2 = t2
    x = x
    y = y
    z = z
    Row <- MCRow
    Entity <- MCEntity
    EntityOf <- MCEntityOf
    Narrowed <- MCNarrowed
    Text = {x, y, z}
    Scope <- MCScope
    StandsFor <- MCStandsFor
    Build = {old, new}
    Knows <- MCKnows
    Tab = {t1}
    NoScope = NoScope
    NoAnswer = NoAnswer
    Closed = Closed
    HandedBack = FALSE
    MaxCounter = 3
    MaxRescopes = 2
    MaxOpens = 2
SPECIFICATION FairSpec
INVARIANTS
    TypeOK
    SettledIsComplete
    NoForeignRows
PROPERTY
    ComesToRest
CHECK_DEADLOCK FALSE
