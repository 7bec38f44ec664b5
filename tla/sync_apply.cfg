CONSTANTS
    text = text
    third = third
    retitle = retitle
    head = head
    remark = remark
    erase = erase
    c = c
    note = note
    status = status
    a = a
    b = b
    draftState = draftState
    fixedState = fixedState
    doc = doc
    line1 = line1
    line2 = line2
    task = task
    make = make
    change = change
    edit = edit
    add = add
    first = first
    again = again
    other = other
    Field <- MCField
    Value <- MCValue
    Record <- MCRecord
    Op <- MCOp
    Operation <- MCOperation
    PolicyOf <- MCPolicyOf
    ParentOf <- MCParentOf
    InitialRow <- MCInitialRow
    Sending <- MCSending
    Queue <- MCQueue
    NoRow = NoRow
    NoVersion = NoVersion
    NoGate = NoGate
    NoPolicy = NoPolicy
    Nobody = Nobody
    Office = Office
    Fixing = doc
    StatusField = status
    FixedValue = fixedState
    MaxAborts = 1
SPECIFICATION FairSpec
INVARIANTS
    TypeOK
    OnceOnly
    LandsAsDecided
PROPERTIES
    EveryOperationAnswered
    NothingAfterFixing
