CONSTANTS
    text = text
    third = third
    retitle = retitle
    head = head
    remark = remark
    erase = erase
    c = c
    note = note
    status = status
    a = a
    b = b
    draftState = draftState
    fixedState = fixedState
    doc = doc
    line1 = line1
    line2 = line2
    task = task
    make = make
    change = change
    edit = edit
    add = add
    first = first
    again = again
    other = other
    Field <- MCField
    Value <- MCValue
    Record <- MCRecord
    Op <- RacingOp
    Operation <- MCOperation
    PolicyOf <- MCPolicyOf
    ParentOf <- MCParentOf
    InitialRow <- MCInitialRow
    Sending <- RacingSending
    Queue <- RacingQueue
    NoRow = NoRow
    NoVersion = NoVersion
    NoGate = NoGate
    NoPolicy = NoPolicy
    Nobody = Nobody
    Office = Office
    Fixing = doc
    StatusField = status
    FixedValue = fixedState
    MaxAborts = 0
SPECIFICATION Spec
INVARIANT LandsAsDecided
