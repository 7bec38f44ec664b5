CONSTANTS
    phone = phone
    tablet = tablet
    task = task
    report = report
    text = text
    a = a
    b = b
    Field = {text}
    Value <- TwoTexts
    NoRow = NoRow
    NoVersion = NoVersion
    NoGate = NoGate
    NoPolicy = NoPolicy
    Device <- MCDevice
    Record <- Report
    PolicyOf <- MCPolicyOf
    InitialRow <- MCInitialRow
    MakerOf <- MCMakerOf
    Null = Null
    Refusable <- MCRefusable
    MaxOps <- MCMaxOps
    Most = 1
    NoOp = NoOp
    MaxMishaps = 2
SPECIFICATION FairSpec
INVARIANT TypeOK
PROPERTIES
    KeepsThePromise
    StaysOnScreen
    ComesToRest
