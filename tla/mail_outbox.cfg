CONSTANTS
    m1 = m1
    m2 = m2
    p1 = p1
    p2 = p2
    Message <- MCMessage
    Process <- MCProcess
    NoMessage = NoMessage
    Limit = 2
    MaximumAttempts = 2
    MaxChanges = 2
    MaxMishaps = 1
SPECIFICATION FairSpec
INVARIANTS
    NothingGoesOutTwice
    TellsTheTruth
PROPERTY
    Settles
