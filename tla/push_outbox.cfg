SPECIFICATION FairSpec

CONSTANTS
    anna = anna
    ben = ben
    hers = hers
    his = his
    telephone = telephone
    message = message
    p1 = p1
    p2 = p2
    Person <- MCPerson
    Session <- MCSession
    Telephone <- MCTelephone
    PersonOf <- MCPersonOf
    TelephoneOf <- MCTelephoneOf
    Row <- MCRow
    Cause <- MCCause
    PersonFor <- MCPersonFor
    Process <- MCProcess
    NoSession = NoSession
    NoMessage = NoMessage
    MaxAttempts = 2
    TestsBeside = FALSE
    MaxMishaps = 1
INVARIANT NothingGoesOutTwice
PROPERTY QuietAfterSignOut
PROPERTY Settles

CHECK_DEADLOCK FALSE
