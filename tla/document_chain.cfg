\* Once every document the bound allows is deleted, nothing is left to do.
CONSTANTS
    t1 = t1
    t2 = t2
    Transaction <- MCTransaction
    WrittenKinds <- MCKinds
    MaxDocuments = 3
    MaxEdits = 1
    MaxPayments = 1
    MaxSkips = 1
SPECIFICATION Spec
SYMMETRY MCSymmetry
CHECK_DEADLOCK FALSE
INVARIANTS
    TypeOK
    NumbersWithoutGap
    SnapshotIsTheDocument
    ChainDoesNotBranch
    DeductsItsChain
    CancelledOnce
