SPECIFICATION FairSpec

CONSTANTS
    picture = picture
    preview = preview
    photo = photo
    paper = paper
    ours = ours
    q1 = q1
    q2 = q2
    Hash <- MCHash
    Tenant <- MCTenant
    Request <- MCRequest
    Photo <- MCPhoto
    Paper <- MCPaper
    TenantOf <- MCTenantOf
    Ours = ours
    FilesOf <- MCFilesOf
    NoHash = NoHash
    NoDoc = NoDoc
    NoRequest = NoRequest
    BatchSize = 1
    EndsAside = FALSE
    MaxMishaps = 1

INVARIANT TypeOK
INVARIANT KeepsWhatIsNamed
INVARIANT NeverAheadOfItsFile
PROPERTY PhotoArrives
PROPERTY SpaceComesBack

CHECK_DEADLOCK FALSE
