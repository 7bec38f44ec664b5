SPECIFICATION FairImportsSpec

CONSTANTS
    a = a
    b = b
    i = i
    j = j
    Article <- MCArticle
    Import <- MCImport
    Contents <- MCContents
    Limit = 2
    MaxChanges = 2
    MaxFailures = 1

INVARIANT HoldsTheArticles
INVARIANT SaysWhatWasTaken
PROPERTY NoneRunsForEver
