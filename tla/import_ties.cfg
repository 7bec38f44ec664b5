SPECIFICATION ImportsSpec

CONSTANTS
    a = a
    b = b
    i = i
    j = j
    Article <- MCArticle
    Import <- MCImport
    Contents <- MCContents
    Limit = 1
    MaxChanges = 0
    MaxFailures = 0

INVARIANT HoldsTheArticles
