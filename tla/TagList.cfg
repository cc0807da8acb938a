\* The tag list takes up to three pages.
SPECIFICATION Spec
CONSTANTS
    Tags = {1, 2, 3, 4}
    PageSize = 2
INVARIANTS
    TypeOK
    ListIsComplete
PROPERTIES
    NotModifiedMeansUnchanged
    LatestTagIsRecent
