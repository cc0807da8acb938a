\* A second tag is pushed after the first one is Synced.
SPECIFICATION FairSpec
CONSTANTS
    Tags = {1, 2}
    Repositories = {"app"}
    JobNames = {j1, j2}
    NoJob = NoJob
    Namespaces = {"werf"}
    BundleNamespace = "werf"
    Specs <- PlainOnly
    NameLength = 6
    LabelTags = {1, 2}
    MaxConsecutiveFailures = 1
    Operators = {o1}
    StartAccounts = {{}}
    ETagSupport = {FALSE}
    ShortHashTags = {}
    JobInformerLags = FALSE
    Faults = {"push"}
    MaxFaults = 1
CHECK_DEADLOCK FALSE
PROPERTIES
    LatestTagNoticed
