\* A second tag is pushed while the first one's Job runs.
SPECIFICATION Spec
CONSTANTS
    Tags = {1, 2}
    Repositories = {"app"}
    JobNames = {j1, j2}
    NoJob = NoJob
    Namespaces = {"werf"}
    BundleNamespace = "werf"
    Specs <- PlainOnly
    NameLength = 6
    LabelTags = {1, 2}
    MaxConsecutiveFailures = 1
    Operators = {o1}
    StartAccounts = {{}}
    ETagSupport = {FALSE}
    ShortHashTags = {}
    JobInformerLags = FALSE
    Faults = {"push"}
    MaxFaults = 1
CHECK_DEADLOCK FALSE
INVARIANTS
    SyncedTagHasJob
