\* Nothing goes wrong: one tag, one Job, no disruption.
SPECIFICATION Spec
CONSTANTS
    Tags = {1}
    Repositories = {"app"}
    JobNames = {j1, j2}
    NoJob = NoJob
    Namespaces = {"werf"}
    BundleNamespace = "werf"
    Specs <- PlainOnly
    NameLength = 6
    LabelTags = {1}
    MaxConsecutiveFailures = 1
    Operators = {o1}
    StartAccounts = {{}}
    ETagSupport = {FALSE}
    ShortHashTags = {}
    JobInformerLags = FALSE
    Faults = {}
    MaxFaults = 0
CHECK_DEADLOCK FALSE
INVARIANTS
    SyncedMeansSucceeded
