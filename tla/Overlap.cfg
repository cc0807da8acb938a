\* Two operator processes on one bundle, while the registry comes and goes, one
\* of them crashes, or the user deletes the bundle.
SPECIFICATION Spec
CONSTANTS
    Tags = {1}
    Repositories = {"app"}
    JobNames = {j1, j2}
    NoJob = NoJob
    Namespaces = {"werf"}
    BundleNamespace = "werf"
    Specs <- PlainOnly
    NameLength = 6
    LabelTags = {1}
    MaxConsecutiveFailures = 1
    Operators = {o1, o2}
    StartAccounts = {{}}
    ETagSupport = {FALSE}
    ShortHashTags = {}
    JobInformerLags = FALSE
    Faults = {"delete", "registry", "crash", "api"}
    MaxFaults = 2
SYMMETRY Symmetry
CHECK_DEADLOCK FALSE
INVARIANTS
    OneJobPerClaim
    TagsAreDeployedOnce
PROPERTIES
    KeepsPromise
