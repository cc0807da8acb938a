\* One operator that crashes, loses API calls and restarts, while tags come and
\* go, Jobs are removed, the registry is away and the user deletes the bundle.
SPECIFICATION Spec
CONSTANTS
    Tags = {1, 2}
    Repositories = {"app"}
    JobNames = {j1, j2, j3}
    NoJob = NoJob
    Namespaces = {"werf"}
    BundleNamespace = "werf"
    Specs <- PlainOnly
    NameLength = 6
    LabelTags = {1, 2}
    MaxConsecutiveFailures = 1
    Operators = {o1}
    StartAccounts = {{}}
    ETagSupport = {TRUE, FALSE}
    ShortHashTags = {}
    JobInformerLags = FALSE
    Faults = {"api", "crash", "push", "withdraw", "registry", "delete", "job"}
    MaxFaults = 3
SYMMETRY Symmetry
CHECK_DEADLOCK FALSE
INVARIANTS
    TypeOK
    ReportIsConsistent
    ReferencesResolve
    FinalizerHeldWhileDeploying
    RunningJobIsTracked
PROPERTIES
    NoRollback
