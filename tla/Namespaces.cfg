\* Specs that deploy to another namespace, edited while Reconcile
\* runs, and a Job cache that lags.
SPECIFICATION Spec
CONSTANTS
    Tags = {1}
    Repositories = {"app", "web"}
    JobNames = {j1, j2}
    NoJob = NoJob
    Namespaces = {"werf", "apps"}
    BundleNamespace = "werf"
    Specs <- NamespaceSpecs
    NameLength = 6
    LabelTags = {1}
    MaxConsecutiveFailures = 1
    Operators = {o1}
    StartAccounts = {{"apps"}}
    ETagSupport = {FALSE}
    ShortHashTags = {}
    JobInformerLags = TRUE
    Faults = {"edit", "serviceAccount", "api"}
    MaxFaults = 3
SYMMETRY Symmetry
CHECK_DEADLOCK FALSE
INVARIANTS
    
    JobsAreValidated
    JobsConvergeListedTags
PROPERTIES
    NoLostUpdate
