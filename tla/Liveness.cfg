\* A spec with a ServiceAccount whose Job build may fail, one that is polled only
\* once and whose Job build panics, and one whose Job is refused and whose
\* interval is too short for the jitter, with lost API calls, edits, restarts,
\* outages, new tags, deletion and loss of the ServiceAccount at any point.
SPECIFICATION FairSpec
CONSTANTS
    Tags = {1}
    Repositories = {"app"}
    JobNames = {j1, j2}
    NoJob = NoJob
    Namespaces = {"werf"}
    BundleNamespace = "werf"
    Specs <- BuildSpecs
    NameLength = 6
    LabelTags = {1}
    MaxConsecutiveFailures = 2
    Operators = {o1}
    StartAccounts = {{"werf"}}
    ETagSupport = {TRUE, FALSE}
    ShortHashTags = {}
    JobInformerLags = FALSE
    Faults = {"delete", "api", "edit", "crash", "values", "registry", "push",
              "serviceAccount"}
    MaxFaults = 2
CHECK_DEADLOCK FALSE
INVARIANTS
    ClaimIsAccountedFor
    RetentionIsKept
PROPERTIES
    DeletionCompletes
    OutageIsReported
    RetriesEnd
    FailuresReset
