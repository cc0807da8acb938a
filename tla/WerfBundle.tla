------------------------------ MODULE WerfBundle ------------------------------
(***************************************************************************)
(* The WerfBundle custom resource (api/v1alpha1): what a user asks for     *)
(* (spec), what the operator reports (status), the validation of the spec  *)
(* and the three functions through which the controller moves the phase.   *)
(*                                                                         *)
(* Abstractions.  A tag is its rank in the lexicographic order by which    *)
(* the registry client sorts tags.  The text of an error message is        *)
(* reduced to its cause, except where the controller stores it in          *)
(* LastAppliedTag: there it is ErrorText, which is no tag.  An ETag is the *)
(* content it identifies.  Timestamps are left out.                        *)
(***************************************************************************)
EXTENDS Integers

CONSTANTS
    Tags,                   \* ranks of the bundle tags a registry may hold
    Repositories,           \* values of spec.registry.url
    JobNames,               \* names the job builder may generate
    NoJob,                  \* the empty ActiveJobName
    Namespaces,             \* namespaces of the cluster
    BundleNamespace,        \* the namespace of the bundle itself
    Specs,                  \* the specs users write
    MaxConsecutiveFailures  \* maxConsecutiveFailures, 5 in the code

NoTag == 0            \* the empty LastAppliedTag
ErrorText == -1       \* an error message stored where a tag belongs
NoNamespace == "unset"

(***************************************************************************)
(* A spec.  targetNamespace = NoNamespace is the empty TargetNamespace;    *)
(* serviceAccount, whether ServiceAccountName is set; valuesFrom, whether  *)
(* there are values sources; cpuLimit and memoryLimit, the class of the    *)
(* text (the CRD does not constrain it); logRetentionDays = 0 stands for   *)
(* no number of days; pollInterval, the class of the interval: "zero" for  *)
(* 0s, "tiny" for 1ns to 9ns, which the CRD's pattern also lets through.   *)
(***************************************************************************)
Limits == {"unset", "quantity", "malformed"}

BundleSpec ==
    [url : Repositories,
     targetNamespace : Namespaces \union {NoNamespace},
     serviceAccount : BOOLEAN,
     valuesFrom : BOOLEAN,
     cpuLimit : Limits,
     memoryLimit : Limits,
     logRetentionDays : Nat,
     pollInterval : {"regular", "zero", "tiny"}]

ASSUME TagsAssumption == Tags \subseteq Nat \ {0}
ASSUME JobsAssumption == NoJob \notin JobNames
ASSUME NamespacesAssumption ==
    BundleNamespace \in Namespaces /\ NoNamespace \notin Namespaces
ASSUME SpecsAssumption == Specs \subseteq BundleSpec /\ Specs # {}
ASSUME FailuresAssumption == MaxConsecutiveFailures \in Nat

-----------------------------------------------------------------------------
Phases == {"none", "Syncing", "Synced", "Failed"}
Causes == {"none", "crossNamespace", "serviceAccount", "registry", "build",
           "create", "job"}
ETags == SUBSET (Repositories \X SUBSET Tags)   \* {} is the empty LastETag

Status ==
    [phase : Phases,
     lastAppliedTag : Tags \union {NoTag, ErrorText},
     lastErrorMessage : Causes,
     lastETag : ETags,
     consecutiveFailures : Nat,
     activeJobName : JobNames \union {NoJob},
     lastJobStatus : {"none", "Running", "Succeeded", "Failed"},
     lastJobLogs : [job : JobNames \union {NoJob}, inConfigMap : BOOLEAN],
     resolvedTargetNamespace : Namespaces \union {NoNamespace}]

NoStatus ==
    [phase |-> "none",
     lastAppliedTag |-> NoTag,
     lastErrorMessage |-> "none",
     lastETag |-> {},
     consecutiveFailures |-> 0,
     activeJobName |-> NoJob,
     lastJobStatus |-> "none",
     lastJobLogs |-> [job |-> NoJob, inConfigMap |-> FALSE],
     resolvedTargetNamespace |-> NoNamespace]

(***************************************************************************)
(* The object: deleting is a set DeletionTimestamp, finalizer the presence *)
(* of werf.io/finalizer.                                                   *)
(***************************************************************************)
Bundle ==
    [exists : BOOLEAN, deleting : BOOLEAN, finalizer : BOOLEAN,
     spec : Specs, status : Status]

NewBundle(spec) ==
    [exists |-> TRUE, deleting |-> FALSE, finalizer |-> FALSE,
     spec |-> spec, status |-> NoStatus]

\* The CRD schema: the API server refuses a status above the maximum.
ValidStatus(status) == status.consecutiveFailures <= MaxConsecutiveFailures + 1

-----------------------------------------------------------------------------
GetTargetNamespace(spec) ==
    IF spec.targetNamespace = NoNamespace THEN BundleNamespace
                                          ELSE spec.targetNamespace

\* TRUE when the code returns no error.
ValidateCrossNamespaceDeployment(spec) ==
    \/ spec.targetNamespace \in {NoNamespace, BundleNamespace}
    \/ spec.serviceAccount

updateStatusSyncing(status, tag) ==
    [status EXCEPT !.phase = "Syncing",
                   !.lastAppliedTag = IF tag = NoTag THEN @ ELSE tag,
                   !.lastErrorMessage = "none"]

updateStatusSynced(status, tag) ==
    [status EXCEPT !.phase = "Synced",
                   !.lastAppliedTag = tag,
                   !.lastErrorMessage = "none"]

updateStatusFailed(status, cause) ==
    [status EXCEPT !.phase = "Failed", !.lastErrorMessage = cause]
=============================================================================
