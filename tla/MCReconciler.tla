----------------------------- MODULE MCReconciler -----------------------------
(* Constants with which TLC checks the controller.                         *)
EXTENDS ReconcilerProperties, TLC

\* Deploys to the bundle's own namespace with the default ServiceAccount.
Plain ==
    [url |-> "app", targetNamespace |-> NoNamespace, serviceAccount |-> FALSE,
     valuesFrom |-> FALSE, cpuLimit |-> "unset", memoryLimit |-> "unset",
     logRetentionDays |-> 7, pollInterval |-> "regular"]
\* Another repository, deployed to another namespace.
CrossNamespace ==
    [Plain EXCEPT !.url = "web", !.targetNamespace = "apps",
                  !.serviceAccount = TRUE]
MissingAccount == [CrossNamespace EXCEPT !.serviceAccount = FALSE]
\* Values and a ServiceAccount in the bundle's own namespace.
WithValues == [Plain EXCEPT !.valuesFrom = TRUE, !.serviceAccount = TRUE]
\* Polled once, and its Job build panics.
BadLimits ==
    [Plain EXCEPT !.memoryLimit = "malformed", !.pollInterval = "zero"]
\* The seconds of so many days are a negative int32, and adding jitter to so
\* short an interval panics.
LongRetention ==
    [Plain EXCEPT !.logRetentionDays = 24856, !.pollInterval = "tiny"]

PlainOnly == {Plain}
NamespaceSpecs == {Plain, CrossNamespace, MissingAccount}
BuildSpecs == {WithValues, BadLimits, LongRetention}

Symmetry == Permutations(JobNames) \union Permutations(Operators)
=============================================================================
