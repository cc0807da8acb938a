------------------------ MODULE ReconcilerProperties --------------------------
(***************************************************************************)
(* What the WerfBundle controller is supposed to guarantee.  The first     *)
(* part holds of the code; the second states what the repository's own     *)
(* comments and docs say and the code does not do.                         *)
(***************************************************************************)
EXTENDS Reconciler

Created(j) == jobs[j].outcome # "unused"
Running(j) == jobs[j].outcome = "running" /\ jobs[j].present
LatestTag(t) ==
    LET tags == registry.tags[api.spec.url]
    IN  t \in tags /\ \A u \in tags : u <= t

\* No disruption of these kinds has happened.
Spared(kinds) == faults.happened \intersect kinds = {}
OneOperator == \A o, p \in Operators : o = p

-----------------------------------------------------------------------------
(* Safety                                                                  *)

(***************************************************************************)
(* ensureJobExists writes the tag to LastAppliedTag before it creates the  *)
(* Job, and only if the tag differs from what is there.  So, whatever      *)
(* operators overlap, crash or work from stale caches, one value of        *)
(* LastAppliedTag leads to at most one Job for as long as it stays there.  *)
(***************************************************************************)
OneJobPerClaim ==
    \A j, k \in JobNames : jobs[j].claim /\ jobs[k].claim => j = k

(***************************************************************************)
(* The fields of the status agree with one another after every write,      *)
(* whichever branch of Reconcile made it: a Synced bundle has no registry  *)
(* failures and names a tag, a Syncing one has not used up its retries,    *)
(* used-up retries show as Failed, with a count that stays within "0-6"    *)
(* (docs/troubleshooting.md) however often edits and restarts poll again,  *)
(* a Failed bundle shows an error message and a Synced one does not show   *)
(* an old one, and an active Job is reported as Running.  Nothing is said  *)
(* of the message of a Syncing bundle: while failed polls are retried,     *)
(* docs/troubleshooting.md has the user look for one, but the controller   *)
(* stores it in LastAppliedTag and leaves LastErrorMessage empty.          *)
(***************************************************************************)
StatusConsistent(status) ==
    /\ status.consecutiveFailures <= MaxConsecutiveFailures + 1
    /\ status.phase = "none" => status.consecutiveFailures = 0
    /\ status.phase = "Synced" => /\ status.consecutiveFailures = 0
                                  /\ status.lastAppliedTag \in Tags
    /\ status.phase = "Syncing" =>
          status.consecutiveFailures <= MaxConsecutiveFailures
    /\ status.phase = "Failed" => status.lastErrorMessage # "none"
    /\ status.phase \in {"none", "Synced"} => status.lastErrorMessage = "none"
    /\ status.activeJobName # NoJob => status.lastJobStatus = "Running"

\* StatusConsistent of the stored bundle (the updateStatus functions and the
\* in-memory changes of Reconcile that ride along with their writes).
ReportIsConsistent == StatusConsistent(api.status)

(***************************************************************************)
(* What the stored status refers to is there: the active Job was created,  *)
(* logs come from a Job that finished, a reported success or failure       *)
(* happened, and "See ConfigMap ... for full logs" names a ConfigMap that  *)
(* exists (storeJobLogs creates it before the status is written).          *)
(***************************************************************************)
ReferencesResolve ==
    LET status == api.status
        logs == status.lastJobLogs
    IN  /\ status.activeJobName # NoJob => Created(status.activeJobName)
        /\ logs.job # NoJob => jobs[logs.job].outcome \in {"succeeded", "failed"}
        /\ api.exists /\ logs.inConfigMap => logs.job \in configMaps
        /\ status.lastJobStatus = "Succeeded" =>
              \E j \in JobNames : jobs[j].outcome = "succeeded"
        /\ status.lastJobStatus = "Failed" =>
              \E j \in JobNames : jobs[j].outcome = "failed"

(***************************************************************************)
(* No Job leaves the bundle's namespace without a ServiceAccount of its    *)
(* own, even if the spec is edited while Reconcile runs                    *)
(* (ValidateCrossNamespaceDeployment comes first and Build uses the spec   *)
(* that was validated).                                                    *)
(***************************************************************************)
JobsAreValidated ==
    \A j \in JobNames :
        Created(j) => ValidateCrossNamespaceDeployment(jobs[j].spec)

(***************************************************************************)
(* A Job converges <url>:<tag> with a url and a tag that belong together:  *)
(* unless tags are withdrawn, the tag is in the repository of the Job's    *)
(* own spec, even if the url is edited between the poll, the claim and the *)
(* creation, and whatever LastAppliedTag still says of the old repository  *)
(* (Reconcile polls and Build composes with the same copy of the spec).    *)
(***************************************************************************)
JobsConvergeListedTags ==
    Spared({"withdraw"}) =>
        \A j \in JobNames :
            Created(j) => jobs[j].tag \in registry.tags[jobs[j].spec.url]

(***************************************************************************)
(* With one operator process, the finalizer keeps the bundle in place from *)
(* the moment its tag is claimed until its Job exists, also when a user    *)
(* deletes the bundle in between: no Job is created for a bundle that is   *)
(* gone.                                                                   *)
(***************************************************************************)
FinalizerHeldWhileDeploying ==
    OneOperator =>
        \A o \in Operators :
            op[o].pc \in {"build", "createJob"} => api.exists /\ api.finalizer

(***************************************************************************)
(* Reconcile writes the whole object back, but never undoes what a user    *)
(* did meanwhile: no step of it changes the spec or cancels a deletion.    *)
(***************************************************************************)
NoLostUpdate ==
    [][(\E o \in Operators : Reconcile(o)) =>
           api'.spec = api.spec /\ (api.deleting => api'.deleting)]_vars

(***************************************************************************)
(* While the one operator process has not crashed, no API request has      *)
(* failed, users leave the bundle alone and the Job cache keeps up, a new  *)
(* tag waits for the running Job: at most one runs at a time (the          *)
(* ActiveJobName check of ensureJobExists) and the one that runs is the    *)
(* one the status names.                                                   *)
(***************************************************************************)
Undisturbed ==
    /\ OneOperator /\ ~JobInformerLags
    /\ Spared({"crash", "api", "edit", "delete"})

RunningJobIsTracked ==
  Undisturbed =>
    /\ \A j, k \in JobNames : Running(j) /\ Running(k) => j = k
    /\ \A j \in JobNames : Running(j) =>
          \/ api.status.activeJobName = j
          \/ \E o \in Operators : op[o].pc = "trackJob" /\ op[o].job = j

(***************************************************************************)
(* While nothing disturbs the one operator, no tag comes or goes and Build *)
(* does not panic, a claimed tag is not forgotten: it has a Job, or the    *)
(* phase is Failed, or a call is about to create the Job or to report the  *)
(* failure (every error path of ensureJobExists after its claim: values    *)
(* that cannot be resolved, a Job the API server refuses).                 *)
(***************************************************************************)
Deploying(call) ==
    call.pc \in {"build", "createJob", "buildFailed", "createFailed"}

ClaimIsAccountedFor ==
    LET tag == api.status.lastAppliedTag IN
    /\ Undisturbed /\ Spared({"push", "withdraw"})
    /\ tag \in Tags /\ ~jobNamePanics(tag) /\ ~getResourceLimitPanics(api.spec)
    => \/ \E j \in JobNames : Created(j) /\ jobs[j].tag = tag
       \/ api.status.phase = "Failed"
       \/ \E o \in Operators : Deploying(op[o])

(***************************************************************************)
(* While the registry answers and loses no tag and edits keep the url, a   *)
(* tag is deployed once: no two Jobs ever converge the same tag, whatever  *)
(* operators overlap, crash, lose API answers or work from stale copies,   *)
(* and although LastAppliedTag is also written without a Job being created *)
(* (monitorJobCompletion records a success under the latest tag).  A       *)
(* failed poll stores its error in LastAppliedTag, and the tag that was    *)
(* there is deployed again.                                                *)
(***************************************************************************)
Steady ==
    /\ registry.up /\ Spared({"registry", "withdraw"})
    /\ \A s, t \in Specs : s.url = t.url

TagsAreDeployedOnce ==
    Steady =>
        \A j, k \in JobNames :
            Created(j) /\ Created(k) /\ jobs[j].tag = jobs[k].tag => j = k

(***************************************************************************)
(* Under the same conditions one operator process never rolls back: a Job  *)
(* is created for a later tag than every Job before it, also after crashes *)
(* and lost answers and if tags are pushed out of order.  Two processes    *)
(* may: ensureJobExists does not look at the bundle again after its claim. *)
(***************************************************************************)
NoRollback ==
    [][Steady /\ OneOperator =>
           \A j, k \in JobNames :
               ~Created(j) /\ Created(j)' /\ Created(k) =>
                   jobs[k].tag < jobs'[j].tag]_vars

MaxDays == 49710      \* the last whose seconds are below 2^32

(***************************************************************************)
(* A Job that exists is kept for the days its spec asks for, also where    *)
(* the int32 number of seconds overflows: up to 49710 days a product that  *)
(* is too large is negative, and the API server refuses the Job            *)
(* (getLogRetentionSeconds).  Beyond that the number wraps around to a     *)
(* short time.                                                             *)
(***************************************************************************)
RetentionIsKept ==
    \A j \in JobNames :
        LET days == jobs[j].spec.logRetentionDays IN
        Created(j) /\ days \in 1..MaxDays =>
            getLogRetentionSeconds(jobs[j].spec) = days * Day

-----------------------------------------------------------------------------
(* The abstract specification of deployments                               *)

(***************************************************************************)
(* LastAppliedTag is the register; a call has claimed its tag from the     *)
(* accepted write of updateStatusSyncing until the Job is created or the   *)
(* call ends; a Job counts from the moment the API server stored it.       *)
(***************************************************************************)
Claimed(call) == IF call.pc \in {"build", "createJob"} THEN call.tag ELSE NoTag

Promise ==
    INSTANCE Deployments WITH
        Deployers <- Operators,
        Names <- JobNames,
        applied <- api.status.lastAppliedTag,
        pending <- [o \in Operators |-> Claimed(op[o])],
        deployed <- [j \in JobNames |-> jobs[j].tag],
        removed <- ~api.exists

(***************************************************************************)
(* The controller, with its copies, caches, lost answers, restarts and     *)
(* second process, does nothing but what Deployments allows: every Job     *)
(* comes from a claim of its tag that was not used before, every claim     *)
(* swaps LastAppliedTag in one step, and a bundle that is gone is neither  *)
(* claimed for nor brought back by a late write.                           *)
(***************************************************************************)
KeepsPromise == Promise!Spec

-----------------------------------------------------------------------------
(* Liveness                                                                *)

\* A deleted bundle goes away: the deletion is an event, and a failed removal
\* of the finalizer is retried.
DeletionCompletes == (api.exists /\ api.deleting) ~> ~api.exists

\* There is a bundle and it is polled: an interval of 0s queues it only once.
Polls == api.exists /\ api.spec.pollInterval # "zero"

\* The last poll failed and another one is promised.
Retrying ==
    Polls /\ api.status.phase = "Syncing" /\ api.status.consecutiveFailures > 0

\* The ServiceAccount that the spec names, if any, is there and its check has
\* not failed.  Otherwise validateServiceAccount reports Failed, and if that
\* write fails, Reconcile ends without an error and nothing polls again.
AccountSafe ==
    api.spec.serviceAccount =>
        /\ ValidateServiceAccountExists(GetTargetNamespace(api.spec))
        /\ Spared({"api", "serviceAccount"})

\* An outage that lasts is reported: the retries of handleRegistryError end
\* in the phase Failed.  They are not lost on the way, unless the bundle names
\* a ServiceAccount that is missing or could not be checked.
OutageIsReported ==
    (Retrying /\ ~registry.up)
      ~> (api.status.phase = "Failed" \/ registry.up \/ ~Polls \/ ~AccountSafe)

AtRest == \A o \in Operators : op[o].pc = "idle" /\ ~queue[o].delayed

\* The counter has reached the schema's maximum, and the bundle is Failed.
UsedUp ==
    /\ api.status.phase = "Failed"
    /\ api.status.consecutiveFailures = MaxConsecutiveFailures + 1

(***************************************************************************)
(* handleRegistryError gives up: if the registry stays away, the operators *)
(* come to rest, with no timer left.  Only where an edit, a restart or a   *)
(* failed write made them poll once more may they go on: the counter would *)
(* pass the schema's maximum, the status write is refused and the key      *)
(* queued again, for ever.  The bundle then stays Failed, with the counter *)
(* at that maximum.                                                        *)
(***************************************************************************)
RetriesEnd ==
    /\ <>[](~registry.up /\ Spared({"edit", "crash", "api"})) => <>[]AtRest
    /\ <>[]~registry.up => <>[](AtRest \/ UsedUp)

\* The registry answers, with tags.
Answering == registry.up /\ registry.tags[api.spec.url] # {}

\* ConsecutiveFailures returns to 0 ("Reset to 0 on success") once the registry
\* answers again with tags, unless the bundle names a ServiceAccount that is
\* missing or could not be checked, or the answer is 304 Not Modified: then
\* handleRegistryError leaves the counter as it is, until the tags change.
FailuresReset ==
    (Retrying /\ Answering)
      ~> (\/ api.status.consecutiveFailures = 0 \/ api.status.phase = "Failed"
          \/ ~Answering \/ NotModified(api) \/ ~Polls \/ ~AccountSafe)

-----------------------------------------------------------------------------
(* What comments and docs say and the code does not do                     *)

\* A new tag is deferred until the active Job completes, and Synced means its
\* deployment succeeded: a Synced tag has had a Job of its own
\* (ensureJobExists, monitorJobCompletion).
SyncedTagHasJob ==
    api.status.phase = "Synced" =>
        \E j \in JobNames : Created(j) /\ jobs[j].tag = api.status.lastAppliedTag

\* Polling goes on: "reconciliation happens on all events plus periodic
\* resync", so the latest tag of a registry that answers is noticed.
LatestTagNoticed ==
    \A t \in Tags :
        LET current == api.exists /\ registry.up /\ LatestTag(t)
        IN  current ~> (api.status.lastAppliedTag = t \/ ~current)

\* "Synced: Last deployment succeeded" (docs/troubleshooting.md): a Job for the
\* tag of a Synced bundle has succeeded (the branch of Reconcile for a tag
\* that is already applied, monitorJobCompletion).
SyncedMeansSucceeded ==
    api.status.phase = "Synced" =>
        \E j \in JobNames : /\ jobs[j].outcome = "succeeded"
                            /\ jobs[j].tag = api.status.lastAppliedTag
=============================================================================
