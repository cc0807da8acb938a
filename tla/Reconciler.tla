------------------------------ MODULE Reconciler ------------------------------
(***************************************************************************)
(* The WerfBundle controller (controllers/werfbundle_controller.go) for    *)
(* one bundle, with the API server, the informer caches, the work queue,   *)
(* the container registry and the converge Jobs it works with.             *)
(*                                                                         *)
(* Reconcile is cut at every call that leaves the process: each API write, *)
(* each read of something other actors change, the registry request, the   *)
(* job build.  The label op[o].pc names the call that operator o is about  *)
(* to make; op[o].bundle is the local variable bundle with its in-memory   *)
(* changes.                                                                *)
(*                                                                         *)
(* resourceVersions are abstracted to one bit per copy: a copy is fresh    *)
(* while nobody has written the object since it was read, and the API      *)
(* server accepts a write made from a fresh copy only.                     *)
(***************************************************************************)
EXTENDS JobBuilder

CONSTANTS
    Operators,        \* operator processes; one, or two while a rollout overlaps
    StartAccounts,    \* the sets of ServiceAccounts the cluster may start with
    ETagSupport,      \* whether the registry answers conditional requests
    JobInformerLags,  \* may the Job cache be behind the API server
    Faults,           \* the kinds of disruption allowed
    MaxFaults         \* bound: how many disruptions one behaviour may have

ASSUME OptionsAssumption ==
    /\ ETagSupport \subseteq BOOLEAN
    /\ JobInformerLags \in BOOLEAN
    /\ StartAccounts \subseteq SUBSET Namespaces
    /\ MaxFaults \in Nat

VARIABLES
    api,              \* the bundle in the API server
    jobs,             \* every Job ever created for the bundle
    configMaps,       \* jobs whose "<job>-logs" ConfigMap exists
    serviceAccounts,  \* namespaces in which the ServiceAccount exists
    registry,         \* availability, ETag support and tags of the registry
    informer,         \* each operator's cached bundle and pending event
    seen,             \* each operator's cached view of the Jobs
    queue,            \* each operator's work queue for the bundle's key
    op,               \* each operator's Reconcile call
    faults            \* how many disruptions are left, and which happened

vars == <<api, jobs, configMaps, serviceAccounts, registry, informer, seen,
          queue, op, faults>>
cluster == <<configMaps, serviceAccounts, registry, seen>>

-----------------------------------------------------------------------------
Labels ==
    {"idle", "removeFinalizer", "addFinalizer", "rejectSpec",
     "resolveNamespace", "checkServiceAccount", "rejectServiceAccount",
     "poll", "registryFailed", "registryRetry", "noTags", "alreadyApplied",
     "getActiveJob", "claim", "build", "createJob", "buildFailed",
     "createFailed", "trackJob", "captureLogs", "recordSuccess",
     "recordFailure"}

(***************************************************************************)
(* How Reconcile ends: "done" is ctrl.Result{} with no error, "requeue"    *)
(* stands for RequeueAfter > 0, for a returned error and for a recovered   *)
(* panic, which all put the key back after a delay.                        *)
(***************************************************************************)
Outcomes == {"done", "requeue"}

\* RequeueAfter: registry.AddJitter(pollInterval), where 0 means no requeue
\* and an interval below 10ns panics in rand.Intn.
PollAgain(spec) == IF spec.pollInterval = "zero" THEN "done" ELSE "requeue"

Blank == NewBundle(CHOOSE spec \in Specs : TRUE)

Idle ==
    [pc |-> "idle", bundle |-> Blank, fresh |-> FALSE, tag |-> NoTag,
     job |-> NoJob, claim |-> FALSE]

\* claim (history): made for the value LastAppliedTag has now, which nobody
\* has changed since.
Unused ==
    [outcome |-> "unused", present |-> FALSE, tag |-> NoTag,
     spec |-> Blank.spec, claim |-> FALSE]

Job ==
    [outcome : {"unused", "running", "succeeded", "failed"},
     present : BOOLEAN,
     tag : Tags \union {NoTag},
     spec : Specs,
     claim : BOOLEAN]

Views == {"absent", "running", "succeeded", "failed"}
View(job) == IF job.present THEN job.outcome ELSE "absent"

Cache == [bundle : Bundle, fresh : BOOLEAN, event : BOOLEAN]
Key == [ready : BOOLEAN, delayed : BOOLEAN]
Call ==
    [pc : Labels, bundle : Bundle, fresh : BOOLEAN,
     tag : Tags \union {NoTag}, job : JobNames \union {NoJob}, claim : BOOLEAN]

Registry ==
    [up : BOOLEAN, etags : BOOLEAN, tags : [Repositories -> SUBSET Tags]]
Budget == [left : Nat, happened : SUBSET Faults]

TypeOK ==
    /\ api \in Bundle
    /\ jobs \in [JobNames -> Job]
    /\ configMaps \subseteq JobNames
    /\ serviceAccounts \subseteq Namespaces
    /\ registry \in Registry
    /\ informer \in [Operators -> Cache]
    /\ seen \in [Operators -> [JobNames -> Views]]
    /\ queue \in [Operators -> Key]
    /\ op \in [Operators -> Call]
    /\ faults \in Budget

\* The bundle has just been created and the operators have just started.
Init ==
    /\ \E spec \in Specs : api = NewBundle(spec)
    /\ jobs = [j \in JobNames |-> Unused]
    /\ configMaps = {}
    /\ serviceAccounts \in StartAccounts
    /\ registry \in [up : BOOLEAN, etags : ETagSupport,
                     tags : [Repositories -> SUBSET Tags]]
    /\ informer = [o \in Operators |->
                    [bundle |-> api, fresh |-> TRUE, event |-> FALSE]]
    /\ seen = [o \in Operators |-> [j \in JobNames |-> "absent"]]
    /\ queue = [o \in Operators |-> [ready |-> TRUE, delayed |-> FALSE]]
    /\ op = [o \in Operators |-> Idle]
    /\ faults = [left |-> MaxFaults, happened |-> {}]

Disrupt(kind) ==
    /\ kind \in Faults /\ faults.left > 0
    /\ faults' = [left |-> faults.left - 1,
                  happened |-> faults.happened \union {kind}]

-----------------------------------------------------------------------------
(* Steps inside Reconcile and its ends.                                    *)

Goto(o, pc, bundle) ==
    /\ op' = [op EXCEPT ![o] = [@ EXCEPT !.pc = pc, !.bundle = bundle]]
    /\ UNCHANGED queue

Return(o, outcome) ==
    /\ op' = [op EXCEPT ![o] = Idle]
    /\ queue' = [queue EXCEPT ![o].delayed =
                                IF outcome = "requeue" THEN TRUE ELSE @]

\* Mutant of Persist: a write without a resourceVersion check.
PersistUnchecked(o, bundle, next) ==
    /\ ValidStatus(bundle.status)
    /\ api' = bundle
    /\ informer' = [p \in Operators |-> [informer[p] EXCEPT !.fresh = FALSE]]
    /\ op' = [op EXCEPT ![o] = IF next \in Outcomes THEN Idle
                               ELSE [@ EXCEPT !.pc = next, !.bundle = bundle]]
    /\ queue' = [queue EXCEPT ![o].delayed =
                                IF next = "requeue" THEN TRUE ELSE @]
    /\ UNCHANGED jobs

(***************************************************************************)
(* The API server accepts the write of bundle from a fresh copy.  Status   *)
(* and finalizer writes leave the generation alone, so the informers'      *)
(* GenerationChangedPredicate drops the update; only the removal of the    *)
(* object is an event.                                                     *)
(***************************************************************************)
Persist(o, bundle, next) ==
    LET moved == bundle.status.lastAppliedTag # api.status.lastAppliedTag
        claim == IF op[o].pc = "claim" THEN TRUE
                 ELSE IF moved THEN FALSE ELSE op[o].claim
    IN  /\ op[o].fresh
        /\ ValidStatus(bundle.status)
        /\ api' = bundle
        /\ informer' = [p \in Operators |->
                [informer[p] EXCEPT !.fresh = FALSE,
                                    !.event = IF bundle.exists THEN @ ELSE TRUE]]
        /\ jobs' = [j \in JobNames |->
                [jobs[j] EXCEPT !.claim = IF moved THEN FALSE ELSE @]]
        /\ op' = [p \in Operators |->
                IF p # o THEN [op[p] EXCEPT !.fresh = FALSE,
                                            !.claim = IF moved THEN FALSE
                                                               ELSE @]
                ELSE IF next \in Outcomes THEN Idle
                ELSE [op[o] EXCEPT !.pc = next, !.bundle = bundle,
                                   !.claim = claim]]
        /\ queue' = [queue EXCEPT ![o].delayed =
                                IF next = "requeue" THEN TRUE ELSE @]

Abandon(o, outcome) == Return(o, outcome) /\ UNCHANGED <<api, informer, jobs>>

(***************************************************************************)
(* r.Update or r.Status().Update.  It fails on a conflict (the copy is     *)
(* stale), on a status the schema refuses, and on a transient error, which *)
(* may come before or after the server stored the object.                  *)
(***************************************************************************)
Update(o, bundle, next, onError) ==
    /\ \/ Persist(o, bundle, next) /\ UNCHANGED faults
       \/ /\ ~op[o].fresh \/ ~ValidStatus(bundle.status)
          /\ Abandon(o, onError)
          /\ UNCHANGED faults
       \/ Disrupt("api") /\ Abandon(o, onError)
       \/ Disrupt("api") /\ Persist(o, bundle, onError)
    /\ UNCHANGED cluster

UpdateStatus(o, status, next) ==
    Update(o, [op[o].bundle EXCEPT !.status = status], next, "requeue")

-----------------------------------------------------------------------------
(* Reconcile: deletion, finalizer, validation.                             *)

AfterNamespace(bundle) ==
    IF bundle.spec.serviceAccount THEN "checkServiceAccount" ELSE "poll"

\* Mutant of AfterFinalizer: the cross-namespace rule is not checked.
AfterFinalizerUnvalidated(bundle) ==
    IF bundle.status.resolvedTargetNamespace # GetTargetNamespace(bundle.spec)
    THEN "resolveNamespace" ELSE AfterNamespace(bundle)

AfterFinalizer(bundle) ==
    IF ~ValidateCrossNamespaceDeployment(bundle.spec) THEN "rejectSpec"
    ELSE IF bundle.status.resolvedTargetNamespace
              # GetTargetNamespace(bundle.spec) THEN "resolveNamespace"
    ELSE AfterNamespace(bundle)

\* Mutant of FirstStep: no finalizer is added.
FirstStepNoFinalizer(bundle) ==
    IF bundle.deleting THEN "removeFinalizer" ELSE AfterFinalizer(bundle)

FirstStep(bundle) ==
    IF bundle.deleting THEN "removeFinalizer"
    ELSE IF ~bundle.finalizer THEN "addFinalizer"
    ELSE AfterFinalizer(bundle)

\* A worker takes the key and reads the bundle from the cache; NotFound and
\* a deletion without our finalizer end the call.
StartReconcile(o) ==
    LET bundle == informer[o].bundle IN
    /\ op[o].pc = "idle" /\ queue[o].ready
    /\ queue' = [queue EXCEPT ![o].ready = FALSE]
    /\ op' = IF bundle.exists /\ (bundle.deleting => bundle.finalizer)
             THEN [op EXCEPT ![o] = [@ EXCEPT !.pc = FirstStep(bundle),
                                              !.bundle = bundle,
                                              !.fresh = informer[o].fresh]]
             ELSE op
    /\ UNCHANGED <<api, jobs, informer, faults, cluster>>

\* Mutant of RemoveFinalizer: its error is logged and dropped.
RemoveFinalizerOnce(o) ==
    /\ op[o].pc = "removeFinalizer"
    /\ Update(o, [op[o].bundle EXCEPT !.finalizer = FALSE, !.exists = FALSE],
              "done", "done")

\* The API server removes a deleting object with its last finalizer.
RemoveFinalizer(o) ==
    /\ op[o].pc = "removeFinalizer"
    /\ Update(o, [op[o].bundle EXCEPT !.finalizer = FALSE, !.exists = FALSE],
              "done", "requeue")

AddFinalizer(o) ==
    LET bundle == [op[o].bundle EXCEPT !.finalizer = TRUE] IN
    /\ op[o].pc = "addFinalizer"
    /\ Update(o, bundle, AfterFinalizer(bundle), "requeue")

RejectSpec(o) ==
    /\ op[o].pc = "rejectSpec"
    /\ UpdateStatus(o, updateStatusFailed(op[o].bundle.status,
                                          "crossNamespace"), "done")

ResolveNamespace(o) ==
    LET bundle == op[o].bundle IN
    /\ op[o].pc = "resolveNamespace"
    /\ UpdateStatus(o, [bundle.status EXCEPT !.resolvedTargetNamespace =
                                  GetTargetNamespace(bundle.spec)],
                    AfterNamespace(bundle))

ValidateServiceAccountExists(namespace) == namespace \in serviceAccounts

\* validateServiceAccount: a failed read counts as a missing ServiceAccount.
CheckServiceAccount(o) ==
    LET bundle == op[o].bundle
        found == ValidateServiceAccountExists(GetTargetNamespace(bundle.spec))
    IN  /\ op[o].pc = "checkServiceAccount"
        /\ \/ found /\ Goto(o, "poll", bundle) /\ UNCHANGED faults
           \/ /\ ~found
              /\ Goto(o, "rejectServiceAccount", bundle)
              /\ UNCHANGED faults
           \/ Disrupt("api") /\ Goto(o, "rejectServiceAccount", bundle)
        /\ UNCHANGED <<api, jobs, informer, cluster>>

\* Reconcile returns no error even when this write fails.
RejectServiceAccount(o) ==
    /\ op[o].pc = "rejectServiceAccount"
    /\ Update(o, [op[o].bundle EXCEPT !.status =
                    updateStatusFailed(@, "serviceAccount")], "done", "done")

-----------------------------------------------------------------------------
(* Reconcile: polling the registry.                                        *)

ETagOf(url) == IF registry.etags THEN {<<url, registry.tags[url]>>} ELSE {}

\* ListTagsWithETag answers NotModifiedError.
NotModified(bundle) ==
    registry.etags /\ bundle.status.lastETag = ETagOf(bundle.spec.url)

\* Mutant of PollFails: no limit on the retries.
PollFailsForever(o) ==
    /\ op[o].pc = "poll" /\ ~registry.up
    /\ Goto(o, "registryRetry",
            [op[o].bundle EXCEPT !.status.consecutiveFailures = @ + 1])
    /\ UNCHANGED <<api, jobs, informer, faults, cluster>>

\* handleRegistryError, an error other than NotModifiedError: the counter
\* is incremented in memory.
PollFails(o) ==
    LET bundle == [op[o].bundle EXCEPT !.status.consecutiveFailures = @ + 1]
    IN  /\ op[o].pc = "poll" /\ ~registry.up
        /\ Goto(o, IF bundle.status.consecutiveFailures > MaxConsecutiveFailures
                   THEN "registryFailed" ELSE "registryRetry", bundle)
        /\ UNCHANGED <<api, jobs, informer, faults, cluster>>

\* handleRegistryError, NotModifiedError: nothing is written.
PollNotModified(o) ==
    /\ op[o].pc = "poll" /\ registry.up /\ NotModified(op[o].bundle)
    /\ Return(o, PollAgain(op[o].bundle.spec))
    /\ UNCHANGED <<api, jobs, informer, faults, cluster>>

\* Mutant of Polled: the failure counter is not reset.
PolledKeepsFailures(bundle) ==
    [bundle.status EXCEPT !.lastETag = ETagOf(bundle.spec.url)]

\* The status as Reconcile changes it, in memory, after a successful poll.
Polled(bundle) ==
    [bundle.status EXCEPT !.consecutiveFailures = 0,
                          !.lastETag = ETagOf(bundle.spec.url)]

PollFindsNoTags(o) ==
    LET bundle == op[o].bundle IN
    /\ op[o].pc = "poll" /\ registry.up /\ ~NotModified(bundle)
    /\ registry.tags[bundle.spec.url] = {}
    /\ IF bundle.status.phase \in {"none", "Failed"}
       THEN Goto(o, "noTags", [bundle EXCEPT !.status = Polled(bundle)])
       ELSE Return(o, PollAgain(bundle.spec))
    /\ UNCHANGED <<api, jobs, informer, faults, cluster>>

TagFound(call, latestTag) ==
    LET status == call.bundle.status IN
    [call EXCEPT
        !.bundle = [@ EXCEPT !.status = Polled(call.bundle)],
        !.tag = latestTag,
        !.pc = IF status.lastAppliedTag = latestTag THEN "alreadyApplied"
               ELSE IF status.activeJobName # NoJob THEN "getActiveJob"
               ELSE "claim"]

\* Mutant of PollFindsTag: the active Job is not looked at.
PollIgnoresActiveJob(o, latestTag) ==
    LET bundle == op[o].bundle IN
    /\ op[o].pc = "poll" /\ registry.up /\ ~NotModified(bundle)
    /\ latestTag \in registry.tags[bundle.spec.url]
    /\ bundle.status.lastAppliedTag # latestTag
    /\ op' = [op EXCEPT ![o].bundle.status = Polled(bundle),
                        ![o].tag = latestTag, ![o].pc = "claim"]
    /\ UNCHANGED <<api, jobs, informer, faults, cluster, queue>>

\* Mutant of PollFindsTag: a tag is deployed whenever its bundle is not
\* Synced, even if it was claimed before.
PollIgnoresLastAppliedTag(o, latestTag) ==
    LET bundle == op[o].bundle IN
    /\ op[o].pc = "poll" /\ registry.up /\ ~NotModified(bundle)
    /\ latestTag \in registry.tags[bundle.spec.url]
    /\ bundle.status.phase # "Synced"
    /\ op' = [op EXCEPT ![o].bundle.status = Polled(bundle),
                        ![o].tag = latestTag, ![o].pc = "claim"]
    /\ UNCHANGED <<api, jobs, informer, faults, cluster, queue>>

\* Mutant of PollFindsTag: the first of the sorted list is taken.
PollFindsFirstTag(o, latestTag) ==
    LET tags == registry.tags[op[o].bundle.spec.url] IN
    /\ op[o].pc = "poll" /\ registry.up /\ ~NotModified(op[o].bundle)
    /\ latestTag \in tags /\ \A t \in tags : latestTag <= t
    /\ op' = [op EXCEPT ![o] = TagFound(@, latestTag)]
    /\ UNCHANGED <<api, jobs, informer, faults, cluster, queue>>

\* latestTag is the last of the sorted list.
PollFindsTag(o, latestTag) ==
    LET bundle == op[o].bundle
        tags == registry.tags[bundle.spec.url]
    IN  /\ op[o].pc = "poll" /\ registry.up /\ ~NotModified(bundle)
        /\ latestTag \in tags /\ \A t \in tags : t <= latestTag
        /\ IF bundle.status.lastAppliedTag = latestTag
              /\ bundle.status.phase = "Synced"
           THEN Return(o, "done")
           ELSE /\ op' = [op EXCEPT ![o] = TagFound(@, latestTag)]
                /\ UNCHANGED queue
        /\ UNCHANGED <<api, jobs, informer, faults, cluster>>

RegistryFailed(o) ==
    /\ op[o].pc = "registryFailed"
    /\ UpdateStatus(o, updateStatusFailed(op[o].bundle.status, "registry"),
                    "done")

\* Mutant of RegistryRetry: the requeue is forgotten.
RegistryRetryOnce(o) ==
    /\ op[o].pc = "registryRetry"
    /\ UpdateStatus(o, updateStatusSyncing(op[o].bundle.status, ErrorText),
                    "done")

\* The code hands the error message to updateStatusSyncing as its tag.
RegistryRetry(o) ==
    /\ op[o].pc = "registryRetry"
    /\ UpdateStatus(o, updateStatusSyncing(op[o].bundle.status, ErrorText),
                    "requeue")

NoTags(o) ==
    /\ op[o].pc = "noTags"
    /\ UpdateStatus(o, updateStatusSyncing(op[o].bundle.status, NoTag),
                    PollAgain(op[o].bundle.spec))

AlreadyApplied(o) ==
    /\ op[o].pc = "alreadyApplied"
    /\ UpdateStatus(o, updateStatusSynced(op[o].bundle.status, op[o].tag),
                    "done")

-----------------------------------------------------------------------------
(* ensureJobExists                                                         *)

\* r.Get of the active Job, in the namespace the spec names now.
Lookup(o) ==
    LET bundle == op[o].bundle
        j == bundle.status.activeJobName
    IN  IF GetTargetNamespace(jobs[j].spec) # GetTargetNamespace(bundle.spec)
        THEN "absent"
        ELSE IF JobInformerLags THEN seen[o][j] ELSE View(jobs[j])

JobFinished(call, outcome) ==
    LET status == [call.bundle.status EXCEPT
                     !.activeJobName = NoJob,
                     !.lastJobStatus = IF outcome = "succeeded" THEN "Succeeded"
                                                                ELSE "Failed"]
    IN  [call EXCEPT !.pc = "captureLogs",
                     !.job = call.bundle.status.activeJobName,
                     !.bundle = [call.bundle EXCEPT !.status = status]]

\* The active Job is gone: forget it and go on; it still runs: look again in
\* 5 seconds; it has finished: monitorJobCompletion records it.
GetActiveJob(o) ==
    /\ op[o].pc = "getActiveJob"
    /\ \/ /\ Lookup(o) = "absent"
          /\ Goto(o, "claim", [op[o].bundle EXCEPT
                                 !.status.activeJobName = NoJob])
          /\ UNCHANGED faults
       \/ /\ Lookup(o) = "running"
          /\ Return(o, "requeue")
          /\ UNCHANGED faults
       \/ /\ Lookup(o) \in {"succeeded", "failed"}
          /\ op' = [op EXCEPT ![o] = JobFinished(@, Lookup(o))]
          /\ UNCHANGED <<queue, faults>>
       \/ Disrupt("api") /\ Return(o, "requeue")
    /\ UNCHANGED <<api, jobs, informer, cluster>>

\* updateStatusSyncing(latestTag), before the Job is built.
Claim(o) ==
    /\ op[o].pc = "claim"
    /\ UpdateStatus(o, updateStatusSyncing(op[o].bundle.status, op[o].tag),
                    "build")

\* Builder.Build names the Job, resolves the values, which may fail, and then
\* parses the limits.
Build(o) ==
    LET spec == op[o].bundle.spec
        panics == jobNamePanics(op[o].tag) \/ getResourceLimitPanics(spec)
    IN  /\ op[o].pc = "build"
        /\ \/ panics /\ Return(o, "requeue") /\ UNCHANGED faults
           \/ /\ ~panics
              /\ Goto(o, "createJob", op[o].bundle)
              /\ UNCHANGED faults
           \/ /\ spec.valuesFrom /\ ~jobNamePanics(op[o].tag)
              /\ Disrupt("values")
              /\ Goto(o, "buildFailed", op[o].bundle)
        /\ UNCHANGED <<api, jobs, informer, cluster>>

\* Mutant of BuildFailed: the error is dropped.
BuildFailedUnreported(o) ==
    /\ op[o].pc = "buildFailed"
    /\ Return(o, "done")
    /\ UNCHANGED <<api, jobs, informer, faults, cluster>>

BuildFailed(o) ==
    /\ op[o].pc = "buildFailed"
    /\ UpdateStatus(o, updateStatusFailed(op[o].bundle.status, "build"), "done")

\* Mutant of NewJob: the bundle is read again after its tag was found.
NewJobRereads(o) ==
    [outcome |-> "running", present |-> TRUE, tag |-> op[o].tag,
     spec |-> api.spec, claim |-> op[o].claim]

NewJob(o) ==
    [outcome |-> "running", present |-> TRUE, tag |-> op[o].tag,
     spec |-> op[o].bundle.spec, claim |-> op[o].claim]

\* Mutant of CreateJob: a request that failed is sent again, under a new name.
CreateJobAgain(o) ==
    /\ op[o].pc = "createJob"
    /\ \E j \in JobNames :
          /\ jobs[j].outcome = "unused"
          /\ jobs' = [jobs EXCEPT ![j] = NewJob(o)]
          /\ \/ /\ op' = [op EXCEPT ![o] = [@ EXCEPT !.pc = "trackJob",
                                                   !.job = j]]
                /\ UNCHANGED faults
             \/ Disrupt("api") /\ UNCHANGED op
    /\ UNCHANGED <<api, informer, queue, cluster>>

\* r.Create under a name nobody has used (8 random hex digits).  The server
\* refuses a Job that is not valid; the request may also fail before or after
\* the server stored the Job.
CreateJob(o) ==
    LET accepted == Accepted(op[o].bundle.spec, op[o].tag) IN
    /\ op[o].pc = "createJob"
    /\ \/ \E j \in JobNames :
            /\ accepted /\ jobs[j].outcome = "unused"
            /\ jobs' = [jobs EXCEPT ![j] = NewJob(o)]
            /\ \/ /\ op' = [op EXCEPT ![o] = [@ EXCEPT !.pc = "trackJob",
                                                     !.job = j]]
                  /\ UNCHANGED faults
               \/ /\ Disrupt("api")
                  /\ op' = [op EXCEPT ![o].pc = "createFailed"]
       \/ /\ ~accepted
          /\ op' = [op EXCEPT ![o].pc = "createFailed"]
          /\ UNCHANGED <<jobs, faults>>
       \/ /\ Disrupt("api")
          /\ op' = [op EXCEPT ![o].pc = "createFailed"]
          /\ UNCHANGED jobs
    /\ UNCHANGED <<api, informer, queue, cluster>>

\* Mutant of CreateFailed: the tag is given up, so that it is tried again.
CreateFailedForgets(o) ==
    /\ op[o].pc = "createFailed"
    /\ UpdateStatus(o, [updateStatusFailed(op[o].bundle.status, "create")
                          EXCEPT !.lastAppliedTag = NoTag], "done")

CreateFailed(o) ==
    /\ op[o].pc = "createFailed"
    /\ UpdateStatus(o, updateStatusFailed(op[o].bundle.status, "create"), "done")

TrackJob(o) ==
    /\ op[o].pc = "trackJob"
    /\ UpdateStatus(o, [op[o].bundle.status EXCEPT
                          !.activeJobName = op[o].job,
                          !.lastJobStatus = "Running"], "requeue")

-----------------------------------------------------------------------------
(* monitorJobCompletion, for a Job that has finished                       *)

RecordStep(status) ==
    IF status.lastJobStatus = "Succeeded" THEN "recordSuccess"
                                          ELSE "recordFailure"

StatusLogs(o, inConfigMap) ==
    [op[o].bundle EXCEPT !.status.lastJobLogs =
        [job |-> op[o].job, inConfigMap |-> inConfigMap]]

\* Mutant of CaptureLogs: the ConfigMap is named after ActiveJobName, which
\* has been cleared.
CaptureLogsMisnamed(o) ==
    /\ op[o].pc = "captureLogs"
    /\ configMaps' = configMaps \union {op[o].bundle.status.activeJobName}
    /\ Goto(o, RecordStep(op[o].bundle.status), StatusLogs(o, TRUE))
    /\ UNCHANGED <<api, jobs, informer, faults, serviceAccounts, registry, seen>>

\* Mutant of CaptureLogs: the reference is returned although the ConfigMap
\* could not be created.
CaptureLogsUnstored(o) ==
    /\ op[o].pc = "captureLogs"
    /\ Goto(o, RecordStep(op[o].bundle.status), StatusLogs(o, TRUE))
    /\ UNCHANGED <<api, jobs, informer, faults, cluster>>

\* CaptureJobLogs and storeJobLogs: the logs fit in the status, or go to a
\* ConfigMap first, or cannot be had and the old ones stay.
CaptureLogs(o) ==
    LET next == RecordStep(op[o].bundle.status) IN
    /\ op[o].pc = "captureLogs"
    /\ \/ Goto(o, next, StatusLogs(o, FALSE)) /\ UNCHANGED configMaps
       \/ /\ configMaps' = configMaps \union {op[o].job}
          /\ Goto(o, next, StatusLogs(o, TRUE))
       \/ Goto(o, next, op[o].bundle) /\ UNCHANGED configMaps
    /\ UNCHANGED <<api, jobs, informer, faults, serviceAccounts, registry, seen>>

\* The tag written is the latest one, not the one the Job converged.
RecordSuccess(o) ==
    /\ op[o].pc = "recordSuccess"
    /\ UpdateStatus(o, updateStatusSynced(op[o].bundle.status, op[o].tag),
                    "done")

RecordFailure(o) ==
    /\ op[o].pc = "recordFailure"
    /\ UpdateStatus(o, updateStatusFailed(op[o].bundle.status, "job"), "done")

-----------------------------------------------------------------------------
(* controller-runtime: work queue, caches, restarts                        *)

TimerFires(o) ==
    /\ queue[o].delayed
    /\ queue' = [queue EXCEPT ![o] = [ready |-> TRUE, delayed |-> FALSE]]
    /\ UNCHANGED <<api, jobs, informer, op, faults, cluster>>

SyncInformer(o) ==
    /\ ~informer[o].fresh
    /\ informer' = [informer EXCEPT ![o] =
                      [bundle |-> api, fresh |-> TRUE, event |-> FALSE]]
    /\ queue' = [queue EXCEPT ![o].ready =
                                IF informer[o].event THEN TRUE ELSE @]
    /\ UNCHANGED <<api, jobs, op, faults, cluster>>

\* Job events are not enqueued: the Jobs' owner reference is not a
\* controller reference, which is what Owns() follows.
SyncJob(o, j) ==
    /\ JobInformerLags /\ seen[o][j] # View(jobs[j])
    /\ seen' = [seen EXCEPT ![o][j] = View(jobs[j])]
    /\ UNCHANGED <<api, jobs, informer, queue, op, faults, configMaps,
                   serviceAccounts, registry>>

\* The process dies; its successor lists the bundles and queues each once.
Crash(o) ==
    /\ Disrupt("crash")
    /\ op' = [op EXCEPT ![o] = Idle]
    /\ informer' = [informer EXCEPT ![o] =
                      [bundle |-> api, fresh |-> TRUE, event |-> FALSE]]
    /\ seen' = [seen EXCEPT ![o] = [j \in JobNames |-> View(jobs[j])]]
    /\ queue' = [queue EXCEPT ![o] = [ready |-> api.exists, delayed |-> FALSE]]
    /\ UNCHANGED <<api, jobs, configMaps, serviceAccounts, registry>>

-----------------------------------------------------------------------------
(* Users, the registry and the other Kubernetes controllers                *)

UserWrites(bundle) ==
    /\ api.exists
    /\ api' = bundle
    /\ informer' = [o \in Operators |->
            [informer[o] EXCEPT !.fresh = FALSE, !.event = TRUE]]
    /\ op' = [o \in Operators |-> [op[o] EXCEPT !.fresh = FALSE]]
    /\ UNCHANGED <<jobs, queue, cluster>>

EditSpec ==
    /\ Disrupt("edit")
    /\ \E spec \in Specs \ {api.spec} :
            UserWrites([api EXCEPT !.spec = spec])

DeleteBundle ==
    /\ Disrupt("delete") /\ ~api.deleting
    /\ UserWrites([api EXCEPT !.deleting = TRUE, !.exists = api.finalizer])

PushTag ==
    /\ Disrupt("push")
    /\ \E url \in Repositories, t \in Tags :
         /\ t \notin registry.tags[url]
         /\ registry' = [registry EXCEPT !.tags[url] = @ \union {t}]
    /\ UNCHANGED <<api, jobs, configMaps, serviceAccounts, informer, seen,
                   queue, op>>

WithdrawTag ==
    /\ Disrupt("withdraw")
    /\ \E url \in Repositories : \E t \in registry.tags[url] :
         registry' = [registry EXCEPT !.tags[url] = @ \ {t}]
    /\ UNCHANGED <<api, jobs, configMaps, serviceAccounts, informer, seen,
                   queue, op>>

RegistryFlips ==
    /\ Disrupt("registry")
    /\ \E up \in BOOLEAN \ {registry.up} :
         registry' = [registry EXCEPT !.up = up]
    /\ UNCHANGED <<api, jobs, configMaps, serviceAccounts, informer, seen,
                   queue, op>>

ServiceAccountFlips ==
    /\ Disrupt("serviceAccount")
    /\ \E ns \in Namespaces :
         serviceAccounts' = IF ns \in serviceAccounts
                            THEN serviceAccounts \ {ns}
                            ELSE serviceAccounts \union {ns}
    /\ UNCHANGED <<api, jobs, configMaps, registry, informer, seen, queue, op>>

JobFinishes(j) ==
    /\ jobs[j].outcome = "running" /\ jobs[j].present
    /\ \E outcome \in {"succeeded", "failed"} :
         jobs' = [jobs EXCEPT ![j].outcome = outcome]
    /\ UNCHANGED <<api, informer, queue, op, faults, cluster>>

\* TTLSecondsAfterFinished, a user, or the garbage collector, which takes the
\* Jobs of a removed bundle and Jobs in a namespace other than their owner's.
JobRemoved(j) ==
    /\ jobs[j].present
    /\ \/ jobs[j].outcome # "running" /\ UNCHANGED faults
       \/ ~api.exists /\ UNCHANGED faults
       \/ /\ GetTargetNamespace(jobs[j].spec) # BundleNamespace
          /\ UNCHANGED faults
       \/ Disrupt("job")
    /\ jobs' = [jobs EXCEPT ![j].present = FALSE]
    /\ UNCHANGED <<api, informer, queue, op, cluster>>

ConfigMapsCollected ==
    /\ ~api.exists /\ configMaps # {}
    /\ configMaps' = {}
    /\ UNCHANGED <<api, jobs, serviceAccounts, registry, informer, seen, queue,
                   op, faults>>

-----------------------------------------------------------------------------
\* One step of Reconcile.
Reconcile(o) ==
    \/ StartReconcile(o) \/ RemoveFinalizer(o) \/ AddFinalizer(o)
    \/ RejectSpec(o) \/ ResolveNamespace(o)
    \/ CheckServiceAccount(o) \/ RejectServiceAccount(o)
    \/ PollFails(o) \/ PollNotModified(o) \/ PollFindsNoTags(o)
    \/ \E latestTag \in Tags : PollFindsTag(o, latestTag)
    \/ RegistryFailed(o) \/ RegistryRetry(o) \/ NoTags(o) \/ AlreadyApplied(o)
    \/ GetActiveJob(o) \/ Claim(o) \/ Build(o) \/ BuildFailed(o)
    \/ CreateJob(o) \/ CreateFailed(o) \/ TrackJob(o)
    \/ CaptureLogs(o) \/ RecordSuccess(o) \/ RecordFailure(o)

Environment ==
    \/ EditSpec \/ DeleteBundle \/ PushTag \/ WithdrawTag \/ RegistryFlips
    \/ ServiceAccountFlips \/ ConfigMapsCollected
    \/ \E j \in JobNames : JobFinishes(j) \/ JobRemoved(j)

Next ==
    \/ \E o \in Operators :
          \/ Reconcile(o) \/ TimerFires(o) \/ SyncInformer(o) \/ Crash(o)
          \/ \E j \in JobNames : SyncJob(o, j)
    \/ Environment

Spec == Init /\ [][Next]_vars

(***************************************************************************)
(* What runs by itself keeps running: the worker, the timers of the work   *)
(* queue, the watches behind the caches, and the Jobs.  Nothing is assumed *)
(* of users, of the registry or of restarts.                               *)
(***************************************************************************)
Fairness ==
    /\ \A o \in Operators :
         /\ WF_vars(Reconcile(o))
         /\ WF_vars(TimerFires(o))
         /\ WF_vars(SyncInformer(o))
         /\ \A j \in JobNames : WF_vars(SyncJob(o, j))
    /\ \A j \in JobNames : WF_vars(JobFinishes(j))

FairSpec == Spec /\ Fairness
=============================================================================
