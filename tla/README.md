# Verification of the werf operator

The operator watches `WerfBundle` objects. For each one it polls a container
registry, and when the registry has a newer bundle tag it starts a Kubernetes
Job that runs `werf converge` with that tag. It reports what it did in the
object's status. This directory holds TLA+ models of that program, the TLC runs
that check them on small instances, and proofs that TLAPS checks for instances
of every size. Paths such as `controllers/...` are relative to `src/`.

`PROJECT.json` lists the runs, the mutants that show each property can fail, the
source lines every definition models, the hazards and the theorems.

## 1. The system

| Component | Source | State it keeps | Operations |
|---|---|---|---|
| Custom resource | `api/v1alpha1/werfbundle_types.go` | spec, status, finalizer, deletion mark, all in the API server | defaulting of the namespace, cross-namespace rule |
| Reconciler | `controllers/werfbundle_controller.go` | none of its own between calls: everything is in the status | `Reconcile`, `validateServiceAccount`, `handleRegistryError`, `ensureJobExists`, `monitorJobCompletion`, three `updateStatus...` functions |
| Job logs | `internal/converge/logs.go`, `storeJobLogs` in the controller | `LastJobLogs`, the ConfigMap `<job>-logs` | list pods, read each, join, truncate, store |
| Registry client | `internal/registry/client.go`, `etag_transport.go` | `capturedETag`, for one listing | `ListTagsWithETag`, `ListTags`, `GetLatestTag`, `RoundTrip` |
| Backoff and jitter | `internal/registry/backoff.go` | none | `CalculateBackoff`, `AddJitter` |
| ServiceAccount validation | `internal/rbac/validator.go` | none | existence check |
| Job builder | `internal/converge/job.go` | none | `Build`, `jobName`, `getLogRetentionSeconds`, `getResourceLimit` |
| Values resolver | `internal/values/` | none | fetch, parse, merge, flatten to `--set` flags |
| Manager | `cmd/main.go` | flags | set-up, leader election |

How they interact. controller-runtime calls `Reconcile` with a key from a work
queue; one key is processed by one worker of a process at a time. `Reconcile`
reads the bundle from an informer cache, which lags behind the API server, and
writes the whole object (finalizer) or its status back with the resourceVersion
it read, so a write from an old copy is refused. It calls the ServiceAccount
check, the registry client, the Job builder (which calls the values resolver)
and the Kubernetes API, and returns a result that decides whether the key is
queued again. Users edit and delete bundles at any time; CI pushes and withdraws
tags; Jobs finish by themselves; the TTL and garbage collection controllers
remove Jobs.

What is hard about it:

* **The order of writes.** A tag is stored in `LastAppliedTag` before its Job is
  built; the Job's name is stored after it was created. Every call in between
  can fail, and the process can stop at each of them.
* **Stale reads.** The cache may not have the reconciler's own last write.
* **Concurrent writers.** Users, and a second operator process while a rollout
  overlaps or when leader election is off.
* **What wakes the reconciler.** Updates pass a `GenerationChangedPredicate`, so
  status changes and resyncs do not; Job events do not either, because the Job's
  owner reference is not a *controller* reference, which is what `Owns` follows.
  Everything else depends on the returned result.
* **In-memory changes that ride along.** Fields changed in memory
  (`ConsecutiveFailures`, `LastETag`, `ActiveJobName`) are stored with the next
  status write, whichever branch makes it, or lost if there is none.
* **Pagination.** One listing is several requests, with other people's pushes
  between them and one ETag for all of them.
* **Limits.** The schema's maximum of the failure counter, the size of a
  ConfigMap, eight digits of a hash, the length of a label value, the range of
  int32, the cap of the backoff.

What makes each part correct: the Reconciler must start one Job for a claimed
tag and no more, or report why there is none, must not deploy a tag twice or go
back to an older one, must not undo what users wrote,
must validate before it deploys, must deploy a tag from the repository it was
found in, must report a status that is consistent and whose references exist,
must let go of a deleted bundle, and must stop retrying. The values resolver must
let later sources win over earlier ones and the bundle's namespace over the
target's, must not pass over a required source, and must hand values to Helm
unchanged. The Job builder must ask for the retention the user wrote. The
registry client must return complete lists, of which the latest tag is the last,
and must not say "not modified" of a list that changed. Log capture must keep the
end of a log, must show what it captured and must not leave a reference to
something else. The schedule must tolerate an outage and notice its end.

## 2. The modules

| Module | What it is |
|---|---|
| `WerfBundle` | the custom resource: types, defaults, validation, schema limit, the three status functions |
| `JobBuilder` | the Job's name, retention and limits, and which Jobs the API server takes |
| `Reconciler` | the controller with API server, caches, work queue, registry, Jobs, users and restarts |
| `Deployments` | what the controller promises about deployments: the abstract specification |
| `ReconcilerProperties` | the controller's properties, and the mapping to `Deployments` |
| `MCReconciler` | constants for TLC |
| `ReconcilerProofs` | proofs about types, claims and users' writes |
| `RefinementProofs` | proof that `Reconciler` implements `Deployments` |
| `StatusProofs` | proofs about the status and the finalizer |
| `JobProofs` | proofs about the Jobs |
| `RegistryClient`, `MCRegistryClient`, `RegistryClientProofs` | one tag listing over pages, with ETags |
| `JobLogs`, `MCJobLogs`, `JobLogsProofs` | capture and storage of the logs of a finished Job |
| `PollSchedule`, `MCPollSchedule`, `PollScheduleProofs` | backoff and jitter in time |
| `Values`, `ValuesProofs` | the values resolver: lookups, parsing, merging, `--set` arguments |
| `SetFlags` | the escaping of a value, and how Helm reads it |
| `ValuesFormat`, `MCValues` | flattened YAML, and constants for TLC |

The four proof modules of the controller extend one another in this order, each
using the invariants of the ones before.

### `Reconciler`

The module has one bundle. `Reconcile` is cut wherever it leaves the process:
at each API write, at each read of something others change, at the registry
request and at the Job build. `op[o].pc` is the call operator `o` is about to
make, `op[o].bundle` its local variable `bundle`, and each label has one action.
The local decisions between two calls are part of the action that comes before
them.

| Actions | Code |
|---|---|
| `StartReconcile`, `RemoveFinalizer`, `AddFinalizer`, `RejectSpec`, `ResolveNamespace` | `Reconcile`, from the read to the namespace |
| `CheckServiceAccount`, `RejectServiceAccount` | `validateServiceAccount` |
| `PollFails`, `PollNotModified`, `PollFindsNoTags`, `PollFindsTag`, `NoTags`, `AlreadyApplied` | the registry part of `Reconcile` |
| `RegistryFailed`, `RegistryRetry` | `handleRegistryError` |
| `GetActiveJob`, `Claim`, `Build`, `BuildFailed`, `CreateJob`, `CreateFailed`, `TrackJob` | `ensureJobExists` |
| `CaptureLogs`, `RecordSuccess`, `RecordFailure` | `monitorJobCompletion` |
| `TimerFires`, `SyncInformer`, `SyncJob`, `Crash` | controller-runtime and restarts |
| `EditSpec`, `DeleteBundle`, `PushTag`, `WithdrawTag`, `RegistryFlips`, `ServiceAccountFlips`, `JobFinishes`, `JobRemoved`, `ConfigMapsCollected` | users, registry, other controllers |

Abstractions, and why they keep what matters:

* **resourceVersion** is one bit per copy: `fresh` while nobody has written the
  object since the copy was read. The API server compares for equality only, so
  nothing else of the number is observable.
* **A write** (`Update`) succeeds from a fresh copy with a status the schema
  takes; it conflicts from a stale one; and, as a disruption, it fails before or
  *after* the server stored the object (a lost answer).
* **Tags** are their ranks in the order in which the client sorts them. The
  controller stores the text of a registry error in `LastAppliedTag`; it is
  `ErrorText`, which is no tag.
* **An ETag** is the content it identifies, with the repository.
* **A result** is `done` or `requeue`; `requeue` stands for `RequeueAfter`, for
  an error and for a recovered panic. How long the delay is does not matter
  here; `PollSchedule` has the times.
* **The queue** holds the key at most once, ready or delayed, as
  controller-runtime's does; a delay that is already pending stays.
* **Values** only matter as a `Build` that fails. **Limits, hash, name, tag and
  retention** decide whether `Build` panics and whether the API server takes the
  Job (`JobBuilder`).
* **Job names** end in eight random hex digits and are taken to be new.
* **History**: `claim`, in calls and Jobs, marks what was made for the value
  `LastAppliedTag` has now. It is never read by an action's guard.

Everything that disrupts (crash, failed request, edit, deletion, push,
withdrawal, outage, ServiceAccount change, removal of a running Job, failed
values) is a kind in `Faults`, and `MaxFaults` bounds how many a behaviour has. `faults` also
remembers which kinds have happened, so that a property can say what it depends
on (`Spared`).
The number of `JobNames` bounds how many Jobs it creates.

### `JobBuilder`

`WerfBundle` is extended by `JobBuilder` and this by `Reconciler`, whose `Build`
and `CreateJob` use it. The Job's name is its length, with the truncation at 253
characters as in `jobName`. A tag is known to have a short hash or not and to be
a label value or not. A resource limit is absent, a quantity or malformed.
`getLogRetentionSeconds` multiplies in int32: seconds are counted in units of
128, of which a day has 675, so that TLC's own 32-bit integers can hold the
product, and wrap around at 2^25 instead of 2^32. `Accepted` is the API server's
part: the Job's name becomes the label `job-name` of its pods and the tag the
label `werf.io/tag`, both at most 63 characters, and the TTL must not be
negative. A Job that is not accepted goes the way of a failed request, to
`CreateFailed`.

### `Deployments`

The abstract specification has four variables: a register, the claims that were
made and not used, the tag of each Job and whether the bundle is gone. `Claim`
swaps a tag into the register and is possible only if it holds another one;
`Deploy` turns a claim into one Job; `GiveUp` drops it; `Overwrite` changes the
register without a claim; `Remove` ends everything but what is claimed already.

`Promise` in `ReconcilerProperties` maps `Reconciler` to it: the register is the
stored `LastAppliedTag`; a call has claimed its tag while it is at `build` or
`createJob`; a Job counts once the API server has it, also when the answer is
lost; the bundle is gone when the API server no longer has it. So an accepted
write of `Claim` is the abstract `Claim`, a creation `Deploy`, a panic, a failed
build, a refusal or a crash `GiveUp`. `Overwrite` is the price of what the code
does elsewhere: the text of a registry error, and the tag under which the end of
another Job is recorded. The specification therefore says that every Job has an
atomic, unused claim of its own tag, not that a tag is deployed once;
`TagsAreDeployedOnce` says when it is.

### `RegistryClient`

`ListTagsWithETag` makes one request per page. Each is sent with the ETag the
caller keeps and each response's ETag overwrites `capturedETag`. `Push` and
`Withdraw` may come between any two requests. `held` is what Reconcile keeps;
`ReturnTags` leaves open whether its status write succeeds. The error types are
one outcome, because the controller treats them alike. `ListTags` and
`GetLatestTag`, which the client offers and the controller does not call, go
through the same pages with the default transport, that is without ETag;
`GetLatestTag` is `ListTags` and the last tag. The registry itself is
modelled from how the client uses it: pages in tag order, `last=`, a next link
until the rest is empty.

### `JobLogs`

Logs are sequences of pieces, so that what is cut and what is kept can be told
apart; the limits are constants. Every pod may disappear and every read, store
and write may fail, the store also after the ConfigMap was written; a failed
status write starts over. `StoreRefused` is the API server's answer to a
ConfigMap that is too large, which no retry changes; `failed` marks a store that
failed otherwise. `StaleReconcile` is the Reconcile whose cache does not
have the status write yet: it captures again, and may overwrite the ConfigMap
that the status refers to before its own status write conflicts. `NumPods`, `MaxPodLog`
and the limits of `Logs.cfg` give logs that fit in the status, that need a
ConfigMap, that are cut, and that are refused.

### `PollSchedule`

Time in half minutes, the unit of the backoff; the failure limit is the code's
5. A poll comes when it is due, at most `MaxLateness` later. Outages begin and
end at any time. `Edit` and `Restart` make a bundle that waits for its timer due
at once; an edit leaves the timer running, and the work queue keeps the earlier
of that and the next delay (`AddAfter`), while a restart loses it. `pace` is
history: whether a poll of this run of failures came, or will come, ahead of its
timer. The jitter is rounded outwards to half minutes, so that every interval
has one. An interval of 0, with which nothing is polled a second time, is not in
this module (`PollInterval` is positive) but in `Reconciler`. The model ends
with the first tag found or with the last retry: what wakes a Failed bundle is
in `Reconciler` too.

### `Values`, `SetFlags` and `ValuesFormat`

One call of `ResolveValues` while others change the objects it reads; `store` is
what the manager's cached client shows of them. Each lookup
is an action: `GetFromBundle`, and `GetFromTarget` when the first found nothing;
`GetFails` is an API error. A ConfigMap or Secret is the set of its YAML
documents. What a document assigns is the constant operator `Flattened` of
`Values`; the run gives it `FlattenedYAML` of `ValuesFormat`, where a document is
a tree and a scalar its text as a sequence of characters.
Paths are sequences of key parts, so that the key `app.port` and the key `port`
under `app` meet on one path as they do in the code. Where Go ranges over a map,
the result is any that some order leaves (`Outcomes`,
`parseAndMergeConfigMapData`). ConfigMaps and Secrets are one kind of object: the
two fetch functions differ in the type only, and a source without a name or a
reference is `NoName`. `past` is history: the states of the store since the call
began, so that a property can say what was there all the time and what at some
time. `SetFlags` has `escapeValue`, five passes of `strings.ReplaceAll`, and
`HelmReads`, how Helm reads an argument: a backslash takes the next character as
it is, a separator ends the value, and a brace at its beginning makes it a list.
Helm is outside the repository. Its separators are the four that `cli.go` names;
that is stricter than Helm, which within a value looks for the comma only, and
makes no difference to a text in which all four are escaped. Both go through a
text by a recursive function. `flattenValue` is a `RECURSIVE` operator, which the prover does not
take; `Flattened` keeps it out of `Values`, so that the theorems hold for any way
to flatten a document.

## 3. What the runs check

Each passing run takes about two minutes or less on two cores.

| Run | Shows |
|---|---|
| `Core` | one operator, three disruptions out of crash, lost API call, push, withdrawal, outage, deletion and removal of a Job; two tags, three Jobs. `ReportIsConsistent`: no branch stores a status whose fields contradict each other. `ReferencesResolve`: active Job, logs, ConfigMap and reported outcome refer to something that happened. `FinalizerHeldWhileDeploying`: from claim to Job the bundle is held. `RunningJobIsTracked`: unless there was a crash, a failed call or a deletion, one Job runs at a time and the status names it. `NoRollback`: unless the registry fails or loses tags, no Job is created for an older tag than that of an earlier Job, also after crashes and lost answers and if the older tag is pushed last. |
| `Overlap` | two operators, each with its own cache, that crash and lose answers while the registry comes and goes and the bundle is deleted. `OneJobPerClaim`. `TagsAreDeployedOnce`: unless a poll fails, no tag has two Jobs; a Job whose creation got no answer is not created again. `KeepsPromise`: all of it is a behaviour of `Deployments`. |
| `Namespaces` | edits of `targetNamespace` and of the registry URL, ServiceAccounts that come and go, lost calls, a Job cache that lags: `JobsAreValidated`, `NoLostUpdate`, `JobsConvergeListedTags`: a Job never combines the tag of one repository with the URL of another, and `OneJobPerClaim`: an active Job that is not found, because the namespace changed or the cache is behind, does not lead to a second Job of its claim. |
| `Liveness` | a spec with a ServiceAccount whose Build may fail, one whose Build panics and whose poll interval is 0, and one whose Job the API server refuses and whose interval is too short for the jitter; two disruptions of eight kinds. `ClaimIsAccountedFor`: every error path after the claim leads to a Job or to the phase Failed. `RetentionIsKept`: no Job exists with another TTL than was asked for. `DeletionCompletes`. `OutageIsReported` and `FailuresReset`, both unless the ServiceAccount the spec names is missing or could not be checked (`AccountSafe`): then the controller may stop polling without a word. `RetriesEnd`: silence after the last retry, or, if an edit, a restart or a failed write made the controller poll again, a bundle that stays Failed. |
| `TagList` | over up to three requests, `ListIsComplete` and `LatestTagIsRecent`: the answer of `GetLatestTag` was there, and no later tag that stayed was missed. `NotModifiedMeansUnchanged` for lists that fit on one page. |
| `Logs` | `EndIsKept`: what is captured and what a reader finds ends as a pod's log does, and captured logs that the API server takes are what the reader finds. `ReferenceIsCurrent`. |
| `Values` | a required and an optional source in two namespaces or in one, up to three states of the store during a call. `PrecedenceHolds`: later sources and the bundle's namespace win, for every value whose source does not change it meanwhile. `SourcesAreComplete`: nothing required or malformed is passed over. `FlagsReadBack`: what Helm reads is the value, unless it begins with a brace. |
| `Backoff` | `OutageTolerated`: 23 minutes, if no edit or restart polls ahead of the timer. `RecoveryNoticed`: 8 minutes or the jittered interval, also with edits and restarts. |

The other runs each show one place where a comment or a document says something
else than the code does. TLC prints the behaviour.

| Run | What happens |
|---|---|
| `DeferredTag` | a tag pushed while a Job runs is reported Synced by that Job's success and never gets a Job |
| `ShortHash` | `jobName` panics for one tag in sixteen; the next Reconcile reports the tag Synced |
| `PollingStops` | a Synced bundle is not polled again |
| `SyncedTooEarly` | without any disruption, a bundle is Synced while the Job of its tag still runs, and stays so if the Job fails |

The models also contain these. They have no run of their own; where a property
above has an exception, this is why. The first group contradicts a document or
a comment:

* While failed polls are retried, `LastErrorMessage` is empty:
  `handleRegistryError` passes the message to `updateStatusSyncing` as the tag
  (`werfbundle_controller.go:301`). `docs/troubleshooting.md:26` and `:51-54` and
  `docs/configuration.md:483-492` tell the user of a bundle that is stuck in
  Syncing to read it. `ReportIsConsistent` therefore says nothing of the message
  of a Syncing bundle.
* The waits of the backoff are 1, 2, 4, 8 and 8 minutes, 23 together, because the
  counter is incremented before the first one. `docs/configuration.md:398` and
  `:409-414` and `docs/troubleshooting.md:100` give 30 seconds, 1, 2, 4 and 8
  minutes, that is 15.5.
* Truncated logs are 1 MiB and a notice, which a ConfigMap does not take
  (`StoreRefused`), and their outcome is recorded without logs. `logs.go:51` says
  that they are cut "to ensure ConfigMap fits within Kubernetes limits",
  `werfbundle_controller.go:512` "to prevent API rejection". `EndIsKept` promises
  only logs that fit.
* A value that begins with a brace is not escaped and is a list for Helm.
  `docs/configuration.md:291-300` says "No action needed - escaping is automatic".
  `FlagsReadBack` leaves such values out.
* A missing ServiceAccount whose report is lost, to a conflict or to a failed
  request, is neither reported nor looked for again, and the retries of an outage
  end there: `Reconcile` drops the error under the comment "Status was already
  updated to Failed" (`werfbundle_controller.go:160`), and
  `docs/configuration.md:99` says "if missing, the bundle is marked Failed". This
  is the exception `AccountSafe` of `OutageIsReported` and `FailuresReset`.
* 304 Not Modified does not reset the failure counter, although it "resets to 0 on
  successful poll" (`docs/configuration.md:399`): the exception `NotModified` of
  `FailuresReset`.
* An edit or a restart after the last retry takes the counter to 7, over the
  schema's maximum; the status write fails and the error is retried for ever,
  although such a bundle "will not retry further" (`docs/troubleshooting.md:39`).
  `RetriesEnd` says that its status stays Failed then, with the counter at 6.
* A restart between the claim of a tag and the creation of its Job leaves the tag
  Synced and without a Job, although restarts should be tolerated
  (`docs/DESIGN.md:89`).
* With several pages one unchanged page ends a listing with "not modified", which
  `client.go:80` says of "the current tag list content". This is why
  `NotModifiedMeansUnchanged` asks for one page.
* If the logs of a Job cannot be captured, those of an earlier Job stay next to
  its outcome; `LastJobLogs` are "the captured logs from the most recent job"
  (`werfbundle_types.go:223`).
* `LastAppliedTag` names a tag that is claimed, not "the last successfully
  deployed tag" (`werfbundle_types.go:181`).
* On the normal path nothing looks at a Job once its tag is the last applied one,
  so `ActiveJobName` is not "cleared when the job completes or fails"
  (`werfbundle_types.go:212`).
* A restart before `ActiveJobName` is written and one failed poll, whose error
  text replaces `LastAppliedTag`, start a second Job for the same tag next to the
  first, although `ActiveJobName` is there "to prevent multiple jobs for the same
  bundle version" (`werfbundle_types.go:213`). Each of the two has a claim of its
  own, so `OneJobPerClaim` holds.

The others are no one's promise:

* An edit of `targetNamespace` and a Job cache that lags let two Jobs run next to
  each other too: the active Job is not found and forgotten. They have different
  tags then, or a failed poll came in between (`TagsAreDeployedOnce`).
* With two operator processes the Job of an older tag may be created after that of
  a newer one: nothing looks at the bundle again between the claim and the
  creation. This is why `NoRollback` asks for one.
* A Job that failed is recorded as Failed, but its tag stays in `LastAppliedTag`:
  after a restart or an edit the bundle is Synced.
* After an edit of the registry URL, an equal tag name in the new repository is
  reported Synced without a Job.
* A bundle whose name has more than 45 characters never gets a Job, since the
  Job's name is over 63; nor does a tag that is no label value. Both are reported
  as Failed.
* More than 49710 days of retention wrap around to a short TTL.
* An optional object that moves from the target to the bundle's namespace between
  the two lookups is skipped.
* Five edits or restarts during an outage use up the retries without any of the
  waits, which is why `OutageTolerated` is about bundles that are left alone.

### Bounds

`Core` has two tags so that one can arrive while another converges, and three
Jobs so that there is one more than the disruptions usually lead to. With
`MaxConsecutiveFailures = 1` a bundle fails, retries, gives up and passes the
schema's limit in three polls; the code's 5 only repeats the middle step. It is
2 in `Liveness`, where the repetition matters; `PollSchedule` has the code's 5. Two operators
are the most a rolling update has. Three disruptions cover every pair of them
with one in between; each counterexample above needs at most three, and
`Namespaces` has three so that the URL can be edited, and edited back, around a
lost call. Its two specs with another namespace also use another repository, with
the same tag name or without it. `Liveness` has one spec for each way in which a
claim comes to nothing: values that cannot be resolved, a malformed limit, and
24856 days, the first number whose seconds are a negative int32. The first of
them names a ServiceAccount, which is there at first and may go; without
`AccountSafe` two of its properties would not hold. `Overlap`
has one tag: the error text makes the same tag new again after an outage, which
is the case in which a second claim of it follows. What two operators do with
two tags is left to the proofs. `TagList` has pages of two
and up to four tags, so a listing is one, two or three requests. In `Values`,
three states of the store let one object move, which takes a creation and a
deletion, or two objects change; the documents assign one path from a dotted and
from a nested key, and have a list, a null and every character that is escaped.
One value begins with a brace. In `Backoff` the clock runs for 24 minutes, one more
than the five backoffs, so that a bundle is given up after them with and without
lateness, and there is at most one edit or restart: it reaches every retry
early, and more of them are left to the proofs. Job names and operators are symmetric; symmetry is used for invariants
and for `NoLostUpdate`, `NoRollback` and `KeepsPromise`, which speak of initial states and single
steps, never for liveness. The mapping of `Promise` permutes with them.

`CHECK_DEADLOCK FALSE` stands where the system may come to rest: a Synced or
removed bundle with nothing queued, captured logs, the end of the clock. The
registry client never rests, and its run checks for deadlock.

### Fairness

`FairSpec` assumes that what runs by itself keeps running: a worker that has the
key goes on (`Reconcile`), a delayed key becomes ready (`TimerFires`), watches
deliver (`SyncInformer`, `SyncJob`), and converge Jobs end (`JobFinishes`). The
first three are what controller-runtime and client-go guarantee in a running
process. The last is an assumption about the user's charts; only `FailuresReset`
rests on it. Nothing is assumed of users, of the
registry, of restarts or of garbage collection.

## 4. What is proved

Each theorem holds for every value of the constants, that is for any number of
operators, tags, repositories, Jobs, specs, disruptions, pods, pages, sources and
states of the store, under the assumptions of the modules:

* `TagsAssumption`, `JobsAssumption`, `NamespacesAssumption`, `SpecsAssumption`,
  `FailuresAssumption` (`WerfBundle`), `BuilderAssumption` (`JobBuilder`) and
  `OptionsAssumption` (`Reconciler`): tags are positive numbers, `NoJob` is no
  Job name, the bundle's namespace is a namespace and "no namespace" is none,
  there is a spec, a bundle's name has at most 253 characters, the failure limit
  is a number, and the options have their types.
* `PagesAssumption`: tags are finitely many positive numbers, a page has at least
  one. `SizesAssumption`: the limits are positive. `ScheduleAssumption`: the
  times are natural numbers. `ValuesAssumption`: a spec has a source, objects are
  finite sets of documents, and a document assigns texts to paths.

### The controller

All the invariants below are carried together with `TypeInv` and, where said,
with the ones before them.

* `TypeCorrect == Spec => []TypeOK`. `TypeOK` is not inductive: `GetActiveJob`
  looks up the active Job and `CaptureLogs` files logs under a Job, so the proof
  carries `Known`, that there is one at these labels and that only created Jobs
  are present. `TypeInv == TypeOK /\ Known`.
* `ClaimsAreExclusive == Spec => []OneJobPerClaim`. Why two operators with stale
  caches cannot both deploy: `ClaimInv` says that a fresh copy agrees with the
  stored object in spec, deletion mark and `LastAppliedTag` (`FreshCaches`,
  `FreshCalls`), that a tag about to be claimed differs from the
  `LastAppliedTag` it was compared with (`NewTags`), and that the current claim
  has at most one holder, be it a call on its way to `CreateJob` or a Job
  (`OneHolder`). A claim that succeeds was made from a fresh copy, hence changes
  the stored value, hence ends every older claim.
* `UsersWritesSurvive == Spec => NoLostUpdate`, from the same invariant: a write
  that is accepted came from a copy that agrees with the stored object.
* `DeploymentsKeepPromise == Spec => KeepsPromise`, the refinement. Initial states
  map to initial states, and every step to a step of `Deployments` or to a
  stutter. `TypeInv` and `ClaimInv` are not enough: `RefInv` adds that a call
  works on a bundle that was there when it was read, and still is if the copy is
  fresh (so no accepted write brings a removed bundle back), that a call which
  needs a tag has one, and that an unused name has none. That a claim swaps the
  register is `NewTags` and `FreshCalls` of `ClaimInv`. The lemmas `Step...` say
  which changes of the controller's variables are which abstract step; one lemma
  per group of actions shows that each makes one of them.

`StatusProofs` first brings the steps of Reconcile into two tables. `Written` says
of each write, field by field, what the stored bundle is made of and where the
call goes on; `Moved` says the same of the steps in memory, with the moves from
label to label in `Moves`. The proofs after it split on the rows of these tables
and not on the actions.

* `ReportsAreConsistent == Spec => []ReportIsConsistent`. The stored status is
  not enough, since an old copy of it comes back with the next write. `ReportInv`
  has the cached and the local copies consistent too, except that a failed poll
  has incremented the local counter and the phase has not followed yet
  (`PartlyConsistent`). That the stored counter keeps to the schema's maximum in
  every phase is the refusal of the write that would exceed it. There the counter is bounded at `registryRetry`; and
  it is zero after a poll that succeeded, which is what lets a bundle be called
  Synced.
* `StatusReferencesResolve == Spec => []ReferencesResolve`. `ReferInv` says it of
  every copy, because a stale one may have the references of an earlier status;
  that the Job cache may be behind but is right about what has finished; and that
  a ConfigMap which some copy names is there as long as the bundle is.
* `FinalizerIsHeld == Spec => []FinalizerHeldWhileDeploying`. `HeldInv`: beyond
  the finalizer step the call's own copy has the finalizer. The claim was
  accepted from a fresh copy, so the stored object has it too, and with one
  operator nobody else removes it.

`JobProofs` has a third table: `CallOrigin` and `JobOrigin` say where the spec and
the tag of a call and of a Job come from in any step (`Origins`).

* `DeploymentsAreValidated == Spec => []JobsAreValidated`. `ValidInv` adds that a
  call beyond the check works on a spec that passed it: no later step takes
  another spec into the call.
* `RetentionHolds == Spec => []RetentionIsKept`. Below 2^32 seconds an int32
  product is exact or negative (`Int32Exact`), and a Job with a negative TTL is
  not accepted; `JobsAreAccepted` is inductive.
* `JobsConvergeWhatWasListed == Spec => []JobsConvergeListedTags`. `ListedInv`
  says it of the calls from the poll to the creation as well: their tag is in the
  repository of *their* spec, whatever the stored spec has become.
* `RunningJobsAreTracked == Spec => []RunningJobIsTracked`. `TrackInv` explains
  why the check of `ActiveJobName`, which is a read followed much later by a
  creation, is safe for one undisturbed operator: a call that has claimed stays
  fresh, a fresh call past the check is there while nothing runs, and every other
  fresh call knows the stored `ActiveJobName`.
* `ClaimsAreAccountedFor == Spec => []ClaimIsAccountedFor`. `AccountInv` is about
  behaviours without disturbance in which no tag comes or goes: then there is one
  latest tag, the stored `LastAppliedTag` is that one or no tag, every Job is a
  Job of it, a call that runs has taken the only key there is, and a failure to
  deploy is final, that is the operator is at rest after it. Without the last
  part a later poll could replace Failed by Synced.
* `DeployedOnce == Spec => []TagsAreDeployedOnce` and
  `NeverRollsBack == Spec => NoRollback`. Both are about a registry that has
  answered all the time and lost no tag, and specs with one url (`Steady`), for
  any number of operators and tags. Then `LastAppliedTag` never goes back:
  `SteadyInv` says that every copy of it is a listed tag or none, and that the tag
  a call has found, the latest at its poll, is no older than the one of the call's
  copy; a write that is accepted came from a fresh copy, so the stored tag is no
  older either (`NextSteady`). `OnceInv` compares what `Deployments` sees: all
  claimed and deployed tags are different and at most `LastAppliedTag`, and one
  operator that is alone has claimed just that value. It is preserved because
  every step is one of `Deployments` (`NextRef`, the refinement): a claim puts
  in a tag that is not there, hence a later one than all before. The two
  exclusions are needed: a failed poll stores its error text in `LastAppliedTag`,
  and after a withdrawal an older tag is the latest.

### The other components

* `ScheduleTypeCorrect`, `OutagesAreTolerated == Spec => []OutageTolerated`,
  `RecoveriesAreNoticed == Spec => []RecoveryNoticed`, for any number of edits and
  restarts. `ScheduleInv`: while retries are left and nothing has polled ahead of
  the timer, the next poll is due after the sum of the backoffs so far
  (`Bridged`); with or without that it is due at most `LongestDelay` after the
  last one, and is not overdue by more than `MaxLateness`. The 23 minutes are the
  last entry of that sum; a 304 in between keeps the counter and only moves the
  due time on.
* `ListingTypeCorrect`, `ListingsAreComplete == Spec => []ListIsComplete`,
  `NotModifiedIsSound == Spec => NotModifiedMeansUnchanged` and
  `LatestTagsAreRecent == Spec => LatestTagIsRecent`, for any number of pages.
  `ListingInv`: what was there all the time and does not come after the end of
  the last page was read (`ListedSoFar`); a listing with a second page has filled
  the first (`PagesFilled`); an ETag describes the whole list it was kept with,
  unless that list fills a page (`Describes`). Two lemmas carry it: all tags
  before the first one that is left out are on the page (`PageIsFull`), and a
  list that fits on one page is on the first (`OnePage`).
* `LogsTypeCorrect`, `EndsAreKept == Spec => []EndIsKept` and
  `ReferencesAreCurrent == Spec => []ReferenceIsCurrent`. `LogsInv`: every text on
  its way (joined, cut, stored, reported) ends as some pod's log does (`Ends`);
  between storing and writing, a reference means that the ConfigMap has just what
  was captured, and logs that fit have been put where the status will look; and
  the status has a reference only once the Job is recorded. A
  stale Reconcile breaks the second, which is why the property asks for less
  after one.
* `FlagsAreReadBack == Spec => []FlagsReadBack`, for texts of any characters and
  any length that do not begin with a brace. Escaping appends to what it has, so it is one replacement per
  character (`Quoted`), and as backslashes come first the five passes put one
  backslash before each of the five characters and leave the others alone. Helm
  reads such a piece back as the character it was, whatever it has read before,
  and so the whole text. The induction over texts is done by a smallest
  counterexample: the prover cannot instantiate the induction theorems, but it
  can apply that a non-empty set of numbers has a minimum (`WFMin`) to the set of
  lengths at which a fact fails (`NatSets`, `TextSets`). The recursive functions
  are shown to exist and to be unique in the same way (`RunExists`,
  `RunsAgree`).
* `ResolverTypeCorrect`, `SourcesTakePrecedence == Spec => []PrecedenceHolds` and
  `NothingRequiredIsMissing == Spec => []SourcesAreComplete`. `ResolverInv` says
  of every source that is done with that it was complete (`Complete`) and that
  what it says all through the call is in the merged maps, unless a later one
  mentions the path (`Kept`). Both must survive changes of the store in the
  middle of the call: versions only come and none goes, so a source never says
  more than it did, and later sources never mention less. `mergeMaps` keeps its
  last map and leaves the other paths alone, and whatever order Go takes the
  documents of an object in, what they do not contradict each other in is there.

### What is only model-checked

* Liveness (`DeletionCompletes`, `OutageIsReported`, `RetriesEnd`,
  `FailuresReset`): fairness and `ENABLED` are out of the prover's reach.
* What `flattenValue` computes: it is a `RECURSIVE` operator over trees, which
  cannot be used in a module with theorems. The theorems about `Values` take any
  `Flattened`.
* The runs that show a disagreement.

## 5. What is not modelled

* **Values resolver**: what Helm makes of the flags, that is the nesting of paths
  (`db` next to `db.host`), the elements of a list and the types of values; the text
  that a number or a boolean becomes. The Reconciler sees only the resolver's failure.
* **Job builder**: image, arguments and constant labels of the Job; a failure of
  the random source or of `SetControllerReference`.
* **Permissions**: the role's verbs and the informers' access to Secrets; a read
  that is refused is a failed one.
* **The token handshake** of go-containerregistry, in which the transport turns
  a 401 into an error; it is a failed listing.
* **Manager, manifests, generated code, test helpers**: set-up, generated from
  the types, or not part of the operator. Leader election appears as the number
  of operators.
* Several bundles: they share nothing but the work queue's workers, and Job and
  ConfigMap names, which carry the bundle's name.
* Registry credentials, timestamps, log messages and metrics.

## 6. Plan

Every invariant and every action property that a passing run checks has its
theorem, and so has the refinement. What could be added:

* *Values*: Helm's construction of nested values from the flags, to state what
  "later sources override earlier ones" means when one sets `db` and another
  `db.host`.
* *Deployments*: a second abstract specification, without `Overwrite` by an error
  text, that a registry without outages lets the controller implement;
  `SteadyInv` and `OnceInv` are what its refinement would rest on.
