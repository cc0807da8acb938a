--------------------------- MODULE ReconcilerProofs ---------------------------
(***************************************************************************)
(* Proofs about the controller, for any number of operators, tags, jobs,   *)
(* namespaces and disruptions: its types, and that optimistic concurrency  *)
(* makes LastAppliedTag a sound claim: one Job per claim, and no user's    *)
(* change is overwritten.                                                  *)
(***************************************************************************)
EXTENDS ReconcilerProperties, TLAPS

\* What TypeOK needs to be inductive: which Job a label works on.
Known ==
    /\ \A o \in Operators :
          /\ op[o].pc = "captureLogs" => op[o].job # NoJob
          /\ op[o].pc = "getActiveJob" =>
                op[o].bundle.status.activeJobName # NoJob
    /\ \A j \in JobNames : jobs[j].present => jobs[j].outcome # "unused"

TypeInv == TypeOK /\ Known

Plainly == Labels \ {"captureLogs", "getActiveJob"}

-----------------------------------------------------------------------------
\* The constructors of the model have the types they should.
LEMMA BlankType == Blank \in Bundle /\ NoStatus \in Status
  BY SpecsAssumption DEF Blank, NewBundle, Bundle, Status, NoStatus, Phases,
     Causes, ETags

LEMMA IdleType == Idle \in Call
  BY BlankType DEF Idle, Labels, Call

\* The three functions that move the phase return a status.
LEMMA StatusType ==
    ASSUME NEW status \in Status,
           NEW tag \in Tags \union {NoTag, ErrorText}, NEW cause \in Causes
    PROVE  /\ updateStatusSyncing(status, tag) \in Status
           /\ updateStatusSynced(status, tag) \in Status
           /\ updateStatusFailed(status, cause) \in Status
  <1>1. updateStatusSyncing(status, tag) \in Status
    BY DEF updateStatusSyncing, Status, Phases, Causes
  <1>2. updateStatusSynced(status, tag) \in Status
    BY DEF updateStatusSynced, Status, Phases, Causes
  <1>3. updateStatusFailed(status, cause) \in Status
    BY DEF updateStatusFailed, Status, Phases
  <1> QED BY <1>1, <1>2, <1>3

LEMMA WithStatus ==
    ASSUME NEW bundle \in Bundle, NEW status \in Status
    PROVE  [bundle EXCEPT !.status = status] \in Bundle
  BY DEF Bundle

LEMMA TargetType ==
    ASSUME NEW bundle \in Bundle
    PROVE  GetTargetNamespace(bundle.spec) \in Namespaces
  BY SpecsAssumption, NamespacesAssumption
     DEF Bundle, BundleSpec, GetTargetNamespace

-----------------------------------------------------------------------------
\* Reconcile moves on, or ends, without touching the API server.
LEMMA GotoType ==
    ASSUME TypeInv, NEW o \in Operators, NEW pc \in Plainly,
           NEW bundle \in Bundle, Goto(o, pc, bundle),
           UNCHANGED <<api, jobs, informer, cluster>>, faults' \in Budget
    PROVE  TypeInv'
  <1>1. op' \in [Operators -> Call]
    BY DEF TypeInv, TypeOK, Goto, Plainly, Call
  <1>2. Known'
    <2>1. \A p \in Operators \ {o} : op'[p] = op[p]
      BY DEF TypeInv, TypeOK, Goto
    <2>2. op'[o].pc = pc
      BY DEF TypeInv, TypeOK, Goto, Call
    <2> QED BY <2>1, <2>2 DEF TypeInv, Known, Plainly
  <1> QED BY <1>1, <1>2 DEF TypeInv, TypeOK, Goto, cluster

LEMMA ReturnType ==
    ASSUME TypeInv, NEW o \in Operators, NEW outcome \in Outcomes,
           Return(o, outcome), UNCHANGED <<api, jobs, informer, cluster>>,
           faults' \in Budget
    PROVE  TypeInv'
  <1>1. op' \in [Operators -> Call] /\ queue' \in [Operators -> Key]
    BY IdleType DEF TypeInv, TypeOK, Return, Key
  <1>2. Known'
    BY DEF TypeInv, TypeOK, Known, Return, Idle
  <1> QED BY <1>1, <1>2 DEF TypeInv, TypeOK, cluster

LEMMA PersistType ==
    ASSUME TypeInv, NEW o \in Operators, NEW bundle \in Bundle,
           NEW next \in Plainly \union Outcomes, Persist(o, bundle, next),
           UNCHANGED cluster, faults' \in Budget
    PROVE  TypeInv'
  <1>1. op' \in [Operators -> Call]
    <2>1. ASSUME NEW p \in Operators PROVE op'[p] \in Call
      <3>1. CASE p # o
        BY <3>1 DEF TypeInv, TypeOK, Persist, Call
      <3>2. CASE p = o /\ next \in Outcomes
        BY <3>2, IdleType DEF TypeInv, TypeOK, Persist
      <3>3. CASE p = o /\ next \notin Outcomes
        BY <3>3 DEF TypeInv, TypeOK, Persist, Call, Plainly
      <3> QED BY <3>1, <3>2, <3>3
    <2> QED BY <2>1 DEF Persist
  <1>2. jobs' \in [JobNames -> Job]
    BY DEF TypeInv, TypeOK, Persist, Job
  <1>3. informer' \in [Operators -> Cache]
    BY DEF TypeInv, TypeOK, Persist, Cache
  <1>4. queue' \in [Operators -> Key]
    BY DEF TypeInv, TypeOK, Persist, Key
  <1>5. Known'
    <2>1. ASSUME NEW p \in Operators
          PROVE  /\ op'[p].pc = "captureLogs" => op'[p].job # NoJob
                 /\ op'[p].pc = "getActiveJob" =>
                      op'[p].bundle.status.activeJobName # NoJob
      <3>1. CASE p # o
        BY <3>1 DEF TypeInv, TypeOK, Known, Persist, Call
      <3>2. CASE p = o
        BY <3>2 DEF TypeInv, TypeOK, Persist, Call, Plainly, Outcomes, Idle
      <3> QED BY <3>1, <3>2
    <2>2. ASSUME NEW j \in JobNames
          PROVE  jobs'[j].present => jobs'[j].outcome # "unused"
      BY DEF TypeInv, TypeOK, Known, Persist, Job
    <2> QED BY <2>1, <2>2 DEF Known
  <1> QED BY <1>1, <1>2, <1>3, <1>4, <1>5 DEF TypeInv, TypeOK, Persist, cluster

-----------------------------------------------------------------------------
\* r.Update and r.Status().Update, whatever comes of them.
LEMMA UpdateType ==
    ASSUME TypeInv, NEW o \in Operators, NEW bundle \in Bundle,
           NEW next \in Plainly \union Outcomes, NEW onError \in Outcomes,
           Update(o, bundle, next, onError)
    PROVE  TypeInv'
  <1>1. UNCHANGED cluster /\ faults' \in Budget
    BY DEF TypeInv, TypeOK, Update, Disrupt, Budget
  <1>2. CASE Persist(o, bundle, next)
    BY <1>1, <1>2, PersistType
  <1>3. CASE Abandon(o, onError)
    BY <1>1, <1>3, ReturnType DEF Abandon
  <1>4. CASE Persist(o, bundle, onError)
    BY <1>1, <1>4, PersistType
  <1> QED BY <1>2, <1>3, <1>4 DEF Update

LEMMA UpdateStatusType ==
    ASSUME TypeInv, NEW o \in Operators, NEW status \in Status,
           NEW next \in Plainly \union Outcomes,
           UpdateStatus(o, status, next)
    PROVE  TypeInv'
  <1>1. [op[o].bundle EXCEPT !.status = status] \in Bundle
    BY WithStatus DEF TypeInv, TypeOK, Call
  <1>2. "requeue" \in Outcomes
    BY DEF Outcomes
  <1> QED BY <1>1, <1>2, UpdateType DEF UpdateStatus

\* The labels Reconcile moves to are labels.
LEMMA NextLabels ==
    ASSUME NEW bundle \in Bundle
    PROVE  /\ AfterNamespace(bundle) \in Plainly
           /\ AfterFinalizer(bundle) \in Plainly
           /\ FirstStep(bundle) \in Plainly
           /\ PollAgain(bundle.spec) \in Outcomes
  BY DEF AfterNamespace, AfterFinalizer, FirstStep, PollAgain, Plainly, Labels,
     Outcomes

\* The local bundle, its status and its tag, of a call that is under way.
LEMMA CallType ==
    ASSUME TypeInv, NEW o \in Operators
    PROVE  /\ op[o] \in Call
           /\ op[o].bundle \in Bundle
           /\ op[o].bundle.status \in Status
           /\ op[o].tag \in Tags \union {NoTag, ErrorText}
           /\ op[o].job \in JobNames \union {NoJob}
  BY DEF TypeInv, TypeOK, Call, Bundle

-----------------------------------------------------------------------------
(* TypeInv is kept by every step of Reconcile.                             *)

\* The writes of Reconcile, up to the registry poll and after it.
LEMMA WritesType ==
    ASSUME TypeInv, NEW o \in Operators,
           \/ RemoveFinalizer(o) \/ AddFinalizer(o) \/ RejectSpec(o)
           \/ ResolveNamespace(o) \/ RejectServiceAccount(o)
           \/ RegistryFailed(o) \/ RegistryRetry(o) \/ NoTags(o)
           \/ AlreadyApplied(o) \/ Claim(o) \/ BuildFailed(o)
           \/ CreateFailed(o) \/ TrackJob(o) \/ RecordSuccess(o)
           \/ RecordFailure(o)
    PROVE  TypeInv'
  <1> DEFINE status == op[o].bundle.status
  <1>0. /\ op[o].bundle \in Bundle
        /\ status \in Status
        /\ op[o].tag \in Tags \union {NoTag, ErrorText}
        /\ op[o].job \in JobNames \union {NoJob}
        /\ "done" \in Outcomes /\ "requeue" \in Outcomes
        /\ "build" \in Plainly
        /\ \A tag \in Tags \union {NoTag, ErrorText} :
              /\ updateStatusSyncing(status, tag) \in Status
              /\ updateStatusSynced(status, tag) \in Status
        /\ \A cause \in Causes : updateStatusFailed(status, cause) \in Status
    BY CallType, StatusType DEF Outcomes, Plainly, Labels, Causes
  <1>1. CASE RemoveFinalizer(o)
    <2>1. [op[o].bundle EXCEPT !.finalizer = FALSE, !.exists = FALSE] \in Bundle
      BY <1>0 DEF Bundle
    <2> QED BY <1>0, <1>1, <2>1, UpdateType DEF RemoveFinalizer
  <1>2. CASE AddFinalizer(o)
    <2>1. [op[o].bundle EXCEPT !.finalizer = TRUE] \in Bundle
      BY <1>0 DEF Bundle
    <2> QED BY <1>0, <1>2, <2>1, NextLabels, UpdateType DEF AddFinalizer
  <1>3. CASE RejectSpec(o)
    BY <1>0, <1>3, UpdateStatusType DEF RejectSpec, Causes
  <1>4. CASE ResolveNamespace(o)
    <2>1. [status EXCEPT !.resolvedTargetNamespace =
             GetTargetNamespace(op[o].bundle.spec)] \in Status
      BY <1>0, TargetType DEF Status
    <2> QED BY <1>0, <1>4, <2>1, NextLabels, UpdateStatusType
            DEF ResolveNamespace
  <1>5. CASE RejectServiceAccount(o)
    <2>1. [op[o].bundle EXCEPT !.status = updateStatusFailed(@,
             "serviceAccount")] \in Bundle
      BY <1>0, WithStatus DEF Causes
    <2> QED BY <1>0, <1>5, <2>1, UpdateType DEF RejectServiceAccount
  <1>6. CASE RegistryFailed(o)
    BY <1>0, <1>6, UpdateStatusType DEF RegistryFailed, Causes
  <1>7. CASE RegistryRetry(o)
    BY <1>0, <1>7, UpdateStatusType DEF RegistryRetry
  <1>8. CASE NoTags(o)
    BY <1>0, <1>8, NextLabels, UpdateStatusType DEF NoTags
  <1>9. CASE AlreadyApplied(o)
    BY <1>0, <1>9, UpdateStatusType DEF AlreadyApplied
  <1>10. CASE Claim(o)
    BY <1>0, <1>10, UpdateStatusType DEF Claim
  <1>11. CASE BuildFailed(o)
    BY <1>0, <1>11, UpdateStatusType DEF BuildFailed, Causes
  <1>12. CASE CreateFailed(o)
    BY <1>0, <1>12, UpdateStatusType DEF CreateFailed, Causes
  <1>13. CASE TrackJob(o)
    <2>1. [status EXCEPT !.activeJobName = op[o].job,
                         !.lastJobStatus = "Running"] \in Status
      BY <1>0 DEF Status
    <2> QED BY <1>0, <1>13, <2>1, UpdateStatusType DEF TrackJob
  <1>14. CASE RecordSuccess(o)
    BY <1>0, <1>14, UpdateStatusType DEF RecordSuccess
  <1>15. CASE RecordFailure(o)
    BY <1>0, <1>15, UpdateStatusType DEF RecordFailure, Causes
  <1> QED BY <1>1, <1>2, <1>3, <1>4, <1>5, <1>6, <1>7, <1>8, <1>9, <1>10,
             <1>11, <1>12, <1>13, <1>14, <1>15

\* One call changes: the parts of TypeInv that are about calls.
LEMMA OneCallType ==
    ASSUME TypeInv, NEW o \in Operators, NEW call \in Call,
           op' = [op EXCEPT ![o] = call],
           call.pc = "captureLogs" => call.job # NoJob,
           call.pc = "getActiveJob" => call.bundle.status.activeJobName # NoJob
    PROVE  /\ op' \in [Operators -> Call]
           /\ \A p \in Operators :
                /\ op'[p].pc = "captureLogs" => op'[p].job # NoJob
                /\ op'[p].pc = "getActiveJob" =>
                     op'[p].bundle.status.activeJobName # NoJob
  BY DEF TypeInv, TypeOK, Known

\* The registry's answer, remembered in the status.
LEMMA PolledType ==
    ASSUME TypeInv, NEW bundle \in Bundle
    PROVE  Polled(bundle) \in Status
  <1>1. bundle.spec.url \in Repositories /\ bundle.status \in Status
    BY SpecsAssumption DEF Bundle, BundleSpec
  <1>2. ETagOf(bundle.spec.url) \in ETags
    BY <1>1 DEF ETagOf, ETags, TypeInv, TypeOK, Registry
  <1> QED BY <1>1, <1>2 DEF Polled, Status

LEMMA TagFoundType ==
    ASSUME TypeInv, NEW call \in Call, NEW latestTag \in Tags
    PROVE  LET found == TagFound(call, latestTag)
           IN  /\ found \in Call /\ found.pc # "captureLogs"
               /\ found.pc = "getActiveJob" =>
                     found.bundle.status.activeJobName # NoJob
  <1> DEFINE polled == [call.bundle EXCEPT !.status = Polled(call.bundle)]
             pc == IF call.bundle.status.lastAppliedTag = latestTag
                   THEN "alreadyApplied"
                   ELSE IF call.bundle.status.activeJobName # NoJob
                   THEN "getActiveJob" ELSE "claim"
  <1>1. call.bundle \in Bundle
    BY DEF Call
  <1>2. polled \in Bundle
    BY <1>1, PolledType, WithStatus
  <1>3. polled.status.activeJobName = call.bundle.status.activeJobName
    BY <1>1, <1>2 DEF Polled, Bundle, Status
  <1>4. pc \in Labels /\ pc # "captureLogs"
        /\ (pc = "getActiveJob" => call.bundle.status.activeJobName # NoJob)
    BY DEF Labels
  <1>5. TagFound(call, latestTag) =
          [call EXCEPT !.bundle = polled, !.tag = latestTag, !.pc = pc]
    BY DEF TagFound
  <1> HIDE DEF polled, pc
  <1> QED BY <1>2, <1>3, <1>4, <1>5 DEF Call

\* The steps before, at and after the registry poll that write nothing.
LEMMA ReadsType ==
    ASSUME TypeInv, NEW o \in Operators,
           \/ StartReconcile(o) \/ CheckServiceAccount(o) \/ PollFails(o)
           \/ PollNotModified(o) \/ PollFindsNoTags(o)
           \/ \E latestTag \in Tags : PollFindsTag(o, latestTag)
    PROVE  TypeInv'
  <1> DEFINE bundle == op[o].bundle
  <1>0. op[o] \in Call /\ bundle \in Bundle /\ bundle.status \in Status
    BY CallType
  <1>1. CASE StartReconcile(o)
    <2> DEFINE cached == informer[o].bundle
               call == [op[o] EXCEPT !.pc = FirstStep(cached),
                                     !.bundle = cached,
                                     !.fresh = informer[o].fresh]
    <2>1. cached \in Bundle /\ informer[o].fresh \in BOOLEAN
      BY DEF TypeInv, TypeOK, Cache
    <2>2. call \in Call /\ call.pc \in Plainly
      BY <1>0, <2>1, NextLabels DEF Call, Plainly
    <2>3. op' \in [Operators -> Call] /\ Known'
      <3>1. CASE op' = op
        BY <1>1, <3>1 DEF TypeInv, TypeOK, Known, StartReconcile
      <3>2. CASE op' = [op EXCEPT ![o] = call]
        BY <1>1, <2>2, <3>2, OneCallType
           DEF TypeInv, TypeOK, Known, StartReconcile, Plainly
      <3> QED BY <1>1, <3>1, <3>2 DEF StartReconcile
    <2>4. queue' \in [Operators -> Key]
      BY <1>1 DEF StartReconcile, TypeInv, TypeOK, Key
    <2> QED BY <1>1, <2>3, <2>4 DEF StartReconcile, TypeInv, TypeOK, cluster
  <1>2. CASE CheckServiceAccount(o)
    <2>1. "poll" \in Plainly /\ "rejectServiceAccount" \in Plainly
      BY DEF Plainly, Labels
    <2>2. faults' \in Budget
      BY <1>2 DEF CheckServiceAccount, Disrupt, Budget, TypeInv, TypeOK
    <2> QED BY <1>0, <1>2, <2>1, <2>2, GotoType DEF CheckServiceAccount
  <1>3. CASE PollFails(o)
    <2> DEFINE failed == [bundle EXCEPT !.status.consecutiveFailures = @ + 1]
    <2>1. failed \in Bundle
      BY <1>0 DEF Bundle, Status
    <2>2. "registryFailed" \in Plainly /\ "registryRetry" \in Plainly
      BY DEF Plainly, Labels
    <2>3. faults' \in Budget
      BY <1>3 DEF PollFails, TypeInv, TypeOK
    <2> QED BY <1>3, <2>1, <2>2, <2>3, GotoType DEF PollFails
  <1>4. CASE PollNotModified(o)
    <2>1. faults' \in Budget
      BY <1>4 DEF PollNotModified, TypeInv, TypeOK
    <2> QED BY <1>0, <1>4, <2>1, NextLabels, ReturnType DEF PollNotModified
  <1>5. CASE PollFindsNoTags(o)
    <2>1. faults' \in Budget /\ "noTags" \in Plainly
      BY <1>5 DEF PollFindsNoTags, TypeInv, TypeOK, Plainly, Labels
    <2>2. [bundle EXCEPT !.status = Polled(bundle)] \in Bundle
      BY <1>0, PolledType, WithStatus
    <2> QED BY <1>0, <1>5, <2>1, <2>2, NextLabels, GotoType, ReturnType
            DEF PollFindsNoTags
  <1>6. ASSUME NEW latestTag \in Tags, PollFindsTag(o, latestTag)
        PROVE  TypeInv'
    <2> DEFINE call == TagFound(op[o], latestTag)
    <2>1. faults' \in Budget /\ "done" \in Outcomes
      BY <1>6 DEF PollFindsTag, TypeInv, TypeOK, Outcomes
    <2>2. CASE Return(o, "done")
      BY <1>6, <2>1, <2>2, ReturnType DEF PollFindsTag
    <2>3. CASE op' = [op EXCEPT ![o] = call] /\ UNCHANGED queue
      <3>1. call \in Call /\ call.pc # "captureLogs"
            /\ (call.pc = "getActiveJob" =>
                  call.bundle.status.activeJobName # NoJob)
        BY <1>0, TagFoundType
      <3> HIDE DEF call
      <3>2. op' \in [Operators -> Call] /\ Known'
        BY <1>6, <2>3, <3>1, OneCallType DEF PollFindsTag, TypeInv, Known
      <3> QED BY <1>6, <2>3, <3>2 DEF PollFindsTag, TypeInv, TypeOK, cluster
    <2> QED BY <1>6, <2>2, <2>3 DEF PollFindsTag
  <1> QED BY <1>1, <1>2, <1>3, <1>4, <1>5, <1>6

LEMMA JobFinishedType ==
    ASSUME NEW call \in Call, NEW outcome,
           call.bundle.status.activeJobName # NoJob
    PROVE  LET finished == JobFinished(call, outcome)
           IN  finished \in Call /\ finished.pc = "captureLogs"
               /\ finished.job # NoJob
  <1> DEFINE status == call.bundle.status
             recorded == [status EXCEPT !.activeJobName = NoJob,
                            !.lastJobStatus = IF outcome = "succeeded"
                                              THEN "Succeeded" ELSE "Failed"]
             bundle == [call.bundle EXCEPT !.status = recorded]
  <1>1. call.bundle \in Bundle /\ status \in Status
        /\ status.activeJobName \in JobNames
    BY DEF Call, Bundle, Status
  <1>2. recorded \in Status
    BY <1>1 DEF Status
  <1>3. bundle \in Bundle
    BY <1>1, <1>2, WithStatus
  <1>4. JobFinished(call, outcome) =
          [call EXCEPT !.pc = "captureLogs", !.job = status.activeJobName,
                       !.bundle = bundle]
    BY DEF JobFinished
  <1> HIDE DEF bundle, recorded
  <1> QED BY <1>1, <1>3, <1>4 DEF Call, Labels

\* The steps that build, create and look up Jobs and capture their logs.
LEMMA JobStepsType ==
    ASSUME TypeInv, NEW o \in Operators,
           GetActiveJob(o) \/ Build(o) \/ CreateJob(o) \/ CaptureLogs(o)
    PROVE  TypeInv'
  <1> DEFINE bundle == op[o].bundle
  <1>0. op[o] \in Call /\ bundle \in Bundle /\ bundle.status \in Status
    BY CallType
  <1>f. faults' \in Budget
    <2>1. UNCHANGED faults \/ \E kind \in {"api", "values"} : Disrupt(kind)
      BY DEF GetActiveJob, Build, CreateJob, CaptureLogs
    <2> QED BY <2>1 DEF Disrupt, Budget, TypeInv, TypeOK
  <1>1. CASE GetActiveJob(o)
    <2>1. CASE Lookup(o) = "absent" /\ Goto(o, "claim", [bundle EXCEPT
                                             !.status.activeJobName = NoJob])
      <3>1. [bundle EXCEPT !.status.activeJobName = NoJob] \in Bundle
        BY <1>0 DEF Bundle, Status
      <3>2. "claim" \in Plainly
        BY DEF Plainly, Labels
      <3> QED BY <1>f, <1>1, <2>1, <3>1, <3>2, GotoType DEF GetActiveJob
    <2>2. CASE Return(o, "requeue")
      <3>1. "requeue" \in Outcomes
        BY DEF Outcomes
      <3> QED BY <1>f, <1>1, <2>2, <3>1, ReturnType DEF GetActiveJob
    <2>3. CASE /\ op' = [op EXCEPT ![o] = JobFinished(op[o], Lookup(o))]
               /\ UNCHANGED queue
      <3> DEFINE call == JobFinished(op[o], Lookup(o))
      <3>1. bundle.status.activeJobName # NoJob
        BY <1>1 DEF GetActiveJob, TypeInv, Known
      <3>2. call \in Call /\ call.pc = "captureLogs" /\ call.job # NoJob
        BY <1>0, <3>1, JobFinishedType
      <3> HIDE DEF call
      <3>3. UNCHANGED <<api, jobs, informer, cluster>>
        BY <1>1 DEF GetActiveJob
      <3>4. op' = [op EXCEPT ![o] = call]
        BY <2>3 DEF call
      <3>5. op' \in [Operators -> Call] /\ Known'
        BY <3>2, <3>3, <3>4, OneCallType DEF TypeInv, Known
      <3> QED BY <1>f, <2>3, <3>3, <3>5 DEF TypeInv, TypeOK, cluster
    <2> QED BY <1>1, <2>1, <2>2, <2>3 DEF GetActiveJob
  <1>2. CASE Build(o)
    <2>1. /\ "createJob" \in Plainly /\ "buildFailed" \in Plainly
          /\ "requeue" \in Outcomes
      BY DEF Plainly, Labels, Outcomes
    <2> QED BY <1>0, <1>f, <1>2, <2>1, GotoType, ReturnType DEF Build
  <1>3. CASE CreateJob(o)
    <2> DEFINE failed == [op[o] EXCEPT !.pc = "createFailed"]
               OpTyped ==
                 /\ op' \in [Operators -> Call]
                 /\ \A p \in Operators :
                      /\ op'[p].pc = "captureLogs" => op'[p].job # NoJob
                      /\ op'[p].pc = "getActiveJob" =>
                           op'[p].bundle.status.activeJobName # NoJob
               JobsTyped ==
                 /\ jobs' \in [JobNames -> Job]
                 /\ \A j \in JobNames :
                      jobs'[j].present => jobs'[j].outcome # "unused"
    <2>1. OpTyped
      <3>1. CASE op' = [op EXCEPT ![o].pc = "createFailed"]
        <4>1. failed \in Call /\ failed.pc = "createFailed"
          BY <1>0 DEF Call, Labels
        <4> HIDE DEF failed
        <4>2. op' = [op EXCEPT ![o] = failed]
          BY <3>1 DEF failed
        <4> QED BY <4>1, <4>2, OneCallType
      <3>2. ASSUME NEW j \in JobNames,
                   op' = [op EXCEPT ![o] = [@ EXCEPT !.pc = "trackJob",
                                                     !.job = j]]
            PROVE  OpTyped
        <4> DEFINE call == [op[o] EXCEPT !.pc = "trackJob", !.job = j]
        <4>1. call \in Call /\ call.pc = "trackJob"
          BY <1>0 DEF Call, Labels
        <4> HIDE DEF call
        <4>2. op' = [op EXCEPT ![o] = call]
          BY <3>2 DEF call
        <4> QED BY <4>1, <4>2, OneCallType
      <3> QED BY <1>3, <3>1, <3>2 DEF CreateJob
    <2>2. JobsTyped
      <3>1. CASE UNCHANGED jobs
        BY <3>1 DEF TypeInv, TypeOK, Known
      <3>2. ASSUME NEW j \in JobNames, jobs' = [jobs EXCEPT ![j] = NewJob(o)],
                   jobs[j].outcome = "unused"
            PROVE  JobsTyped
        <4>1. op[o].tag \in Tags \union {NoTag} /\ op[o].claim \in BOOLEAN
              /\ bundle.spec \in Specs
          BY <1>0 DEF Call, Bundle
        <4>2. NewJob(o) \in Job /\ NewJob(o).outcome = "running"
          BY <4>1 DEF NewJob, Job
        <4> QED BY <3>2, <4>2 DEF TypeInv, TypeOK, Known
      <3> QED BY <1>3, <3>1, <3>2 DEF CreateJob
    <2> QED BY <1>f, <1>3, <2>1, <2>2
            DEF CreateJob, TypeInv, TypeOK, Known, cluster
  <1>4. CASE CaptureLogs(o)
    <2>1. op[o].job \in JobNames
      BY <1>0, <1>4 DEF CaptureLogs, Call, TypeInv, Known
    <2>2. StatusLogs(o, TRUE) \in Bundle /\ StatusLogs(o, FALSE) \in Bundle
      BY <1>0, <2>1 DEF StatusLogs, Bundle, Status
    <2>3. RecordStep(bundle.status) \in Plainly
      BY DEF RecordStep, Plainly, Labels
    <2>4. PICK recorded \in Bundle :
            Goto(o, RecordStep(bundle.status), recorded)
      BY <1>0, <1>4, <2>2 DEF CaptureLogs
    <2>5. configMaps' \subseteq JobNames
      BY <1>4, <2>1 DEF CaptureLogs, TypeInv, TypeOK
    <2> DEFINE call == [op[o] EXCEPT !.pc = RecordStep(bundle.status),
                                     !.bundle = recorded]
    <2>6. call \in Call /\ call.pc \in Plainly
      BY <1>0, <2>3, <2>4 DEF Call, Plainly
    <2>7. op' = [op EXCEPT ![o] = call] /\ UNCHANGED queue
      BY <2>4 DEF Goto
    <2> HIDE DEF call
    <2>8. op' \in [Operators -> Call] /\ Known'
      BY <1>4, <2>6, <2>7, OneCallType DEF CaptureLogs, TypeInv, Known, Plainly
    <2> QED BY <1>f, <1>4, <2>5, <2>7, <2>8 DEF CaptureLogs, TypeInv, TypeOK
  <1> QED BY <1>1, <1>2, <1>3, <1>4

\* The work queue, the caches and a restart keep TypeInv.
LEMMA RuntimeType ==
    ASSUME TypeInv, NEW o \in Operators,
           \/ TimerFires(o) \/ SyncInformer(o) \/ Crash(o)
           \/ \E j \in JobNames : SyncJob(o, j)
    PROVE  TypeInv'
  <1>1. \A j \in JobNames : View(jobs[j]) \in Views
    BY DEF TypeInv, TypeOK, Known, Job, View, Views
  <1>2. CASE TimerFires(o)
    <2>1. queue' \in [Operators -> Key]
      BY <1>2 DEF TimerFires, TypeInv, TypeOK, Key
    <2> QED BY <1>2, <2>1 DEF TimerFires, TypeInv, TypeOK, Known, cluster
  <1>3. CASE SyncInformer(o)
    <2>1. queue' \in [Operators -> Key] /\ informer' \in [Operators -> Cache]
      BY <1>3 DEF SyncInformer, TypeInv, TypeOK, Key, Cache
    <2> QED BY <1>3, <2>1 DEF SyncInformer, TypeInv, TypeOK, Known, cluster
  <1>4. CASE Crash(o)
    <2>1. /\ queue' \in [Operators -> Key] /\ informer' \in [Operators -> Cache]
          /\ faults' \in Budget
      BY <1>4 DEF Crash, Disrupt, Budget, TypeInv, TypeOK, Key, Cache, Bundle
    <2>2. seen' \in [Operators -> [JobNames -> Views]]
      BY <1>1, <1>4 DEF Crash, TypeInv, TypeOK
    <2>3. op' \in [Operators -> Call] /\ Known'
      BY <1>4, IdleType DEF Crash, TypeInv, TypeOK, Known, Idle
    <2> QED BY <1>4, <2>1, <2>2, <2>3 DEF Crash, TypeInv, TypeOK
  <1>5. ASSUME NEW j \in JobNames, SyncJob(o, j)
        PROVE  TypeInv'
    <2>1. seen' \in [Operators -> [JobNames -> Views]]
      BY <1>1, <1>5 DEF SyncJob, TypeInv, TypeOK
    <2> QED BY <1>5, <2>1 DEF SyncJob, TypeInv, TypeOK, Known
  <1> QED BY <1>2, <1>3, <1>4, <1>5

\* Users, the registry and the other controllers keep TypeInv.
LEMMA EnvironmentType ==
    ASSUME TypeInv, Environment PROVE TypeInv'
  <1>1. ASSUME NEW bundle \in Bundle, UserWrites(bundle), faults' \in Budget
        PROVE  TypeInv'
    <2>1. op' \in [Operators -> Call]
      BY <1>1 DEF UserWrites, TypeInv, TypeOK, Call
    <2>2. informer' \in [Operators -> Cache]
      BY <1>1 DEF UserWrites, TypeInv, TypeOK, Cache
    <2>3. \A o \in Operators : /\ op'[o].pc = op[o].pc
                               /\ op'[o].job = op[o].job
                               /\ op'[o].bundle = op[o].bundle
      BY <1>1 DEF UserWrites, TypeInv, TypeOK, Call
    <2>4. Known'
      BY <1>1, <2>3 DEF UserWrites, TypeInv, Known
    <2> QED BY <1>1, <2>1, <2>2, <2>4 DEF UserWrites, TypeInv, TypeOK, cluster
  <1>2. CASE EditSpec
    <2>1. PICK spec \in Specs : UserWrites([api EXCEPT !.spec = spec])
      BY <1>2 DEF EditSpec
    <2>2. [api EXCEPT !.spec = spec] \in Bundle /\ faults' \in Budget
      BY <1>2 DEF EditSpec, Disrupt, Budget, TypeInv, TypeOK, Bundle
    <2> QED BY <1>1, <2>1, <2>2
  <1>3. CASE DeleteBundle
    <2>1. [api EXCEPT !.deleting = TRUE, !.exists = api.finalizer] \in Bundle
      BY DEF TypeInv, TypeOK, Bundle
    <2>2. faults' \in Budget
      BY <1>3 DEF DeleteBundle, Disrupt, Budget, TypeInv, TypeOK
    <2> QED BY <1>1, <1>3, <2>1, <2>2 DEF DeleteBundle
  <1>4. CASE PushTag
    <2>1. registry' \in Registry
      <3>1. PICK url \in Repositories, t \in Tags :
              registry' = [registry EXCEPT !.tags[url] = @ \union {t}]
        BY <1>4 DEF PushTag
      <3>2. /\ registry.tags \in [Repositories -> SUBSET Tags]
            /\ registry.tags[url] \union {t} \in SUBSET Tags
        BY DEF TypeInv, TypeOK, Registry
      <3> QED BY <3>1, <3>2 DEF TypeInv, TypeOK, Registry
    <2> QED BY <1>4, <2>1 DEF PushTag, Disrupt, Budget, TypeInv, TypeOK, Known
  <1>5. CASE WithdrawTag
    <2>1. registry' \in Registry
      <3>1. PICK url \in Repositories :
              \E t \in registry.tags[url] :
                registry' = [registry EXCEPT !.tags[url] = @ \ {t}]
        BY <1>5 DEF WithdrawTag
      <3>2. PICK t : registry' = [registry EXCEPT !.tags[url] = @ \ {t}]
        BY <3>1
      <3>3. /\ registry.tags \in [Repositories -> SUBSET Tags]
            /\ registry.tags[url] \ {t} \in SUBSET Tags
        BY DEF TypeInv, TypeOK, Registry
      <3> QED BY <3>2, <3>3 DEF TypeInv, TypeOK, Registry
    <2> QED
      BY <1>5, <2>1 DEF WithdrawTag, Disrupt, Budget, TypeInv, TypeOK, Known
  <1>6. CASE RegistryFlips
    <2>1. registry' \in Registry
      BY <1>6 DEF RegistryFlips, Registry, TypeInv, TypeOK
    <2> QED
      BY <1>6, <2>1 DEF RegistryFlips, Disrupt, Budget, TypeInv, TypeOK, Known
  <1>7. CASE ServiceAccountFlips
    BY <1>7 DEF ServiceAccountFlips, Disrupt, Budget, TypeInv, TypeOK, Known
  <1>8. CASE ConfigMapsCollected
    BY <1>8 DEF ConfigMapsCollected, TypeInv, TypeOK, Known
  <1>9. ASSUME NEW j \in JobNames, JobFinishes(j) \/ JobRemoved(j)
        PROVE  TypeInv'
    <2>0. \/ jobs' = [jobs EXCEPT ![j].present = FALSE]
          \/ \E outcome \in {"succeeded", "failed"} :
                jobs' = [jobs EXCEPT ![j].outcome = outcome]
      BY <1>9 DEF JobFinishes, JobRemoved
    <2>1. jobs' \in [JobNames -> Job]
      <3>1. CASE jobs' = [jobs EXCEPT ![j].present = FALSE]
        BY <3>1 DEF TypeInv, TypeOK, Job
      <3>2. ASSUME NEW outcome \in {"succeeded", "failed"},
                   jobs' = [jobs EXCEPT ![j].outcome = outcome]
            PROVE  jobs' \in [JobNames -> Job]
        BY <3>2 DEF TypeInv, TypeOK, Job
      <3> QED BY <2>0, <3>1, <3>2
    <2>2. \A k \in JobNames : jobs'[k].present => jobs'[k].outcome # "unused"
      BY <2>0 DEF TypeInv, TypeOK, Known, Job
    <2>3. faults' \in Budget
      BY <1>9 DEF JobFinishes, JobRemoved, Disrupt, Budget, TypeInv, TypeOK
    <2> QED BY <1>9, <2>1, <2>2, <2>3
            DEF JobFinishes, JobRemoved, TypeInv, TypeOK, Known, cluster
  <1> QED BY <1>2, <1>3, <1>4, <1>5, <1>6, <1>7, <1>8, <1>9 DEF Environment

LEMMA InitType == Init => TypeInv
  <1> SUFFICES ASSUME Init PROVE TypeInv
    OBVIOUS
  <1>1. api \in Bundle
    BY BlankType DEF Init, NewBundle, Bundle
  <1>2. Unused \in Job
    BY BlankType DEF Unused, Job, Bundle
  <1>3. registry \in Registry /\ faults \in Budget
    BY OptionsAssumption DEF Init, Registry, Budget
  <1>4. TypeOK
    BY <1>1, <1>2, <1>3, IdleType, OptionsAssumption
       DEF Init, TypeOK, Cache, Key, Views
  <1>5. Known
    BY DEF Init, Known, Idle, Unused
  <1> QED BY <1>4, <1>5 DEF TypeInv

LEMMA NextType == TypeInv /\ [Next]_vars => TypeInv'
  <1> SUFFICES ASSUME TypeInv, [Next]_vars PROVE TypeInv'
    OBVIOUS
  <1>1. ASSUME NEW o \in Operators, Reconcile(o) PROVE TypeInv'
    BY <1>1, WritesType, ReadsType, JobStepsType DEF Reconcile
  <1>2. CASE UNCHANGED vars
    BY <1>2 DEF vars, TypeInv, TypeOK, Known
  <1> QED BY <1>1, <1>2, RuntimeType, EnvironmentType DEF Next

(***************************************************************************)
(* Every variable has its type in every reachable state: no step of        *)
(* Reconcile, of the runtime or of the environment stores a value of       *)
(* another shape, in particular no ConfigMap is named after an empty job   *)
(* name.                                                                   *)
(***************************************************************************)
THEOREM TypeCorrect == Spec => []TypeOK
  <1>1. TypeInv => TypeOK
    BY DEF TypeInv
  <1> QED BY InitType, NextType, <1>1, PTL DEF Spec

-----------------------------------------------------------------------------
(* Claims                                                                  *)

\* A fresh cache holds the stored object.
FreshCaches ==
    \A o \in Operators : informer[o].fresh => informer[o].bundle = api

\* The local bundle agrees with the stored one in what Reconcile does not
\* change in memory.
Agrees(bundle) ==
    /\ bundle.spec = api.spec
    /\ bundle.deleting = api.deleting
    /\ bundle.status.lastAppliedTag = api.status.lastAppliedTag

FreshCalls == \A o \in Operators : op[o].fresh => Agrees(op[o].bundle)

\* A tag about to be claimed is not the one that is stored.
NewTag(call) ==
    call.pc \in {"claim", "getActiveJob"} =>
        /\ call.tag # NoTag
        /\ call.tag # call.bundle.status.lastAppliedTag

NewTags == \A o \in Operators : NewTag(op[o])

\* The call has claimed its tag and not yet created its Job.
Holds(call) == call.claim /\ call.pc \in {"build", "createJob"}

\* At most one actor, a call or a Job, has the claim that is current.
OneHolder ==
    /\ OneJobPerClaim
    /\ \A o, p \in Operators : Holds(op[o]) /\ Holds(op[p]) => o = p
    /\ \A o \in Operators, j \in JobNames : ~(Holds(op[o]) /\ jobs[j].claim)

ClaimInv == FreshCaches /\ FreshCalls /\ NewTags /\ OneHolder

-----------------------------------------------------------------------------
\* One call moves on; the stored objects stay.
LEMMA LocalClaim ==
    ASSUME TypeInv, ClaimInv, NEW o \in Operators, NEW call \in Call,
           op' = [op EXCEPT ![o] = call], UNCHANGED <<api, jobs, informer>>,
           call.fresh => Agrees(call.bundle),
           NewTag(call),
           Holds(call) => Holds(op[o])
    PROVE  ClaimInv'
  <1>0. op'[o] = call /\ \A p \in Operators \ {o} : op'[p] = op[p]
    BY DEF TypeInv, TypeOK
  <1>1. FreshCaches'
    BY DEF ClaimInv, FreshCaches
  <1>2. FreshCalls'
    BY <1>0 DEF ClaimInv, FreshCalls, Agrees
  <1>3. NewTags'
    BY <1>0 DEF ClaimInv, NewTags, NewTag
  <1>4. \A p \in Operators : Holds(op'[p]) => Holds(op[p])
    BY <1>0
  <1>5. OneHolder'
    BY <1>4 DEF ClaimInv, OneHolder, OneJobPerClaim, Holds
  <1> QED BY <1>1, <1>2, <1>3, <1>5 DEF ClaimInv

LEMMA ReturnClaim ==
    ASSUME TypeInv, ClaimInv, NEW o \in Operators, NEW outcome,
           Return(o, outcome), UNCHANGED <<api, jobs, informer>>
    PROVE  ClaimInv'
  <1>1. /\ Idle \in Call /\ ~Idle.fresh /\ NewTag(Idle) /\ ~Holds(Idle)
    BY IdleType DEF Idle, NewTag, Holds
  <1>2. op' = [op EXCEPT ![o] = Idle]
    BY DEF Return
  <1> QED BY <1>1, <1>2, LocalClaim

\* A move to a label that neither claims nor uses a claim.
LEMMA GotoClaim ==
    ASSUME TypeInv, ClaimInv, NEW o \in Operators,
           NEW pc \in Labels \ {"claim", "getActiveJob", "build", "createJob"},
           NEW bundle \in Bundle, Goto(o, pc, bundle),
           bundle.spec = op[o].bundle.spec,
           bundle.deleting = op[o].bundle.deleting,
           bundle.status.lastAppliedTag = op[o].bundle.status.lastAppliedTag,
           UNCHANGED <<api, jobs, informer>>
    PROVE  ClaimInv'
  <1> DEFINE call == [op[o] EXCEPT !.pc = pc, !.bundle = bundle]
  <1>1. op' = [op EXCEPT ![o] = call]
    BY DEF Goto
  <1>2. op[o] \in Call
    BY CallType
  <1>3. call \in Call /\ call.pc = pc /\ call.bundle = bundle
        /\ call.fresh = op[o].fresh
    BY <1>2 DEF Call
  <1> HIDE DEF call
  <1>4. call.fresh => Agrees(call.bundle)
    BY <1>3 DEF ClaimInv, FreshCalls, Agrees
  <1>5. NewTag(call) /\ ~Holds(call)
    BY <1>3 DEF NewTag, Holds
  <1> QED BY <1>1, <1>3, <1>4, <1>5, LocalClaim

\* A write is accepted.  Either it is the claim, which moves LastAppliedTag
\* and so ends every other claim, or the call does not come to hold one.
LEMMA PersistClaim ==
    ASSUME TypeInv, ClaimInv, NEW o \in Operators, NEW bundle \in Bundle,
           NEW next \in Labels \union Outcomes, Persist(o, bundle, next),
           next \notin {"claim", "getActiveJob", "createJob"},
           next = "build" => /\ op[o].pc = "claim"
                             /\ bundle.status.lastAppliedTag = op[o].tag
    PROVE  ClaimInv'
  <1> DEFINE moved == bundle.status.lastAppliedTag # api.status.lastAppliedTag
  <1>0. op[o] \in Call /\ api' = bundle
    BY CallType DEF Persist
  <1>1. FreshCaches'
    BY DEF Persist, FreshCaches, TypeInv, TypeOK, Cache
  <1>2. \A p \in Operators \ {o} :
           /\ ~op'[p].fresh
           /\ op'[p].pc = op[p].pc /\ op'[p].tag = op[p].tag
           /\ op'[p].bundle = op[p].bundle
           /\ op'[p].claim => op[p].claim /\ ~moved
    BY DEF Persist, TypeInv, TypeOK, Call
  <1>3. CASE next \in Outcomes
    <2>1. op'[o] = Idle
      BY <1>3 DEF Persist
    <2>2. ~op'[o].fresh /\ op'[o].pc = "idle" /\ ~op'[o].claim
      BY <2>1 DEF Idle
    <2>3. FreshCalls' /\ NewTags'
      BY <1>2, <2>2 DEF FreshCalls, NewTags, NewTag, ClaimInv
    <2>4. \A j \in JobNames : jobs'[j].claim => jobs[j].claim
      BY DEF Persist, TypeInv, TypeOK, Job
    <2>5. \A p \in Operators : Holds(op'[p]) => Holds(op[p])
      BY <1>2, <2>2 DEF Holds
    <2>6. OneHolder'
      BY <2>4, <2>5 DEF ClaimInv, OneHolder, OneJobPerClaim, Holds
    <2> QED BY <1>1, <2>3, <2>6 DEF ClaimInv
  <1>4. CASE next \notin Outcomes
    <2>1. op'[o].pc = next /\ op'[o].bundle = bundle
      BY <1>0, <1>4 DEF Persist, Call
    <2>2. FreshCalls' /\ NewTags'
      BY <1>0, <1>2, <2>1 DEF FreshCalls, NewTags, NewTag, ClaimInv, Agrees
    <2>3. CASE next = "build"
      <3>1. moved
        BY <2>3 DEF ClaimInv, NewTags, NewTag, FreshCalls, Agrees, Persist
      <3>2. \A j \in JobNames : ~jobs'[j].claim
        BY <3>1 DEF Persist, TypeInv, TypeOK, Job
      <3>3. \A p \in Operators \ {o} : ~Holds(op'[p])
        BY <1>2, <3>1 DEF Holds
      <3>4. OneHolder'
        BY <3>2, <3>3 DEF OneHolder, OneJobPerClaim, Holds
      <3> QED BY <1>1, <2>2, <3>4 DEF ClaimInv
    <2>4. CASE next # "build"
      <3>1. ~Holds(op'[o])
        BY <2>1, <2>4 DEF Holds
      <3>2. \A j \in JobNames : jobs'[j].claim => jobs[j].claim
        BY DEF Persist, TypeInv, TypeOK, Job
      <3>3. \A p \in Operators : Holds(op'[p]) => Holds(op[p])
        BY <1>2, <3>1 DEF Holds
      <3>4. OneHolder'
        BY <3>2, <3>3 DEF ClaimInv, OneHolder, OneJobPerClaim, Holds
      <3> QED BY <1>1, <2>2, <3>4 DEF ClaimInv
    <2> QED BY <2>3, <2>4
  <1> QED BY <1>3, <1>4

\* What a user decides is kept.
Keeps == api'.spec = api.spec /\ (api.deleting => api'.deleting)

LEMMA UpdateClaim ==
    ASSUME TypeInv, ClaimInv, NEW o \in Operators, NEW bundle \in Bundle,
           NEW next \in Labels \union Outcomes, NEW onError \in Outcomes,
           Update(o, bundle, next, onError),
           bundle.spec = op[o].bundle.spec,
           bundle.deleting = op[o].bundle.deleting,
           next \notin {"claim", "getActiveJob", "createJob"},
           next = "build" => /\ op[o].pc = "claim"
                             /\ bundle.status.lastAppliedTag = op[o].tag
    PROVE  ClaimInv' /\ Keeps
  <1>0. onError \notin {"claim", "getActiveJob", "createJob", "build"}
    BY DEF Outcomes
  <1>1. ASSUME NEW n \in Labels \union Outcomes, Persist(o, bundle, n)
        PROVE  Keeps
    BY <1>1 DEF Persist, ClaimInv, FreshCalls, Agrees, Keeps
  <1>2. CASE Persist(o, bundle, next)
    BY <1>1, <1>2, PersistClaim
  <1>3. CASE Abandon(o, onError)
    BY <1>3, ReturnClaim DEF Abandon, Keeps
  <1>4. CASE Persist(o, bundle, onError)
    BY <1>0, <1>1, <1>4, PersistClaim
  <1> QED BY <1>2, <1>3, <1>4 DEF Update

LEMMA UpdateStatusClaim ==
    ASSUME TypeInv, ClaimInv, NEW o \in Operators, NEW status \in Status,
           NEW next \in Labels \union Outcomes,
           UpdateStatus(o, status, next),
           next \notin {"claim", "getActiveJob", "createJob"},
           next = "build" => /\ op[o].pc = "claim"
                             /\ status.lastAppliedTag = op[o].tag
    PROVE  ClaimInv' /\ Keeps
  <1> DEFINE bundle == [op[o].bundle EXCEPT !.status = status]
  <1>0. op[o].bundle \in Bundle
    BY CallType
  <1>1. /\ bundle \in Bundle /\ bundle.spec = op[o].bundle.spec
        /\ bundle.deleting = op[o].bundle.deleting /\ bundle.status = status
    BY <1>0 DEF Bundle
  <1>2. Update(o, bundle, next, "requeue") /\ "requeue" \in Outcomes
    BY DEF UpdateStatus, Outcomes
  <1> HIDE DEF bundle
  <1> QED BY <1>1, <1>2, UpdateClaim

\* The writes of Reconcile.
LEMMA WritesClaim ==
    ASSUME TypeInv, ClaimInv, NEW o \in Operators,
           \/ RemoveFinalizer(o) \/ AddFinalizer(o) \/ RejectSpec(o)
           \/ ResolveNamespace(o) \/ RejectServiceAccount(o)
           \/ RegistryFailed(o) \/ RegistryRetry(o) \/ NoTags(o)
           \/ AlreadyApplied(o) \/ Claim(o) \/ BuildFailed(o)
           \/ CreateFailed(o) \/ TrackJob(o) \/ RecordSuccess(o)
           \/ RecordFailure(o)
    PROVE  ClaimInv' /\ Keeps
  <1> DEFINE bundle == op[o].bundle
             status == bundle.status
  <1>0. /\ bundle \in Bundle /\ status \in Status
        /\ op[o].tag \in Tags \union {NoTag, ErrorText}
        /\ op[o].job \in JobNames \union {NoJob}
        /\ "done" \in Outcomes /\ "requeue" \in Outcomes
        /\ "build" \in Labels
        /\ \A tag \in Tags \union {NoTag, ErrorText} :
              /\ updateStatusSyncing(status, tag) \in Status
              /\ updateStatusSynced(status, tag) \in Status
        /\ \A cause \in Causes : updateStatusFailed(status, cause) \in Status
    BY CallType, StatusType DEF Outcomes, Labels, Causes
  <1>l. \A out \in Outcomes :
           out \notin {"claim", "getActiveJob", "createJob", "build"}
    BY DEF Outcomes
  <1>n. \A b \in Bundle :
           /\ AfterNamespace(b) \in Labels \ {"claim", "getActiveJob",
                                               "createJob", "build"}
           /\ AfterFinalizer(b) \in Labels \ {"claim", "getActiveJob",
                                               "createJob", "build"}
           /\ PollAgain(b.spec) \in Outcomes
    BY DEF AfterNamespace, AfterFinalizer, PollAgain, Labels, Outcomes
  <1>1. CASE RemoveFinalizer(o)
    <2> DEFINE b == [bundle EXCEPT !.finalizer = FALSE, !.exists = FALSE]
    <2>1. b \in Bundle /\ b.spec = bundle.spec /\ b.deleting = bundle.deleting
      BY <1>0 DEF Bundle
    <2> QED BY <1>0, <1>l, <1>1, <2>1, UpdateClaim DEF RemoveFinalizer
  <1>2. CASE AddFinalizer(o)
    <2> DEFINE b == [bundle EXCEPT !.finalizer = TRUE]
    <2>1. b \in Bundle /\ b.spec = bundle.spec /\ b.deleting = bundle.deleting
      BY <1>0 DEF Bundle
    <2>2. Update(o, b, AfterFinalizer(b), "requeue")
      BY <1>2 DEF AddFinalizer
    <2> HIDE DEF b
    <2> QED BY <1>0, <1>n, <2>1, <2>2, UpdateClaim
  <1>3. CASE RejectSpec(o)
    BY <1>0, <1>l, <1>3, UpdateStatusClaim DEF RejectSpec, Causes
  <1>4. CASE ResolveNamespace(o)
    <2>1. [status EXCEPT !.resolvedTargetNamespace =
             GetTargetNamespace(bundle.spec)] \in Status
      BY <1>0, TargetType DEF Status
    <2> QED BY <1>0, <1>n, <1>4, <2>1, UpdateStatusClaim DEF ResolveNamespace
  <1>5. CASE RejectServiceAccount(o)
    <2> DEFINE b == [bundle EXCEPT !.status =
                       updateStatusFailed(@, "serviceAccount")]
    <2>1. b \in Bundle /\ b.spec = bundle.spec /\ b.deleting = bundle.deleting
      BY <1>0 DEF Bundle, Causes
    <2>2. Update(o, b, "done", "done")
      BY <1>5 DEF RejectServiceAccount
    <2> HIDE DEF b
    <2> QED BY <1>0, <1>l, <2>1, <2>2, UpdateClaim
  <1>6. CASE RegistryFailed(o)
    BY <1>0, <1>l, <1>6, UpdateStatusClaim DEF RegistryFailed, Causes
  <1>7. CASE RegistryRetry(o)
    BY <1>0, <1>l, <1>7, UpdateStatusClaim DEF RegistryRetry
  <1>8. CASE NoTags(o)
    BY <1>0, <1>l, <1>n, <1>8, UpdateStatusClaim DEF NoTags
  <1>9. CASE AlreadyApplied(o)
    BY <1>0, <1>l, <1>9, UpdateStatusClaim DEF AlreadyApplied
  <1>10. CASE Claim(o)
    <2>1. op[o].pc = "claim" /\ op[o].tag # NoTag
      BY <1>10 DEF Claim, ClaimInv, NewTags, NewTag
    <2>2. updateStatusSyncing(status, op[o].tag).lastAppliedTag = op[o].tag
      BY <1>0, <2>1 DEF updateStatusSyncing, Status
    <2> QED BY <1>0, <1>10, <2>1, <2>2, UpdateStatusClaim DEF Claim
  <1>11. CASE BuildFailed(o)
    BY <1>0, <1>l, <1>11, UpdateStatusClaim DEF BuildFailed, Causes
  <1>12. CASE CreateFailed(o)
    BY <1>0, <1>l, <1>12, UpdateStatusClaim DEF CreateFailed, Causes
  <1>13. CASE TrackJob(o)
    <2>1. [status EXCEPT !.activeJobName = op[o].job,
                         !.lastJobStatus = "Running"] \in Status
      BY <1>0 DEF Status
    <2> QED BY <1>0, <1>l, <1>13, <2>1, UpdateStatusClaim DEF TrackJob
  <1>14. CASE RecordSuccess(o)
    BY <1>0, <1>l, <1>14, UpdateStatusClaim DEF RecordSuccess
  <1>15. CASE RecordFailure(o)
    BY <1>0, <1>l, <1>15, UpdateStatusClaim DEF RecordFailure, Causes
  <1> QED BY <1>1, <1>2, <1>3, <1>4, <1>5, <1>6, <1>7, <1>8, <1>9, <1>10,
             <1>11, <1>12, <1>13, <1>14, <1>15

\* The steps of Reconcile that write nothing to the API server.
LEMMA ReadsClaim ==
    ASSUME TypeInv, ClaimInv, NEW o \in Operators,
           \/ StartReconcile(o) \/ CheckServiceAccount(o) \/ PollFails(o)
           \/ PollNotModified(o) \/ PollFindsNoTags(o)
           \/ \E latestTag \in Tags : PollFindsTag(o, latestTag)
    PROVE  ClaimInv'
  <1> DEFINE bundle == op[o].bundle
             Quiet == Labels \ {"claim", "getActiveJob", "build", "createJob"}
  <1>0. op[o] \in Call /\ bundle \in Bundle /\ bundle.status \in Status
    BY CallType
  <1>q. {"poll", "rejectServiceAccount", "registryFailed", "registryRetry",
         "noTags"} \subseteq Quiet
    BY DEF Labels
  <1>u. UNCHANGED <<api, jobs, informer>>
    BY DEF StartReconcile, CheckServiceAccount, PollFails, PollNotModified,
           PollFindsNoTags, PollFindsTag
  <1>1. CASE StartReconcile(o)
    <2> DEFINE cached == informer[o].bundle
               call == [op[o] EXCEPT !.pc = FirstStep(cached),
                                     !.bundle = cached,
                                     !.fresh = informer[o].fresh]
    <2>1. cached \in Bundle /\ informer[o].fresh \in BOOLEAN
      BY DEF TypeInv, TypeOK, Cache
    <2>2. FirstStep(cached) \in Quiet
      BY DEF FirstStep, AfterFinalizer, AfterNamespace, Labels
    <2>3. call \in Call /\ call.pc \in Quiet /\ call.bundle = cached
          /\ call.fresh = informer[o].fresh
      BY <1>0, <2>1, <2>2 DEF Call
    <2>4. op' = op \/ op' = [op EXCEPT ![o] = call]
      BY <1>1 DEF StartReconcile
    <2> HIDE DEF call
    <2>5. call.fresh => Agrees(call.bundle)
      BY <2>3 DEF ClaimInv, FreshCaches, Agrees
    <2>6. NewTag(call) /\ ~Holds(call)
      BY <2>3 DEF NewTag, Holds
    <2>7. CASE op' = [op EXCEPT ![o] = call]
      BY <1>u, <2>3, <2>5, <2>6, <2>7, LocalClaim
    <2>8. CASE op' = op
      BY <1>u, <2>8 DEF ClaimInv, FreshCaches, FreshCalls, Agrees, NewTags,
         NewTag, OneHolder, OneJobPerClaim, Holds
    <2> QED BY <2>4, <2>7, <2>8
  <1>2. CASE CheckServiceAccount(o)
    BY <1>0, <1>q, <1>u, <1>2, GotoClaim DEF CheckServiceAccount
  <1>3. CASE PollFails(o)
    <2> DEFINE failed == [bundle EXCEPT !.status.consecutiveFailures = @ + 1]
    <2>1. /\ failed \in Bundle /\ failed.spec = bundle.spec
          /\ failed.deleting = bundle.deleting
          /\ failed.status.lastAppliedTag = bundle.status.lastAppliedTag
      BY <1>0 DEF Bundle, Status
    <2>2. PICK pc \in Quiet : Goto(o, pc, failed)
      BY <1>q, <1>3 DEF PollFails
    <2> HIDE DEF failed
    <2> QED BY <1>u, <2>1, <2>2, GotoClaim
  <1>4. CASE PollNotModified(o)
    BY <1>u, <1>4, ReturnClaim DEF PollNotModified
  <1>5. CASE PollFindsNoTags(o)
    <2> DEFINE polled == [bundle EXCEPT !.status = Polled(bundle)]
    <2>1. /\ polled \in Bundle /\ polled.spec = bundle.spec
          /\ polled.deleting = bundle.deleting
          /\ polled.status.lastAppliedTag = bundle.status.lastAppliedTag
      BY <1>0, PolledType DEF Bundle, Status, Polled
    <2>2. Goto(o, "noTags", polled) \/ Return(o, PollAgain(bundle.spec))
      BY <1>5 DEF PollFindsNoTags
    <2> HIDE DEF polled
    <2> QED BY <1>q, <1>u, <2>1, <2>2, GotoClaim, ReturnClaim
  <1>6. ASSUME NEW latestTag \in Tags, PollFindsTag(o, latestTag)
        PROVE  ClaimInv'
    <2> DEFINE call == TagFound(op[o], latestTag)
    <2>1. \/ Return(o, "done")
          \/ op' = [op EXCEPT ![o] = call]
      BY <1>6 DEF PollFindsTag
    <2>2. call \in Call
      BY <1>0, TagFoundType
    <2>3. /\ call.fresh = op[o].fresh /\ call.tag = latestTag
          /\ call.bundle = [bundle EXCEPT !.status = Polled(bundle)]
          /\ call.pc \in {"alreadyApplied", "getActiveJob", "claim"}
          /\ call.pc # "alreadyApplied" =>
                bundle.status.lastAppliedTag # latestTag
      BY <1>0 DEF TagFound, Call
    <2>4. /\ call.bundle.spec = bundle.spec
          /\ call.bundle.deleting = bundle.deleting
          /\ call.bundle.status.lastAppliedTag = bundle.status.lastAppliedTag
      BY <1>0, <2>3 DEF Bundle, Polled, Status
    <2> HIDE DEF call
    <2>5. call.fresh => Agrees(call.bundle)
      BY <2>3, <2>4 DEF ClaimInv, FreshCalls, Agrees
    <2>6. NewTag(call) /\ ~Holds(call)
      BY <2>3, <2>4, TagsAssumption DEF NewTag, NoTag, Holds
    <2>7. CASE op' = [op EXCEPT ![o] = call]
      BY <1>u, <2>2, <2>5, <2>6, <2>7, LocalClaim
    <2>8. CASE Return(o, "done")
      BY <1>u, <2>8, ReturnClaim
    <2> QED BY <2>1, <2>7, <2>8
  <1> QED BY <1>1, <1>2, <1>3, <1>4, <1>5, <1>6

\* Only a created Job takes the claim over from its call.
LEMMA JobStepsClaim ==
    ASSUME TypeInv, ClaimInv, NEW o \in Operators,
           \/ GetActiveJob(o) \/ Build(o) \/ CreateJob(o) \/ CaptureLogs(o)
    PROVE  ClaimInv'
  <1> DEFINE bundle == op[o].bundle
             Quiet == Labels \ {"claim", "getActiveJob", "build", "createJob"}
  <1>0. op[o] \in Call /\ bundle \in Bundle /\ bundle.status \in Status
    BY CallType
  <1>q. {"buildFailed", "recordSuccess", "recordFailure"} \subseteq Quiet
    BY DEF Labels
  <1>a. op[o].fresh => Agrees(bundle)
    BY DEF ClaimInv, FreshCalls
  <1>1. CASE GetActiveJob(o)
    <2>u. UNCHANGED <<api, jobs, informer>>
      BY <1>1 DEF GetActiveJob
    <2>1. op[o].pc = "getActiveJob" /\ NewTag(op[o])
      BY <1>1 DEF GetActiveJob, ClaimInv, NewTags
    <2>2. ASSUME Goto(o, "claim", [bundle EXCEPT !.status.activeJobName = NoJob])
          PROVE  ClaimInv'
      <3> DEFINE cleared == [bundle EXCEPT !.status.activeJobName = NoJob]
                 call == [op[o] EXCEPT !.pc = "claim", !.bundle = cleared]
      <3>1. /\ cleared \in Bundle /\ cleared.spec = bundle.spec
            /\ cleared.deleting = bundle.deleting
            /\ cleared.status.lastAppliedTag = bundle.status.lastAppliedTag
        BY <1>0 DEF Bundle, Status
      <3>2. op' = [op EXCEPT ![o] = call]
        BY <2>2 DEF Goto
      <3> HIDE DEF cleared
      <3>3. /\ call \in Call /\ call.pc = "claim" /\ call.bundle = cleared
            /\ call.fresh = op[o].fresh /\ call.tag = op[o].tag
        BY <1>0, <3>1 DEF Call, Labels
      <3> HIDE DEF call
      <3>4. call.fresh => Agrees(call.bundle)
        BY <1>a, <3>1, <3>3 DEF Agrees
      <3>5. NewTag(call) /\ ~Holds(call)
        BY <2>1, <3>1, <3>3 DEF NewTag, Holds
      <3> QED BY <2>u, <3>2, <3>3, <3>4, <3>5, LocalClaim
    <2>3. ASSUME NEW outcome,
                 op' = [op EXCEPT ![o] = JobFinished(@, outcome)]
          PROVE  ClaimInv'
      <3> DEFINE call == JobFinished(op[o], outcome)
      <3>0. bundle.status.activeJobName # NoJob
        BY <2>1 DEF TypeInv, Known
      <3>1. call \in Call
        BY <1>0, <3>0, JobFinishedType
      <3>2. /\ call.pc = "captureLogs" /\ call.fresh = op[o].fresh
            /\ call.bundle.spec = bundle.spec
            /\ call.bundle.deleting = bundle.deleting
            /\ call.bundle.status.lastAppliedTag = bundle.status.lastAppliedTag
        BY <1>0 DEF JobFinished, Call, Bundle, Status
      <3>3. op' = [op EXCEPT ![o] = call]
        BY <2>3
      <3> HIDE DEF call
      <3>4. call.fresh => Agrees(call.bundle)
        BY <1>a, <3>2 DEF Agrees
      <3>5. NewTag(call) /\ ~Holds(call)
        BY <3>2 DEF NewTag, Holds
      <3> QED BY <2>u, <3>1, <3>3, <3>4, <3>5, LocalClaim
    <2> QED BY <1>1, <2>u, <2>2, <2>3, ReturnClaim DEF GetActiveJob
  <1>2. CASE Build(o)
    <2>u. UNCHANGED <<api, jobs, informer>> /\ op[o].pc = "build"
      BY <1>2 DEF Build
    <2>1. CASE Goto(o, "createJob", bundle)
      <3> DEFINE call == [op[o] EXCEPT !.pc = "createJob", !.bundle = bundle]
      <3>1. /\ call \in Call /\ call.pc = "createJob" /\ call.bundle = bundle
            /\ call.fresh = op[o].fresh /\ call.claim = op[o].claim
        BY <1>0 DEF Call, Labels
      <3>2. op' = [op EXCEPT ![o] = call]
        BY <2>1 DEF Goto
      <3> HIDE DEF call
      <3>3. NewTag(call) /\ (Holds(call) => Holds(op[o]))
        BY <2>u, <3>1 DEF NewTag, Holds
      <3> QED BY <1>a, <2>u, <3>1, <3>2, <3>3, LocalClaim
    <2>2. CASE Goto(o, "buildFailed", bundle)
      BY <1>0, <1>q, <2>u, <2>2, GotoClaim
    <2> QED BY <1>2, <2>u, <2>1, <2>2, ReturnClaim DEF Build
  <1>3. CASE CreateJob(o)
    <2>u. UNCHANGED <<api, informer>> /\ op[o].pc = "createJob"
      BY <1>3 DEF CreateJob
    <2>1. \E pc \in {"trackJob", "createFailed"}, j \in JobNames \union {NoJob} :
             op' = [op EXCEPT ![o] = [@ EXCEPT !.pc = pc, !.job = j]]
      <3>1. CASE op' = [op EXCEPT ![o].pc = "createFailed"]
        <4>1. [op[o] EXCEPT !.pc = "createFailed"]
                = [op[o] EXCEPT !.pc = "createFailed", !.job = op[o].job]
          BY <1>0 DEF Call
        <4> QED BY <1>0, <3>1, <4>1 DEF Call
      <3> QED BY <1>3, <3>1 DEF CreateJob
    <2>2. PICK pc \in {"trackJob", "createFailed"},
               created \in JobNames \union {NoJob} :
             op' = [op EXCEPT ![o] = [@ EXCEPT !.pc = pc, !.job = created]]
      BY <2>1
    <2>3. /\ op'[o].pc = pc /\ op'[o].bundle = bundle
          /\ op'[o].fresh = op[o].fresh
          /\ \A p \in Operators \ {o} : op'[p] = op[p]
      BY <1>0, <2>2 DEF TypeInv, TypeOK, Call
    <2>4. ~Holds(op'[o]) /\ NewTag(op'[o])
      BY <2>3 DEF Holds, NewTag
    <2>5. FreshCaches'
      BY <2>u DEF ClaimInv, FreshCaches
    <2>6. FreshCalls'
      BY <2>u, <2>3 DEF ClaimInv, FreshCalls, Agrees
    <2>7. NewTags'
      BY <2>3, <2>4 DEF ClaimInv, NewTags, NewTag
    <2>8. \A p \in Operators : Holds(op'[p]) => Holds(op[p]) /\ p # o
      BY <2>3, <2>4
    <2>9. OneHolder'
      <3>1. CASE UNCHANGED jobs
        BY <2>8, <3>1 DEF ClaimInv, OneHolder, OneJobPerClaim, Holds
      <3>2. ASSUME NEW j \in JobNames, jobs' = [jobs EXCEPT ![j] = NewJob(o)]
            PROVE  OneHolder'
        <4>1. jobs'[j].claim = op[o].claim
              /\ \A k \in JobNames \ {j} : jobs'[k] = jobs[k]
          BY <3>2 DEF NewJob, TypeInv, TypeOK
        <4>2. op[o].claim => Holds(op[o])
          BY <2>u DEF Holds
        <4>3. CASE op[o].claim
          <5>1. \A k \in JobNames \ {j} : ~jobs'[k].claim
            BY <4>1, <4>2, <4>3 DEF ClaimInv, OneHolder
          <5>2. \A p \in Operators : ~Holds(op'[p])
            BY <2>8, <4>2, <4>3 DEF ClaimInv, OneHolder
          <5> QED BY <5>1, <5>2 DEF OneHolder, OneJobPerClaim, Holds
        <4>4. CASE ~op[o].claim
          <5>1. \A k \in JobNames : jobs'[k].claim => jobs[k].claim
            BY <4>1, <4>4
          <5> QED BY <2>8, <5>1 DEF ClaimInv, OneHolder, OneJobPerClaim, Holds
        <4> QED BY <4>3, <4>4
      <3> QED BY <1>3, <3>1, <3>2 DEF CreateJob
    <2> QED BY <2>5, <2>6, <2>7, <2>9 DEF ClaimInv
  <1>4. CASE CaptureLogs(o)
    <2>1. op[o].job \in JobNames
      BY <1>0, <1>4 DEF CaptureLogs, Call, TypeInv, Known
    <2> DEFINE Logged(b) == /\ b \in Bundle /\ b.spec = bundle.spec
                            /\ b.deleting = bundle.deleting
                            /\ b.status.lastAppliedTag
                                 = bundle.status.lastAppliedTag
    <2>2. /\ Logged(StatusLogs(o, TRUE)) /\ Logged(StatusLogs(o, FALSE))
          /\ Logged(bundle)
      BY <1>0, <2>1 DEF StatusLogs, Bundle, Status
    <2>3. RecordStep(bundle.status) \in Quiet
      BY <1>q DEF RecordStep
    <2>4. \E b : Logged(b) /\ Goto(o, RecordStep(bundle.status), b)
      <3> HIDE DEF Logged
      <3> QED BY <1>4, <2>2 DEF CaptureLogs
    <2>u. UNCHANGED <<api, jobs, informer>>
      BY <1>4 DEF CaptureLogs
    <2> QED BY <2>3, <2>4, <2>u, GotoClaim
  <1> QED BY <1>1, <1>2, <1>3, <1>4

\* The work queue, the caches and a restart.
LEMMA RuntimeClaim ==
    ASSUME TypeInv, ClaimInv, NEW o \in Operators,
           \/ TimerFires(o) \/ SyncInformer(o) \/ Crash(o)
           \/ \E j \in JobNames : SyncJob(o, j)
    PROVE  ClaimInv'
  <1>u. UNCHANGED <<api, jobs>>
    BY DEF TimerFires, SyncInformer, Crash, SyncJob
  <1>1. FreshCaches'
    <2>1. \/ UNCHANGED informer
          \/ informer' = [informer EXCEPT ![o] =
                            [bundle |-> api, fresh |-> TRUE, event |-> FALSE]]
      BY DEF TimerFires, SyncInformer, Crash, SyncJob
    <2>2. \A p \in Operators : \/ informer'[p] = informer[p]
                               \/ informer'[p].bundle = api
      BY <2>1 DEF TypeInv, TypeOK
    <2> QED BY <1>u, <2>2 DEF ClaimInv, FreshCaches
  <1>2. \A p \in Operators : op'[p] = op[p] \/ op'[p] = Idle
    BY DEF TimerFires, SyncInformer, Crash, SyncJob, TypeInv, TypeOK
  <1>3. ~Idle.fresh /\ NewTag(Idle) /\ ~Holds(Idle)
    BY DEF Idle, NewTag, Holds
  <1>4. FreshCalls'
    BY <1>u, <1>2, <1>3 DEF ClaimInv, FreshCalls, Agrees
  <1>5. NewTags'
    BY <1>2, <1>3 DEF ClaimInv, NewTags, NewTag
  <1>6. \A p \in Operators : Holds(op'[p]) => Holds(op[p])
    BY <1>2, <1>3
  <1>7. OneHolder'
    BY <1>u, <1>6 DEF ClaimInv, OneHolder, OneJobPerClaim, Holds
  <1> QED BY <1>1, <1>4, <1>5, <1>7 DEF ClaimInv

\* A user's write makes every copy stale; nothing else outside the operators
\* touches the bundle or a claim.
LEMMA EnvironmentClaim ==
    ASSUME TypeInv, ClaimInv, Environment PROVE ClaimInv'
  <1>1. ASSUME NEW bundle, UserWrites(bundle) PROVE ClaimInv'
    <2>1. \A p \in Operators : ~informer'[p].fresh /\ ~op'[p].fresh
      BY <1>1 DEF UserWrites, TypeInv, TypeOK, Cache, Call
    <2>2. \A p \in Operators : /\ op'[p].pc = op[p].pc
                               /\ op'[p].bundle = op[p].bundle
                               /\ op'[p].tag = op[p].tag
                               /\ op'[p].claim = op[p].claim
      BY <1>1 DEF UserWrites, TypeInv, TypeOK, Call
    <2>3. FreshCaches' /\ FreshCalls'
      BY <2>1 DEF FreshCaches, FreshCalls
    <2>4. NewTags'
      BY <2>2 DEF ClaimInv, NewTags, NewTag
    <2>5. OneHolder'
      BY <1>1, <2>2 DEF UserWrites, ClaimInv, OneHolder, OneJobPerClaim, Holds
    <2> QED BY <2>3, <2>4, <2>5 DEF ClaimInv
  <1>2. ASSUME UNCHANGED <<api, informer, op>>,
               \A j \in JobNames : jobs'[j].claim = jobs[j].claim
        PROVE  ClaimInv'
    BY <1>2 DEF ClaimInv, FreshCaches, FreshCalls, Agrees, NewTags, NewTag,
                OneHolder, OneJobPerClaim, Holds
  <1>3. CASE EditSpec
    BY <1>1, <1>3 DEF EditSpec
  <1>4. CASE DeleteBundle
    BY <1>1, <1>4 DEF DeleteBundle
  <1>5. CASE PushTag \/ WithdrawTag \/ RegistryFlips \/ ServiceAccountFlips
             \/ ConfigMapsCollected
    BY <1>2, <1>5 DEF PushTag, WithdrawTag, RegistryFlips,
                      ServiceAccountFlips, ConfigMapsCollected
  <1>6. ASSUME NEW j \in JobNames, JobFinishes(j) \/ JobRemoved(j)
        PROVE  ClaimInv'
    <2>0. \/ jobs' = [jobs EXCEPT ![j].present = FALSE]
          \/ \E outcome \in {"succeeded", "failed"} :
                jobs' = [jobs EXCEPT ![j].outcome = outcome]
      BY <1>6 DEF JobFinishes, JobRemoved
    <2>1. \A k \in JobNames : jobs'[k].claim = jobs[k].claim
      <3>1. CASE jobs' = [jobs EXCEPT ![j].present = FALSE]
        BY <3>1 DEF TypeInv, TypeOK, Job
      <3>2. ASSUME NEW outcome, jobs' = [jobs EXCEPT ![j].outcome = outcome]
            PROVE  \A k \in JobNames : jobs'[k].claim = jobs[k].claim
        BY <3>2 DEF TypeInv, TypeOK, Job
      <3> QED BY <2>0, <3>1, <3>2
    <2>2. UNCHANGED <<api, informer, op>>
      BY <1>6 DEF JobFinishes, JobRemoved
    <2> QED BY <1>2, <2>1, <2>2
  <1> QED BY <1>3, <1>4, <1>5, <1>6 DEF Environment

LEMMA InitClaim == Init => ClaimInv
  BY DEF Init, ClaimInv, FreshCaches, FreshCalls, NewTags, NewTag, OneHolder,
         OneJobPerClaim, Holds, Idle, Unused

LEMMA NextClaim == TypeInv /\ ClaimInv /\ [Next]_vars => ClaimInv'
  <1> SUFFICES ASSUME TypeInv, ClaimInv, [Next]_vars PROVE ClaimInv'
    OBVIOUS
  <1>1. ASSUME NEW o \in Operators, Reconcile(o) PROVE ClaimInv'
    BY <1>1, WritesClaim, ReadsClaim, JobStepsClaim DEF Reconcile
  <1>2. CASE UNCHANGED vars
    BY <1>2 DEF vars, ClaimInv, FreshCaches, FreshCalls, Agrees, NewTags,
                NewTag, OneHolder, OneJobPerClaim, Holds
  <1> QED BY <1>1, <1>2, RuntimeClaim, EnvironmentClaim DEF Next

(***************************************************************************)
(* For any number of operators, tags and faults, one value of              *)
(* LastAppliedTag leads to at most one Job while it stays there            *)
(* (ensureJobExists claims before it creates).                             *)
(***************************************************************************)
THEOREM ClaimsAreExclusive == Spec => []OneJobPerClaim
  <1>1. ClaimInv => OneJobPerClaim
    BY DEF ClaimInv, OneHolder
  <1> QED BY InitType, NextType, InitClaim, NextClaim, <1>1, PTL DEF Spec

(***************************************************************************)
(* No step of Reconcile changes the spec a user wrote or cancels a         *)
(* deletion, for any interleaving of operators, users and lost answers.    *)
(***************************************************************************)
THEOREM UsersWritesSurvive == Spec => NoLostUpdate
  <1>1. TypeInv /\ ClaimInv
          => [(\E o \in Operators : Reconcile(o)) =>
                api'.spec = api.spec /\ (api.deleting => api'.deleting)]_vars
    <2> SUFFICES ASSUME TypeInv, ClaimInv, NEW o \in Operators, Reconcile(o)
                 PROVE  Keeps
      BY DEF Keeps
    <2>1. CASE \/ StartReconcile(o) \/ CheckServiceAccount(o) \/ PollFails(o)
               \/ PollNotModified(o) \/ PollFindsNoTags(o)
               \/ \E latestTag \in Tags : PollFindsTag(o, latestTag)
               \/ GetActiveJob(o) \/ Build(o) \/ CreateJob(o)
               \/ CaptureLogs(o)
      <3>1. UNCHANGED api
        BY <2>1 DEF StartReconcile, CheckServiceAccount, PollFails,
                    PollNotModified, PollFindsNoTags, PollFindsTag,
                    GetActiveJob, Build, CreateJob, CaptureLogs
      <3> QED BY <3>1 DEF Keeps
    <2> QED BY <2>1, WritesClaim DEF Reconcile
  <1> QED BY InitType, NextType, InitClaim, NextClaim, <1>1, PTL
          DEF Spec, NoLostUpdate
=============================================================================
