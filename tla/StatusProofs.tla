----------------------------- MODULE StatusProofs -----------------------------
(***************************************************************************)
(* Proofs about what the status says: its fields agree with one another,   *)
(* what it refers to is there, and the bundle is held while its Job is     *)
(* being created.                                                          *)
(*                                                                         *)
(* The steps of Reconcile are first brought into two tables, Written for   *)
(* the writes and Moved for the steps in memory, which say field by field  *)
(* what becomes of the local bundle; the invariants are proved from them.  *)
(***************************************************************************)
EXTENDS RefinementProofs

Failing ==
    {"rejectSpec", "rejectServiceAccount", "registryFailed", "buildFailed",
     "createFailed", "recordFailure"}
Plain == {"removeFinalizer", "addFinalizer", "resolveNamespace", "trackJob"}

\* The phase, the message and the tag that the write of call leaves.
Reported(call, status) ==
    LET was == call.bundle.status IN
    \/ /\ call.pc \in Plain
       /\ status.phase = was.phase
       /\ status.lastErrorMessage = was.lastErrorMessage
       /\ status.lastAppliedTag = was.lastAppliedTag
    \/ /\ call.pc \in Failing
       /\ status.phase = "Failed" /\ status.lastErrorMessage # "none"
       /\ status.lastAppliedTag = was.lastAppliedTag
    \/ /\ call.pc \in {"registryRetry", "noTags", "claim"}
       /\ status.phase = "Syncing" /\ status.lastErrorMessage = "none"
       /\ call.pc = "registryRetry" => status.lastAppliedTag = ErrorText
       /\ call.pc = "noTags" => status.lastAppliedTag = was.lastAppliedTag
       /\ call.pc = "claim" /\ call.tag # NoTag =>
             status.lastAppliedTag = call.tag
    \/ /\ call.pc \in {"alreadyApplied", "recordSuccess"}
       /\ status.phase = "Synced" /\ status.lastErrorMessage = "none"
       /\ status.lastAppliedTag = call.tag

\* The write that call is about to make stores bundle and goes on at next.
Written(call, bundle, next) ==
    LET old == call.bundle
        was == old.status
        status == bundle.status
    IN  /\ bundle.spec = old.spec /\ bundle.deleting = old.deleting
        /\ bundle.exists <=> old.exists /\ call.pc # "removeFinalizer"
        /\ bundle.finalizer <=>
              \/ old.finalizer /\ call.pc # "removeFinalizer"
              \/ call.pc = "addFinalizer"
        /\ Reported(call, status)
        /\ status.consecutiveFailures = was.consecutiveFailures
        /\ status.lastJobLogs = was.lastJobLogs
        /\ status.activeJobName = IF call.pc = "trackJob" THEN call.job
                                                          ELSE was.activeJobName
        /\ status.lastJobStatus = IF call.pc = "trackJob" THEN "Running"
                                                          ELSE was.lastJobStatus
        /\ \/ next \in Outcomes
           \/ call.pc = "addFinalizer" /\ next = AfterFinalizer(bundle)
           \/ call.pc = "resolveNamespace" /\ next = AfterNamespace(bundle)
           \/ call.pc = "claim" /\ next = "build"

LEMMA WrittenStatus ==
    ASSUME NEW call \in Call, NEW status \in Status, NEW next,
           call.pc \notin {"removeFinalizer", "addFinalizer"},
           Reported(call, status),
           status.consecutiveFailures = call.bundle.status.consecutiveFailures,
           status.lastJobLogs = call.bundle.status.lastJobLogs,
           status.activeJobName =
             IF call.pc = "trackJob" THEN call.job
                                     ELSE call.bundle.status.activeJobName,
           status.lastJobStatus =
             IF call.pc = "trackJob" THEN "Running"
                                     ELSE call.bundle.status.lastJobStatus,
           \/ next \in Outcomes
           \/ call.pc = "resolveNamespace" /\ next = AfterNamespace(call.bundle)
           \/ call.pc = "claim" /\ next = "build"
    PROVE  LET bundle == [call.bundle EXCEPT !.status = status]
           IN  bundle \in Bundle /\ Written(call, bundle, next)
  <1> DEFINE bundle == [call.bundle EXCEPT !.status = status]
  <1>1. call.bundle \in Bundle
    BY DEF Call
  <1>2. /\ bundle \in Bundle /\ bundle.status = status
        /\ bundle.spec = call.bundle.spec
        /\ bundle.deleting = call.bundle.deleting
        /\ bundle.exists = call.bundle.exists
        /\ bundle.finalizer = call.bundle.finalizer
    BY <1>1 DEF Bundle
  <1>3. AfterNamespace(bundle) = AfterNamespace(call.bundle)
    BY <1>2 DEF AfterNamespace
  <1> HIDE DEF bundle
  <1>4. Written(call, bundle, next)
    BY <1>2, <1>3 DEF Written
  <1> QED BY <1>2, <1>4 DEF bundle

Write(o) ==
    \/ RemoveFinalizer(o) \/ AddFinalizer(o) \/ RejectSpec(o)
    \/ ResolveNamespace(o) \/ RejectServiceAccount(o)
    \/ RegistryFailed(o) \/ RegistryRetry(o) \/ NoTags(o)
    \/ AlreadyApplied(o) \/ Claim(o) \/ BuildFailed(o)
    \/ CreateFailed(o) \/ TrackJob(o) \/ RecordSuccess(o)
    \/ RecordFailure(o)

\* Every write of Reconcile is in the table.
LEMMA WriteTable ==
    ASSUME TypeInv, NEW o \in Operators, Write(o)
    PROVE  \E bundle \in Bundle, next \in Plainly \union Outcomes,
              onError \in Outcomes :
              Written(op[o], bundle, next) /\ Update(o, bundle, next, onError)
  <1> DEFINE bundle == op[o].bundle
             status == bundle.status
             Stores(st, next) ==
               /\ st.consecutiveFailures = status.consecutiveFailures
               /\ st.lastJobLogs = status.lastJobLogs
               /\ st.activeJobName = IF op[o].pc = "trackJob" THEN op[o].job
                                     ELSE status.activeJobName
               /\ st.lastJobStatus = IF op[o].pc = "trackJob" THEN "Running"
                                     ELSE status.lastJobStatus
               /\ \/ next \in Outcomes
                  \/ /\ op[o].pc = "resolveNamespace"
                     /\ next = AfterNamespace(bundle)
                  \/ op[o].pc = "claim" /\ next = "build"
             Goal == \E b \in Bundle, next \in Plainly \union Outcomes,
                        onError \in Outcomes :
                       Written(op[o], b, next) /\ Update(o, b, next, onError)
  <1>0. /\ op[o] \in Call /\ bundle \in Bundle /\ status \in Status
        /\ op[o].tag \in Tags \union {NoTag, ErrorText}
        /\ op[o].job \in JobNames \union {NoJob}
        /\ "done" \in Outcomes /\ "requeue" \in Outcomes
        /\ PollAgain(bundle.spec) \in Outcomes
        /\ \A b \in Bundle : /\ AfterNamespace(b) \in Plainly
                             /\ AfterFinalizer(b) \in Plainly
    BY CallType, NextLabels DEF Outcomes
  <1>s. ASSUME NEW st \in Status, NEW next \in Plainly \union Outcomes,
               Stores(st, next),
               Reported(op[o], st), NEW onError \in Outcomes,
               Update(o, [bundle EXCEPT !.status = st], next, onError),
               op[o].pc \notin {"removeFinalizer", "addFinalizer"}
        PROVE  Goal
    BY <1>0, <1>s, WrittenStatus
  <1>t. ASSUME NEW tag \in Tags \union {NoTag, ErrorText}
        PROVE  LET st == updateStatusSyncing(status, tag)
               IN  /\ st \in Status
                   /\ st.phase = "Syncing" /\ st.lastErrorMessage = "none"
                   /\ st.lastAppliedTag =
                        IF tag = NoTag THEN status.lastAppliedTag ELSE tag
                   /\ st.consecutiveFailures = status.consecutiveFailures
                   /\ st.lastJobLogs = status.lastJobLogs
                   /\ st.activeJobName = status.activeJobName
                   /\ st.lastJobStatus = status.lastJobStatus
    <2>1. /\ updateStatusSyncing(status, tag) \in Status
          /\ updateStatusFailed(status, "none") \in Status
      BY <1>0, StatusType DEF Causes
    <2> QED BY <1>0, <2>1 DEF updateStatusSyncing, Status
  <1>y. LET st == updateStatusSynced(status, op[o].tag)
        IN  /\ st \in Status
            /\ st.phase = "Synced" /\ st.lastErrorMessage = "none"
            /\ st.lastAppliedTag = op[o].tag
            /\ st.consecutiveFailures = status.consecutiveFailures
            /\ st.lastJobLogs = status.lastJobLogs
            /\ st.activeJobName = status.activeJobName
            /\ st.lastJobStatus = status.lastJobStatus
    <2>1. /\ updateStatusSynced(status, op[o].tag) \in Status
          /\ updateStatusFailed(status, "none") \in Status
      BY <1>0, StatusType DEF Causes
    <2> QED BY <1>0, <2>1 DEF updateStatusSynced, Status
  <1>f. ASSUME NEW cause \in Causes \ {"none"}
        PROVE  LET st == updateStatusFailed(status, cause)
               IN  /\ st \in Status
                   /\ st.phase = "Failed" /\ st.lastErrorMessage # "none"
                   /\ st.lastAppliedTag = status.lastAppliedTag
                   /\ st.consecutiveFailures = status.consecutiveFailures
                   /\ st.lastJobLogs = status.lastJobLogs
                   /\ st.activeJobName = status.activeJobName
                   /\ st.lastJobStatus = status.lastJobStatus
    BY <1>0 DEF updateStatusFailed, Status, Phases
  <1>1. CASE RemoveFinalizer(o)
    <2> DEFINE b == [bundle EXCEPT !.finalizer = FALSE, !.exists = FALSE]
    <2>1. /\ b \in Bundle /\ b.status = status /\ b.spec = bundle.spec
          /\ b.deleting = bundle.deleting /\ ~b.exists /\ ~b.finalizer
      BY <1>0 DEF Bundle
    <2>2. Update(o, b, "done", "requeue") /\ op[o].pc = "removeFinalizer"
      BY <1>1 DEF RemoveFinalizer
    <2> HIDE DEF b
    <2>3. Written(op[o], b, "done")
      BY <1>0, <2>1, <2>2 DEF Written, Reported, Plain
    <2> QED BY <1>0, <2>1, <2>2, <2>3
  <1>2. CASE AddFinalizer(o)
    <2> DEFINE b == [bundle EXCEPT !.finalizer = TRUE]
    <2>1. /\ b \in Bundle /\ b.status = status /\ b.spec = bundle.spec
          /\ b.deleting = bundle.deleting /\ b.exists = bundle.exists
          /\ b.finalizer
      BY <1>0 DEF Bundle
    <2>2. /\ Update(o, b, AfterFinalizer(b), "requeue")
          /\ op[o].pc = "addFinalizer"
      BY <1>2 DEF AddFinalizer
    <2> HIDE DEF b
    <2>3. Written(op[o], b, AfterFinalizer(b))
      BY <1>0, <2>1, <2>2 DEF Written, Reported, Plain
    <2> QED BY <1>0, <2>1, <2>2, <2>3
  <1>3. CASE RejectSpec(o) \/ RegistryFailed(o) \/ BuildFailed(o)
             \/ CreateFailed(o) \/ RecordFailure(o)
    <2>1. PICK cause \in Causes \ {"none"} :
             UpdateStatus(o, updateStatusFailed(status, cause), "done")
      BY <1>3 DEF RejectSpec, RegistryFailed, BuildFailed, CreateFailed,
                  RecordFailure, Causes
    <2>2. op[o].pc \in Failing
      BY <1>3 DEF RejectSpec, RegistryFailed, BuildFailed, CreateFailed,
                  RecordFailure, Failing
    <2> DEFINE st == updateStatusFailed(status, cause)
    <2>3. st \in Status /\ Stores(st, "done") /\ Reported(op[o], st)
      BY <1>0, <1>f, <2>2 DEF Reported, Failing
    <2> QED BY <1>0, <1>s, <2>1, <2>2, <2>3 DEF UpdateStatus, Failing
  <1>4. CASE RejectServiceAccount(o)
    <2> DEFINE st == updateStatusFailed(status, "serviceAccount")
    <2>1. Update(o, [bundle EXCEPT !.status = st], "done", "done")
          /\ op[o].pc = "rejectServiceAccount"
      BY <1>4 DEF RejectServiceAccount
    <2>2. st \in Status /\ Stores(st, "done") /\ Reported(op[o], st)
      BY <1>0, <1>f, <2>1 DEF Reported, Failing, Causes
    <2> QED BY <1>0, <1>s, <2>1, <2>2
  <1>5. CASE ResolveNamespace(o)
    <2> DEFINE st == [status EXCEPT !.resolvedTargetNamespace =
                        GetTargetNamespace(bundle.spec)]
               next == AfterNamespace(bundle)
    <2>1. Update(o, [bundle EXCEPT !.status = st], next, "requeue")
          /\ op[o].pc = "resolveNamespace"
      BY <1>5 DEF ResolveNamespace, UpdateStatus
    <2>2. /\ st \in Status
          /\ st.phase = status.phase
          /\ st.lastErrorMessage = status.lastErrorMessage
          /\ st.lastAppliedTag = status.lastAppliedTag
          /\ st.consecutiveFailures = status.consecutiveFailures
          /\ st.lastJobLogs = status.lastJobLogs
          /\ st.activeJobName = status.activeJobName
          /\ st.lastJobStatus = status.lastJobStatus
      BY <1>0, TargetType DEF Status
    <2> HIDE DEF st
    <2>3. Stores(st, next) /\ Reported(op[o], st)
      BY <2>1, <2>2 DEF Reported, Plain
    <2> QED BY <1>0, <1>s, <2>1, <2>2, <2>3
  <1>6. CASE RegistryRetry(o) \/ NoTags(o) \/ Claim(o)
    <2>1. PICK tag \in Tags \union {NoTag, ErrorText},
                  next \in Plainly \union Outcomes :
             /\ UpdateStatus(o, updateStatusSyncing(status, tag), next)
             /\ op[o].pc = "registryRetry" => tag = ErrorText
             /\ op[o].pc = "noTags" => tag = NoTag
             /\ op[o].pc = "claim" => tag = op[o].tag
             /\ op[o].pc \in {"registryRetry", "noTags", "claim"}
             /\ next \in Outcomes \/ (op[o].pc = "claim" /\ next = "build")
      <3>1. CASE RegistryRetry(o)
        BY <1>0, <3>1 DEF RegistryRetry
      <3>2. CASE NoTags(o)
        BY <1>0, <3>2 DEF NoTags
      <3>3. CASE Claim(o)
        BY <1>0, <3>3 DEF Claim, Plainly, Labels
      <3> QED BY <1>6, <3>1, <3>2, <3>3
    <2> DEFINE st == updateStatusSyncing(status, tag)
    <2>2. st \in Status /\ Stores(st, next)
      BY <1>t, <2>1
    <2>3. Reported(op[o], st)
      BY <1>t, <2>1 DEF Reported, NoTag, ErrorText
    <2> QED BY <1>0, <1>s, <2>1, <2>2, <2>3 DEF UpdateStatus
  <1>7. CASE AlreadyApplied(o) \/ RecordSuccess(o)
    <2> DEFINE st == updateStatusSynced(status, op[o].tag)
    <2>1. UpdateStatus(o, st, "done")
          /\ op[o].pc \in {"alreadyApplied", "recordSuccess"}
      BY <1>7 DEF AlreadyApplied, RecordSuccess
    <2>2. st \in Status /\ Stores(st, "done") /\ Reported(op[o], st)
      BY <1>0, <1>y, <2>1 DEF Reported
    <2> QED BY <1>0, <1>s, <2>1, <2>2 DEF UpdateStatus
  <1>8. CASE TrackJob(o)
    <2> DEFINE st == [status EXCEPT !.activeJobName = op[o].job,
                                    !.lastJobStatus = "Running"]
    <2>1. Update(o, [bundle EXCEPT !.status = st], "requeue", "requeue")
          /\ op[o].pc = "trackJob"
      BY <1>8 DEF TrackJob, UpdateStatus
    <2>2. /\ st \in Status
          /\ st.phase = status.phase
          /\ st.lastErrorMessage = status.lastErrorMessage
          /\ st.lastAppliedTag = status.lastAppliedTag
          /\ st.consecutiveFailures = status.consecutiveFailures
          /\ st.lastJobLogs = status.lastJobLogs
          /\ st.activeJobName = op[o].job
          /\ st.lastJobStatus = "Running"
      BY <1>0 DEF Status
    <2> HIDE DEF st
    <2>3. Stores(st, "requeue") /\ Reported(op[o], st)
      BY <1>0, <2>1, <2>2 DEF Reported, Plain
    <2> QED BY <1>0, <1>s, <2>1, <2>2, <2>3
  <1> QED BY <1>1, <1>2, <1>3, <1>4, <1>5, <1>6, <1>7, <1>8 DEF Write

\* A write is refused or lost and the call ends, or the bundle is stored.
LEMMA WriteEffect ==
    ASSUME TypeInv, NEW o \in Operators, Write(o)
    PROVE  /\ UNCHANGED cluster
           /\ \/ /\ op' = [op EXCEPT ![o] = Idle]
                 /\ UNCHANGED <<api, jobs, informer>>
              \/ \E bundle \in Bundle, next \in Plainly \union Outcomes :
                    Written(op[o], bundle, next) /\ Persist(o, bundle, next)
  <1>1. PICK bundle \in Bundle, next \in Plainly \union Outcomes,
             onError \in Outcomes :
           Written(op[o], bundle, next) /\ Update(o, bundle, next, onError)
    BY WriteTable
  <1>2. Written(op[o], bundle, onError)
    BY <1>1 DEF Written
  <1>3. \/ Persist(o, bundle, next) \/ Persist(o, bundle, onError)
        \/ Return(o, onError) /\ UNCHANGED <<api, informer, jobs>>
    BY <1>1 DEF Update, Abandon
  <1>4. UNCHANGED cluster
    BY <1>1 DEF Update
  <1> QED BY <1>1, <1>2, <1>3, <1>4 DEF Return

\* What a stored bundle changes for everybody.
LEMMA PersistEffect ==
    ASSUME TypeInv, NEW o \in Operators, NEW bundle, NEW next,
           Persist(o, bundle, next)
    PROVE  /\ op[o].fresh /\ api' = bundle
           /\ \A p \in Operators : informer'[p].bundle = informer[p].bundle
           /\ \A p \in Operators \ {o} :
                 /\ ~op'[p].fresh /\ op'[p].pc = op[p].pc
                 /\ op'[p].bundle = op[p].bundle
                 /\ op'[p].tag = op[p].tag /\ op'[p].job = op[p].job
           /\ \A j \in JobNames : /\ jobs'[j].outcome = jobs[j].outcome
                                   /\ jobs'[j].present = jobs[j].present
                                   /\ jobs'[j].tag = jobs[j].tag
                                   /\ jobs'[j].spec = jobs[j].spec
           /\ next \in Outcomes => op'[o] = Idle
           /\ next \notin Outcomes =>
                 /\ op'[o].pc = next /\ op'[o].bundle = bundle
                 /\ op'[o].tag = op[o].tag /\ op'[o].job = op[o].job
                 /\ op'[o].fresh
  <1>1. op[o].fresh /\ api' = bundle
    BY DEF Persist
  <1>2. \A p \in Operators : informer'[p].bundle = informer[p].bundle
    BY DEF Persist, TypeInv, TypeOK, Cache
  <1>3. \A p \in Operators \ {o} :
           /\ ~op'[p].fresh /\ op'[p].pc = op[p].pc
           /\ op'[p].bundle = op[p].bundle
           /\ op'[p].tag = op[p].tag /\ op'[p].job = op[p].job
    BY DEF Persist, TypeInv, TypeOK, Call
  <1>4. \A j \in JobNames : /\ jobs'[j].outcome = jobs[j].outcome
                            /\ jobs'[j].present = jobs[j].present
                            /\ jobs'[j].tag = jobs[j].tag
                            /\ jobs'[j].spec = jobs[j].spec
    BY DEF Persist, TypeInv, TypeOK, Job
  <1>5. next \in Outcomes => op'[o] = Idle
    BY DEF Persist
  <1>6. next \notin Outcomes =>
           /\ op'[o].pc = next /\ op'[o].bundle = bundle
           /\ op'[o].tag = op[o].tag /\ op'[o].job = op[o].job
           /\ op'[o].fresh
    BY <1>1, CallType DEF Persist, Call
  <1> QED BY <1>1, <1>2, <1>3, <1>4, <1>5, <1>6

-----------------------------------------------------------------------------
\* The labels a call moves between without a write.
Moves(old, new) ==
    \/ old = "checkServiceAccount" /\ new \in {"poll", "rejectServiceAccount"}
    \/ /\ old = "poll"
       /\ new \in {"registryFailed", "registryRetry", "noTags",
                   "alreadyApplied", "getActiveJob", "claim"}
    \/ old = "getActiveJob" /\ new \in {"claim", "captureLogs"}
    \/ old = "build" /\ new \in {"createJob", "buildFailed"}
    \/ old = "createJob" /\ new \in {"createFailed", "trackJob"}
    \/ old = "captureLogs" /\ new \in {"recordSuccess", "recordFailure"}

Found == {"alreadyApplied", "getActiveJob", "claim"}

\* The poll found tag, the latest, and the call goes on at pc.
PollFound(o, pc, tag) ==
    LET tags == registry.tags[op[o].bundle.spec.url]
        status == op[o].bundle.status
    IN  /\ tag \in tags /\ \A t \in tags : t <= tag
        /\ pc = IF status.lastAppliedTag = tag THEN "alreadyApplied"
                ELSE IF status.activeJobName # NoJob THEN "getActiveJob"
                ELSE "claim"

\* The active Job has finished, the way the call has written down.
JobSeen(o, call) ==
    /\ call.job = op[o].bundle.status.activeJobName
    /\ call.job # NoJob
    /\ \/ /\ Lookup(o) = "succeeded"
          /\ call.bundle.status.lastJobStatus = "Succeeded"
       \/ /\ Lookup(o) = "failed"
          /\ call.bundle.status.lastJobStatus = "Failed"

\* Logs are referred to after they were stored, or not at all.
LogsKept(o, call) ==
    LET logs == call.bundle.status.lastJobLogs IN
    \/ logs = op[o].bundle.status.lastJobLogs /\ UNCHANGED configMaps
    \/ logs.job = op[o].job /\ ~logs.inConfigMap /\ UNCHANGED configMaps
    \/ logs.job = op[o].job /\ configMaps' = configMaps \union {op[o].job}

\* A Job was created, or none.
JobStored(o, call) ==
    \/ UNCHANGED jobs /\ call.pc = "createFailed"
    \/ \E j \in JobNames :
          /\ Accepted(op[o].bundle.spec, op[o].tag)
          /\ jobs[j].outcome = "unused"
          /\ jobs' = [jobs EXCEPT ![j] = NewJob(o)]
          /\ call.pc = "trackJob" => call.job = j

\* The call of o becomes call by a step that writes nothing to the bundle.
Moved(o, call) ==
    LET pc == op[o].pc
        old == op[o].bundle
        was == old.status
        status == call.bundle.status
    IN  /\ Moves(pc, call.pc) /\ call.fresh = op[o].fresh
        /\ call.bundle.exists = old.exists
        /\ call.bundle.deleting = old.deleting
        /\ call.bundle.finalizer = old.finalizer
        /\ call.bundle.spec = old.spec
        /\ status.phase = was.phase
        /\ status.lastErrorMessage = was.lastErrorMessage
        /\ status.lastAppliedTag = was.lastAppliedTag
        /\ status.consecutiveFailures =
              IF pc # "poll" THEN was.consecutiveFailures
              ELSE IF call.pc \in {"registryFailed", "registryRetry"}
              THEN was.consecutiveFailures + 1 ELSE 0
        /\ call.pc = "registryRetry" =>
              status.consecutiveFailures <= MaxConsecutiveFailures
        /\ IF call.pc \in Found /\ pc = "poll"
           THEN PollFound(o, call.pc, call.tag) ELSE call.tag = op[o].tag
        /\ status.activeJobName =
              IF pc = "getActiveJob" THEN NoJob ELSE was.activeJobName
        /\ IF call.pc = "captureLogs" THEN JobSeen(o, call)
           ELSE status.lastJobStatus = was.lastJobStatus
        /\ pc = "getActiveJob" /\ call.pc = "claim" => Lookup(o) = "absent"
        /\ IF pc = "captureLogs" THEN LogsKept(o, call)
           ELSE status.lastJobLogs = was.lastJobLogs /\ UNCHANGED configMaps
        /\ IF pc = "createJob" THEN JobStored(o, call) ELSE UNCHANGED jobs
        /\ call.pc = "createJob" => ~jobNamePanics(op[o].tag)
                                    /\ ~getResourceLimitPanics(old.spec)
        /\ call.pc \in {"recordSuccess", "recordFailure"} =>
              call.pc = RecordStep(was) /\ call.job = op[o].job

Local(o) ==
    \/ CheckServiceAccount(o) \/ PollFails(o) \/ PollNotModified(o)
    \/ PollFindsNoTags(o) \/ (\E latestTag \in Tags : PollFindsTag(o, latestTag))
    \/ GetActiveJob(o) \/ Build(o) \/ CreateJob(o) \/ CaptureLogs(o)

\* A move that keeps the Jobs, the tag and the logs.
LEMMA PlainMove ==
    ASSUME TypeInv, NEW o \in Operators, NEW pc, NEW bundle \in Bundle,
           Goto(o, pc, bundle), UNCHANGED <<jobs, configMaps>>,
           Moves(op[o].pc, pc),
           op[o].pc \notin {"createJob", "captureLogs"}, pc \notin
             {"captureLogs", "createJob"}, ~(pc \in Found /\ op[o].pc = "poll"),
           bundle.exists = op[o].bundle.exists,
           bundle.deleting = op[o].bundle.deleting,
           bundle.finalizer = op[o].bundle.finalizer,
           bundle.spec = op[o].bundle.spec,
           bundle.status.phase = op[o].bundle.status.phase,
           bundle.status.lastErrorMessage = op[o].bundle.status.lastErrorMessage,
           bundle.status.lastAppliedTag = op[o].bundle.status.lastAppliedTag,
           bundle.status.lastJobStatus = op[o].bundle.status.lastJobStatus,
           bundle.status.lastJobLogs = op[o].bundle.status.lastJobLogs,
           bundle.status.activeJobName =
             IF op[o].pc = "getActiveJob" THEN NoJob
             ELSE op[o].bundle.status.activeJobName,
           bundle.status.consecutiveFailures =
             IF op[o].pc # "poll" THEN op[o].bundle.status.consecutiveFailures
             ELSE IF pc \in {"registryFailed", "registryRetry"}
             THEN op[o].bundle.status.consecutiveFailures + 1 ELSE 0,
           pc = "registryRetry" =>
             bundle.status.consecutiveFailures <= MaxConsecutiveFailures,
           op[o].pc = "getActiveJob" => Lookup(o) = "absent"
    PROVE  \E call : op' = [op EXCEPT ![o] = call] /\ Moved(o, call)
  <1> DEFINE call == [op[o] EXCEPT !.pc = pc, !.bundle = bundle]
  <1>1. op' = [op EXCEPT ![o] = call]
    BY DEF Goto
  <1>2. /\ call.pc = pc /\ call.bundle = bundle /\ call.tag = op[o].tag
        /\ call.fresh = op[o].fresh /\ call.job = op[o].job
    BY CallType DEF Call
  <1> HIDE DEF call
  <1>3. pc \notin {"recordSuccess", "recordFailure"}
    BY DEF Moves
  <1>4. Moved(o, call)
    BY <1>2, <1>3 DEF Moved
  <1> QED BY <1>1, <1>4

\* Every step of Reconcile that writes nothing to the bundle is in the table.
LEMMA LocalTable ==
    ASSUME TypeInv, NEW o \in Operators, Local(o)
    PROVE  /\ UNCHANGED <<api, informer, serviceAccounts, registry, seen>>
           /\ \/ /\ op' = [op EXCEPT ![o] = Idle]
                 /\ UNCHANGED <<jobs, configMaps>>
              \/ \E call : op' = [op EXCEPT ![o] = call] /\ Moved(o, call)
  <1> DEFINE bundle == op[o].bundle
             status == bundle.status
             Ended == /\ op' = [op EXCEPT ![o] = Idle]
                      /\ UNCHANGED <<jobs, configMaps>>
             Went == \E call : op' = [op EXCEPT ![o] = call] /\ Moved(o, call)
  <1>0. /\ op[o] \in Call /\ bundle \in Bundle /\ status \in Status
        /\ op[o].tag \in Tags \union {NoTag, ErrorText}
        /\ op[o].job \in JobNames \union {NoJob}
    BY CallType
  <1>u. UNCHANGED <<api, informer, serviceAccounts, registry, seen>>
    BY DEF Local, CheckServiceAccount, PollFails, PollNotModified,
           PollFindsNoTags, PollFindsTag, GetActiveJob, Build, CreateJob,
           CaptureLogs, cluster
  <1>1. CASE CheckServiceAccount(o)
    <2>1. /\ op[o].pc = "checkServiceAccount" /\ UNCHANGED <<jobs, configMaps>>
          /\ \/ Goto(o, "poll", bundle)
             \/ Goto(o, "rejectServiceAccount", bundle)
      BY <1>1 DEF CheckServiceAccount, cluster
    <2>2. Went
      BY <1>0, <2>1, PlainMove DEF Moves
    <2> QED BY <1>u, <2>2
  <1>2. CASE PollFails(o)
    <2> DEFINE failed == [bundle EXCEPT !.status.consecutiveFailures = @ + 1]
               pc == IF failed.status.consecutiveFailures
                          > MaxConsecutiveFailures
                     THEN "registryFailed" ELSE "registryRetry"
    <2>1. /\ failed \in Bundle /\ failed.exists = bundle.exists
          /\ failed.deleting = bundle.deleting
          /\ failed.finalizer = bundle.finalizer /\ failed.spec = bundle.spec
          /\ failed.status = [status EXCEPT !.consecutiveFailures = @ + 1]
      BY <1>0 DEF Bundle, Status
    <2>2. /\ failed.status.phase = status.phase
          /\ failed.status.lastErrorMessage = status.lastErrorMessage
          /\ failed.status.lastAppliedTag = status.lastAppliedTag
          /\ failed.status.lastJobStatus = status.lastJobStatus
          /\ failed.status.lastJobLogs = status.lastJobLogs
          /\ failed.status.activeJobName = status.activeJobName
          /\ failed.status.consecutiveFailures = status.consecutiveFailures + 1
          /\ status.consecutiveFailures \in Nat
      BY <1>0, <2>1 DEF Status
    <2>3. /\ op[o].pc = "poll" /\ UNCHANGED <<jobs, configMaps>>
          /\ Goto(o, pc, failed)
      BY <1>2 DEF PollFails, cluster
    <2> HIDE DEF failed
    <2>4. /\ pc \in {"registryFailed", "registryRetry"}
          /\ pc = "registryRetry" =>
                failed.status.consecutiveFailures <= MaxConsecutiveFailures
      BY <2>2, FailuresAssumption
    <2> HIDE DEF pc
    <2>5. Moves(op[o].pc, pc) /\ pc \notin Found
      BY <2>3, <2>4 DEF Moves, Found
    <2>6. pc \notin {"captureLogs", "createJob"}
      BY <2>4
    <2>7. Went
      BY <1>0, <2>1, <2>2, <2>3, <2>4, <2>5, <2>6, PlainMove
    <2> QED BY <1>u, <2>7
  <1>3. CASE PollNotModified(o)
    BY <1>u, <1>3 DEF PollNotModified, Return, cluster
  <1>p. LET st == Polled(bundle)
            polled == [bundle EXCEPT !.status = st]
        IN  /\ polled \in Bundle /\ polled.status = st
            /\ polled.exists = bundle.exists
            /\ polled.deleting = bundle.deleting
            /\ polled.finalizer = bundle.finalizer
            /\ polled.spec = bundle.spec
            /\ st.phase = status.phase
            /\ st.lastErrorMessage = status.lastErrorMessage
            /\ st.lastAppliedTag = status.lastAppliedTag
            /\ st.lastJobStatus = status.lastJobStatus
            /\ st.lastJobLogs = status.lastJobLogs
            /\ st.activeJobName = status.activeJobName
            /\ st.consecutiveFailures = 0
    <2>1. Polled(bundle) \in Status
      BY <1>0, PolledType
    <2>2. LET polled == [bundle EXCEPT !.status = Polled(bundle)]
          IN  /\ polled \in Bundle /\ polled.status = Polled(bundle)
              /\ polled.exists = bundle.exists
              /\ polled.deleting = bundle.deleting
              /\ polled.finalizer = bundle.finalizer
              /\ polled.spec = bundle.spec
      BY <1>0, <2>1 DEF Bundle
    <2>3. LET st == Polled(bundle)
          IN  /\ st.phase = status.phase
              /\ st.lastErrorMessage = status.lastErrorMessage
              /\ st.lastAppliedTag = status.lastAppliedTag
              /\ st.lastJobStatus = status.lastJobStatus
              /\ st.lastJobLogs = status.lastJobLogs
              /\ st.activeJobName = status.activeJobName
              /\ st.consecutiveFailures = 0
      BY <1>0 DEF Polled, Status
    <2> QED BY <2>2, <2>3
  <1>4. CASE PollFindsNoTags(o)
    <2> DEFINE polled == [bundle EXCEPT !.status = Polled(bundle)]
    <2>1. /\ op[o].pc = "poll" /\ UNCHANGED <<jobs, configMaps>>
          /\ \/ Goto(o, "noTags", polled)
             \/ Return(o, PollAgain(bundle.spec))
      BY <1>4 DEF PollFindsNoTags, cluster
    <2>2. CASE Goto(o, "noTags", polled)
      <3>1. /\ polled \in Bundle /\ polled.exists = bundle.exists
            /\ polled.deleting = bundle.deleting
            /\ polled.finalizer = bundle.finalizer
            /\ polled.spec = bundle.spec
            /\ polled.status.phase = status.phase
            /\ polled.status.lastErrorMessage = status.lastErrorMessage
            /\ polled.status.lastAppliedTag = status.lastAppliedTag
            /\ polled.status.lastJobStatus = status.lastJobStatus
            /\ polled.status.lastJobLogs = status.lastJobLogs
            /\ polled.status.activeJobName = status.activeJobName
            /\ polled.status.consecutiveFailures = 0
        BY <1>p
      <3> HIDE DEF polled
      <3>2. Went
        BY <1>0, <2>1, <2>2, <3>1, PlainMove DEF Moves, Found
      <3> QED BY <1>u, <3>2
    <2> QED BY <1>u, <2>1, <2>2 DEF Return
  <1>5. ASSUME NEW latestTag \in Tags, PollFindsTag(o, latestTag)
        PROVE  Ended \/ Went
    <2> DEFINE call == TagFound(op[o], latestTag)
    <2>1. /\ op[o].pc = "poll" /\ UNCHANGED <<jobs, configMaps>>
          /\ latestTag \in registry.tags[bundle.spec.url]
          /\ \A t \in registry.tags[bundle.spec.url] : t <= latestTag
          /\ Return(o, "done") \/ op' = [op EXCEPT ![o] = call]
      BY <1>5 DEF PollFindsTag, cluster
    <2>2. /\ call.fresh = op[o].fresh /\ call.tag = latestTag
          /\ call.bundle = [bundle EXCEPT !.status = Polled(bundle)]
          /\ call.pc = IF status.lastAppliedTag = latestTag
                       THEN "alreadyApplied"
                       ELSE IF status.activeJobName # NoJob
                       THEN "getActiveJob" ELSE "claim"
      BY <1>0 DEF TagFound, Call
    <2> HIDE DEF call
    <2>3. PollFound(o, call.pc, call.tag)
      BY <2>1, <2>2 DEF PollFound
    <2>4. Moved(o, call)
      BY <1>0, <1>p, <2>1, <2>2, <2>3 DEF Moved, Moves, Found
    <2> QED BY <2>1, <2>4 DEF Return
  <1>6. CASE GetActiveJob(o)
    <2>1. /\ op[o].pc = "getActiveJob" /\ UNCHANGED <<jobs, configMaps>>
          /\ status.activeJobName # NoJob
      BY <1>6 DEF GetActiveJob, cluster, TypeInv, Known
    <2>2. CASE Lookup(o) = "absent" /\ Goto(o, "claim", [bundle EXCEPT
                                             !.status.activeJobName = NoJob])
      <3> DEFINE cleared == [bundle EXCEPT !.status.activeJobName = NoJob]
      <3>1. /\ cleared \in Bundle /\ cleared.exists = bundle.exists
            /\ cleared.deleting = bundle.deleting
            /\ cleared.finalizer = bundle.finalizer
            /\ cleared.spec = bundle.spec
            /\ cleared.status = [status EXCEPT !.activeJobName = NoJob]
        BY <1>0 DEF Bundle, Status
      <3>2. /\ cleared.status.phase = status.phase
            /\ cleared.status.lastErrorMessage = status.lastErrorMessage
            /\ cleared.status.lastAppliedTag = status.lastAppliedTag
            /\ cleared.status.lastJobStatus = status.lastJobStatus
            /\ cleared.status.lastJobLogs = status.lastJobLogs
            /\ cleared.status.activeJobName = NoJob
            /\ cleared.status.consecutiveFailures = status.consecutiveFailures
        BY <1>0, <3>1 DEF Status
      <3>3. Goto(o, "claim", cleared)
        BY <2>2
      <3> HIDE DEF cleared
      <3>4. Went
        BY <1>0, <2>1, <2>2, <3>1, <3>2, <3>3, PlainMove DEF Moves
      <3> QED BY <1>u, <3>4
    <2>3. CASE Return(o, "requeue")
      BY <1>u, <2>1, <2>3 DEF Return
    <2>4. CASE /\ Lookup(o) \in {"succeeded", "failed"}
               /\ op' = [op EXCEPT ![o] = JobFinished(op[o], Lookup(o))]
      <3> DEFINE st == [status EXCEPT
                     !.activeJobName = NoJob,
                     !.lastJobStatus = IF Lookup(o) = "succeeded"
                                       THEN "Succeeded" ELSE "Failed"]
                 b == [bundle EXCEPT !.status = st]
                 call == JobFinished(op[o], Lookup(o))
      <3>1. /\ st \in Status /\ st.phase = status.phase
            /\ st.lastErrorMessage = status.lastErrorMessage
            /\ st.lastAppliedTag = status.lastAppliedTag
            /\ st.lastJobLogs = status.lastJobLogs
            /\ st.activeJobName = NoJob
            /\ st.consecutiveFailures = status.consecutiveFailures
            /\ st.lastJobStatus = IF Lookup(o) = "succeeded"
                                  THEN "Succeeded" ELSE "Failed"
        BY <1>0 DEF Status
      <3> HIDE DEF st
      <3>2. /\ b.exists = bundle.exists /\ b.deleting = bundle.deleting
            /\ b.finalizer = bundle.finalizer /\ b.spec = bundle.spec
            /\ b.status = st
        BY <1>0, <3>1 DEF Bundle
      <3>3. call = [op[o] EXCEPT !.pc = "captureLogs",
                                 !.job = status.activeJobName, !.bundle = b]
        BY DEF JobFinished, st
      <3> HIDE DEF b
      <3>4. /\ call.fresh = op[o].fresh /\ call.tag = op[o].tag
            /\ call.pc = "captureLogs" /\ call.job = status.activeJobName
            /\ call.bundle = b
        BY <1>0, <3>3 DEF Call
      <3>5. op' = [op EXCEPT ![o] = call]
        BY <2>4
      <3> HIDE DEF call
      <3>6. JobSeen(o, call)
        BY <2>1, <2>4, <3>1, <3>2, <3>4 DEF JobSeen
      <3>7. Moved(o, call)
        BY <2>1, <3>1, <3>2, <3>4, <3>6 DEF Moved, Moves
      <3> QED BY <1>u, <3>5, <3>7
    <2> QED BY <1>6, <2>2, <2>3, <2>4 DEF GetActiveJob
  <1>7. CASE Build(o)
    <2>1. /\ op[o].pc = "build" /\ UNCHANGED <<jobs, configMaps>>
          /\ \/ Return(o, "requeue")
             \/ Goto(o, "buildFailed", bundle)
             \/ /\ Goto(o, "createJob", bundle)
                /\ ~jobNamePanics(op[o].tag)
                /\ ~getResourceLimitPanics(bundle.spec)
      BY <1>7 DEF Build, cluster
    <2>2. CASE Goto(o, "buildFailed", bundle)
      <3>1. Went
        BY <1>0, <2>1, <2>2, PlainMove DEF Moves
      <3> QED BY <1>u, <3>1
    <2>3. CASE /\ Goto(o, "createJob", bundle)
               /\ ~jobNamePanics(op[o].tag)
               /\ ~getResourceLimitPanics(bundle.spec)
      <3> DEFINE call == [op[o] EXCEPT !.pc = "createJob", !.bundle = bundle]
      <3>1. op' = [op EXCEPT ![o] = call]
        BY <2>3 DEF Goto
      <3>2. /\ call.pc = "createJob" /\ call.bundle = bundle
            /\ call.tag = op[o].tag /\ call.fresh = op[o].fresh
        BY <1>0 DEF Call
      <3> HIDE DEF call
      <3>3. Moved(o, call)
        BY <2>1, <2>3, <3>2 DEF Moved, Moves
      <3> QED BY <1>u, <3>1, <3>3
    <2> QED BY <1>u, <2>1, <2>2, <2>3 DEF Return
  <1>8. CASE CreateJob(o)
    <2>0. op[o].pc = "createJob" /\ UNCHANGED configMaps
      BY <1>8 DEF CreateJob, cluster
    <2>1. ASSUME NEW call, op' = [op EXCEPT ![o] = call],
                 call.pc \in {"createFailed", "trackJob"},
                 call.bundle = bundle, call.tag = op[o].tag,
                 call.fresh = op[o].fresh, JobStored(o, call)
          PROVE  Went
      BY <2>0, <2>1 DEF Moved, Moves
    <2> DEFINE failed == [op[o] EXCEPT !.pc = "createFailed"]
    <2>2. /\ failed.pc = "createFailed" /\ failed.bundle = bundle
          /\ failed.tag = op[o].tag /\ failed.fresh = op[o].fresh
      BY <1>0 DEF Call
    <2>3. CASE UNCHANGED jobs /\ op' = [op EXCEPT ![o].pc = "createFailed"]
      <3>1. op' = [op EXCEPT ![o] = failed]
        BY <2>3
      <3> HIDE DEF failed
      <3> QED BY <1>u, <2>1, <2>2, <2>3, <3>1 DEF JobStored
    <2>4. ASSUME NEW j \in JobNames,
                 Accepted(bundle.spec, op[o].tag), jobs[j].outcome = "unused",
                 jobs' = [jobs EXCEPT ![j] = NewJob(o)],
                 \/ op' = [op EXCEPT ![o] = [@ EXCEPT !.pc = "trackJob",
                                                    !.job = j]]
                 \/ op' = [op EXCEPT ![o].pc = "createFailed"]
          PROVE  Went
      <3> DEFINE tracked == [op[o] EXCEPT !.pc = "trackJob", !.job = j]
      <3>1. /\ tracked.pc = "trackJob" /\ tracked.bundle = bundle
            /\ tracked.tag = op[o].tag /\ tracked.fresh = op[o].fresh
            /\ tracked.job = j
        BY <1>0 DEF Call
      <3>2. op' = [op EXCEPT ![o] = tracked] \/ op' = [op EXCEPT ![o] = failed]
        BY <2>4
      <3> HIDE DEF tracked, failed
      <3>3. CASE op' = [op EXCEPT ![o] = tracked]
        <4>1. JobStored(o, tracked)
          BY <2>4, <3>1 DEF JobStored
        <4> QED BY <2>1, <3>1, <3>3, <4>1
      <3>4. CASE op' = [op EXCEPT ![o] = failed]
        <4>1. JobStored(o, failed)
          BY <2>2, <2>4 DEF JobStored
        <4> QED BY <2>1, <2>2, <3>4, <4>1
      <3> QED BY <3>2, <3>3, <3>4
    <2> QED BY <1>u, <1>8, <2>3, <2>4 DEF CreateJob
  <1>9. CASE CaptureLogs(o)
    <2>0. op[o].pc = "captureLogs" /\ UNCHANGED jobs
      BY <1>9 DEF CaptureLogs
    <2>1. ASSUME NEW b, Goto(o, RecordStep(status), b),
                 b.exists = bundle.exists, b.deleting = bundle.deleting,
                 b.finalizer = bundle.finalizer, b.spec = bundle.spec,
                 b.status.phase = status.phase,
                 b.status.lastErrorMessage = status.lastErrorMessage,
                 b.status.lastAppliedTag = status.lastAppliedTag,
                 b.status.consecutiveFailures = status.consecutiveFailures,
                 b.status.activeJobName = status.activeJobName,
                 b.status.lastJobStatus = status.lastJobStatus,
                 \/ /\ b.status.lastJobLogs = status.lastJobLogs
                    /\ UNCHANGED configMaps
                 \/ /\ b.status.lastJobLogs.job = op[o].job
                    /\ ~b.status.lastJobLogs.inConfigMap
                    /\ UNCHANGED configMaps
                 \/ /\ b.status.lastJobLogs.job = op[o].job
                    /\ configMaps' = configMaps \union {op[o].job}
          PROVE  Went
      <3> DEFINE call == [op[o] EXCEPT !.pc = RecordStep(status), !.bundle = b]
      <3>1. op' = [op EXCEPT ![o] = call]
        BY <2>1 DEF Goto
      <3>2. /\ call.pc = RecordStep(status) /\ call.bundle = b
            /\ call.tag = op[o].tag /\ call.fresh = op[o].fresh
            /\ call.job = op[o].job
        BY <1>0 DEF Call
      <3> HIDE DEF call
      <3>3. call.pc \in {"recordSuccess", "recordFailure"}
        BY <3>2 DEF RecordStep
      <3>4. LogsKept(o, call)
        BY <2>1, <3>2 DEF LogsKept
      <3>5. Moved(o, call)
        BY <2>0, <2>1, <3>2, <3>3, <3>4 DEF Moved, Moves
      <3> QED BY <3>1, <3>5
    <2>2. ASSUME NEW in \in BOOLEAN
          PROVE  LET b == StatusLogs(o, in)
                 IN  /\ b.exists = bundle.exists
                     /\ b.deleting = bundle.deleting
                     /\ b.finalizer = bundle.finalizer /\ b.spec = bundle.spec
                     /\ b.status.phase = status.phase
                     /\ b.status.lastErrorMessage = status.lastErrorMessage
                     /\ b.status.lastAppliedTag = status.lastAppliedTag
                     /\ b.status.consecutiveFailures
                          = status.consecutiveFailures
                     /\ b.status.activeJobName = status.activeJobName
                     /\ b.status.lastJobStatus = status.lastJobStatus
                     /\ b.status.lastJobLogs.job = op[o].job
                     /\ b.status.lastJobLogs.inConfigMap = in
      BY <1>0 DEF StatusLogs, Bundle, Status
    <2>3. \/ Goto(o, RecordStep(status), StatusLogs(o, FALSE))
             /\ UNCHANGED configMaps
          \/ /\ configMaps' = configMaps \union {op[o].job}
             /\ Goto(o, RecordStep(status), StatusLogs(o, TRUE))
          \/ Goto(o, RecordStep(status), bundle) /\ UNCHANGED configMaps
      BY <1>9 DEF CaptureLogs
    <2>4. Went
      BY <2>1, <2>2, <2>3
    <2> QED BY <1>u, <2>4
  <1> QED BY <1>u, <1>1, <1>2, <1>3, <1>4, <1>5, <1>6, <1>7, <1>8, <1>9 DEF Local

\* A worker takes the key: the call starts from the cached bundle, or not.
LEMMA StartEffect ==
    ASSUME TypeInv, NEW o \in Operators, StartReconcile(o)
    PROVE  /\ UNCHANGED <<api, jobs, informer, faults, cluster>>
           /\ op[o].pc = "idle"
           /\ \/ op' = op
              \/ /\ \A p \in Operators \ {o} : op'[p] = op[p]
                 /\ informer[o].bundle.exists
                 /\ op'[o].pc = FirstStep(informer[o].bundle)
                 /\ op'[o].bundle = informer[o].bundle
                 /\ op'[o].fresh = informer[o].fresh
                 /\ op'[o].tag = op[o].tag /\ op'[o].job = op[o].job
  <1>1. op[o] \in Call
    BY CallType
  <1>2. /\ UNCHANGED <<api, jobs, informer, faults, cluster>>
        /\ op[o].pc = "idle"
    BY DEF StartReconcile
  <1>3. CASE op' = op
    BY <1>2, <1>3
  <1>4. CASE /\ informer[o].bundle.exists
             /\ op' = [op EXCEPT ![o] =
                         [@ EXCEPT !.pc = FirstStep(informer[o].bundle),
                                   !.bundle = informer[o].bundle,
                                   !.fresh = informer[o].fresh]]
    BY <1>1, <1>2, <1>4 DEF TypeInv, TypeOK, Call
  <1> QED BY <1>3, <1>4 DEF StartReconcile

\* The work queue, the caches and a restart.
Runtime(o) ==
    \/ TimerFires(o) \/ SyncInformer(o) \/ Crash(o)
    \/ \E j \in JobNames : SyncJob(o, j)

LEMMA RuntimeEffect ==
    ASSUME TypeInv, NEW o \in Operators, Runtime(o)
    PROVE  /\ UNCHANGED <<api, jobs, configMaps, registry>>
           /\ \A p \in Operators : op'[p] \in {op[p], Idle}
           /\ \A p \in Operators :
                 informer'[p].bundle \in {informer[p].bundle, api}
           /\ faults.happened \subseteq faults'.happened
  <1>1. CASE TimerFires(o) \/ \E j \in JobNames : SyncJob(o, j)
    BY <1>1 DEF TimerFires, SyncJob, cluster
  <1>2. CASE SyncInformer(o)
    BY <1>2 DEF SyncInformer, cluster, TypeInv, TypeOK
  <1>3. CASE Crash(o)
    BY <1>3 DEF Crash, Disrupt, TypeInv, TypeOK
  <1> QED BY <1>1, <1>2, <1>3 DEF Runtime

\* A user writes the bundle: every copy of it is stale.
LEMMA UserEffect ==
    ASSUME TypeInv, EditSpec \/ DeleteBundle
    PROVE  /\ UNCHANGED <<jobs, cluster>>
           /\ api.exists /\ api'.status = api.status
           /\ api'.finalizer = api.finalizer
           /\ api'.exists = api.exists \/ api'.exists = api.finalizer
           /\ \A p \in Operators : informer'[p].bundle = informer[p].bundle
           /\ \A p \in Operators :
                 /\ ~op'[p].fresh /\ op'[p].pc = op[p].pc
                 /\ op'[p].bundle = op[p].bundle
                 /\ op'[p].tag = op[p].tag /\ op'[p].job = op[p].job
           /\ faults.happened \subseteq faults'.happened
           /\ "edit" \in faults'.happened \/ "delete" \in faults'.happened
  <1>1. ASSUME NEW b, UserWrites(b), b.status = api.status,
               b.finalizer = api.finalizer,
               b.exists = api.exists \/ b.exists = api.finalizer
        PROVE  /\ UNCHANGED <<jobs, cluster>>
               /\ api.exists /\ api'.status = api.status
               /\ api'.finalizer = api.finalizer
               /\ api'.exists = api.exists \/ api'.exists = api.finalizer
               /\ \A p \in Operators : informer'[p].bundle = informer[p].bundle
               /\ \A p \in Operators :
                     /\ ~op'[p].fresh /\ op'[p].pc = op[p].pc
                     /\ op'[p].bundle = op[p].bundle
                     /\ op'[p].tag = op[p].tag /\ op'[p].job = op[p].job
    <2>1. \A p \in Operators : informer'[p].bundle = informer[p].bundle
      BY <1>1 DEF UserWrites, TypeInv, TypeOK, Cache
    <2>2. \A p \in Operators :
             /\ ~op'[p].fresh /\ op'[p].pc = op[p].pc
             /\ op'[p].bundle = op[p].bundle
             /\ op'[p].tag = op[p].tag /\ op'[p].job = op[p].job
      BY <1>1 DEF UserWrites, TypeInv, TypeOK, Call
    <2> QED BY <1>1, <2>1, <2>2 DEF UserWrites
  <1>2. /\ faults.happened \subseteq faults'.happened
        /\ "edit" \in faults'.happened \/ "delete" \in faults'.happened
    BY DEF EditSpec, DeleteBundle, Disrupt
  <1>3. CASE EditSpec
    <2>1. PICK spec : UserWrites([api EXCEPT !.spec = spec])
      BY <1>3 DEF EditSpec
    <2> DEFINE b == [api EXCEPT !.spec = spec]
    <2>2. /\ b.status = api.status /\ b.finalizer = api.finalizer
          /\ b.exists = api.exists
      BY DEF TypeInv, TypeOK, Bundle
    <2> HIDE DEF b
    <2> QED BY <1>1, <1>2, <2>1, <2>2 DEF b
  <1>4. CASE DeleteBundle
    <2> DEFINE b == [api EXCEPT !.deleting = TRUE, !.exists = api.finalizer]
    <2>1. UserWrites(b)
      BY <1>4 DEF DeleteBundle
    <2>2. /\ b.status = api.status /\ b.finalizer = api.finalizer
          /\ b.exists = api.finalizer
      BY DEF TypeInv, TypeOK, Bundle
    <2> HIDE DEF b
    <2> QED BY <1>1, <1>2, <2>1, <2>2
  <1> QED BY <1>3, <1>4

\* The Jobs only go forward.
JobsGrow ==
    \A j \in JobNames :
        \/ jobs'[j].outcome = jobs[j].outcome
        \/ jobs[j].outcome = "unused" /\ jobs'[j].outcome = "running"
        \/ /\ jobs[j].outcome = "running"
           /\ jobs'[j].outcome \in {"succeeded", "failed"}

\* The registry, the namespaces and the Jobs.
Outside ==
    \/ PushTag \/ WithdrawTag \/ RegistryFlips \/ ServiceAccountFlips
    \/ ConfigMapsCollected
    \/ \E j \in JobNames : JobFinishes(j) \/ JobRemoved(j)

LEMMA OutsideEffect ==
    ASSUME TypeInv, Outside
    PROVE  /\ UNCHANGED <<api, informer, seen, queue, op>>
           /\ JobsGrow
           /\ \A j \in JobNames : /\ jobs'[j].tag = jobs[j].tag
                                  /\ jobs'[j].spec = jobs[j].spec
                                  /\ jobs[j].outcome = "unused" =>
                                        jobs'[j].outcome = "unused"
                                  /\ jobs'[j].present => jobs[j].present
                                  /\ jobs'[j].outcome = "running" =>
                                        jobs[j].outcome = "running"
           /\ UNCHANGED configMaps \/ ~api.exists
           /\ faults.happened \subseteq faults'.happened
  <1> DEFINE JobsKept ==
               \A k \in JobNames : /\ jobs'[k].tag = jobs[k].tag
                                   /\ jobs'[k].spec = jobs[k].spec
                                   /\ jobs[k].outcome = "unused" =>
                                        jobs'[k].outcome = "unused"
                                   /\ jobs'[k].present => jobs[k].present
                                   /\ jobs'[k].outcome = "running" =>
                                        jobs[k].outcome = "running"
  <1>1. CASE PushTag \/ WithdrawTag \/ RegistryFlips \/ ServiceAccountFlips
             \/ ConfigMapsCollected
    BY <1>1 DEF PushTag, WithdrawTag, RegistryFlips, ServiceAccountFlips,
                ConfigMapsCollected, Disrupt, JobsGrow
  <1>2. ASSUME NEW j \in JobNames, JobFinishes(j)
        PROVE  JobsGrow /\ JobsKept
    <2>1. PICK outcome \in {"succeeded", "failed"} :
             jobs' = [jobs EXCEPT ![j].outcome = outcome]
      BY <1>2 DEF JobFinishes
    <2>2. jobs[j].outcome = "running"
      BY <1>2 DEF JobFinishes
    <2> QED BY <2>1, <2>2 DEF JobsGrow, TypeInv, TypeOK, Job
  <1>3. ASSUME NEW j \in JobNames, JobRemoved(j)
        PROVE  JobsGrow /\ JobsKept
    <2>1. jobs' = [jobs EXCEPT ![j].present = FALSE]
      BY <1>3 DEF JobRemoved
    <2> QED BY <2>1 DEF JobsGrow, TypeInv, TypeOK, Job
  <1>4. ASSUME NEW j \in JobNames, JobFinishes(j) \/ JobRemoved(j)
        PROVE  /\ UNCHANGED <<api, informer, seen, queue, op, configMaps>>
               /\ faults.happened \subseteq faults'.happened
    BY <1>4 DEF JobFinishes, JobRemoved, Disrupt, cluster
  <1> QED BY <1>1, <1>2, <1>3, <1>4 DEF Outside

\* The cases of a step.
LEMMA StepCases ==
    ASSUME [Next]_vars
    PROVE  \/ \E o \in Operators :
                 StartReconcile(o) \/ Write(o) \/ Local(o) \/ Runtime(o)
           \/ EditSpec \/ DeleteBundle \/ Outside
           \/ UNCHANGED vars
  <1>1. ASSUME NEW o \in Operators, Reconcile(o)
        PROVE  StartReconcile(o) \/ Write(o) \/ Local(o)
    BY <1>1 DEF Reconcile, Write, Local
  <1> QED BY <1>1 DEF Next, Runtime, Environment, Outside

\* No disruption is forgotten.
LEMMA FaultsGrow ==
    ASSUME [Next]_vars PROVE faults.happened \subseteq faults'.happened
  <1>1. ASSUME NEW kind, Disrupt(kind)
        PROVE  faults.happened \subseteq faults'.happened
    BY <1>1 DEF Disrupt
  <1>2. ASSUME NEW o, NEW b, NEW next, NEW onError, Update(o, b, next, onError)
        PROVE  faults.happened \subseteq faults'.happened
    BY <1>1, <1>2 DEF Update
  <1>3. ASSUME NEW o \in Operators, Write(o)
        PROVE  faults.happened \subseteq faults'.happened
    BY <1>2, <1>3
       DEF Write, RemoveFinalizer, AddFinalizer, RejectSpec, ResolveNamespace,
           RejectServiceAccount, RegistryFailed, RegistryRetry, NoTags,
           AlreadyApplied, Claim, BuildFailed, CreateFailed, TrackJob,
           RecordSuccess, RecordFailure, UpdateStatus
  <1>4. ASSUME NEW o \in Operators, StartReconcile(o) \/ Local(o) \/ Runtime(o)
        PROVE  faults.happened \subseteq faults'.happened
    BY <1>1, <1>4
       DEF StartReconcile, Local, CheckServiceAccount, PollFails,
           PollNotModified, PollFindsNoTags, PollFindsTag, GetActiveJob, Build,
           CreateJob, CaptureLogs, Runtime, TimerFires, SyncInformer, Crash,
           SyncJob
  <1>5. CASE EditSpec \/ DeleteBundle \/ Outside
    BY <1>1, <1>5
       DEF EditSpec, DeleteBundle, Outside, PushTag, WithdrawTag,
           RegistryFlips, ServiceAccountFlips, ConfigMapsCollected,
           JobFinishes, JobRemoved
  <1>6. CASE UNCHANGED vars
    BY <1>6 DEF vars
  <1> QED BY <1>3, <1>4, <1>5, <1>6, StepCases

-----------------------------------------------------------------------------
(* The fields of the status agree.                                         *)

AfterPoll ==
    {"noTags", "alreadyApplied", "getActiveJob", "claim", "build", "createJob",
     "buildFailed", "createFailed", "trackJob", "captureLogs",
     "recordSuccess", "recordFailure"}

\* What is left of StatusConsistent while a failed poll has incremented the
\* counter in memory and the phase has not followed yet.
PartlyConsistent(status) ==
    /\ status.phase = "Failed" => status.lastErrorMessage # "none"
    /\ status.phase \in {"none", "Synced"} => status.lastErrorMessage = "none"
    /\ status.activeJobName # NoJob => status.lastJobStatus = "Running"

ReportCall(call) ==
    /\ PartlyConsistent(call.bundle.status)
    /\ call.pc \notin {"registryFailed", "registryRetry"} =>
          StatusConsistent(call.bundle.status)
    /\ call.pc = "registryRetry" =>
          call.bundle.status.consecutiveFailures <= MaxConsecutiveFailures
    /\ call.pc \in AfterPoll => call.bundle.status.consecutiveFailures = 0

\* Every copy of the status is consistent, whoever holds it.
ReportInv ==
    /\ StatusConsistent(api.status)
    /\ \A o \in Operators : StatusConsistent(informer[o].bundle.status)
    /\ \A o \in Operators : ReportCall(op[o])

LEMMA IdleReport == ReportCall(Idle)
  BY FailuresAssumption
     DEF ReportCall, PartlyConsistent, StatusConsistent, Idle, Blank,
         NewBundle, NoStatus, AfterPoll

\* The status of every write is consistent.
LEMMA WrittenReport ==
    ASSUME NEW call \in Call, ReportCall(call), GoodCall(call),
           NEW bundle \in Bundle, NEW next, Written(call, bundle, next),
           ValidStatus(bundle.status)
    PROVE  StatusConsistent(bundle.status)
  <1> DEFINE status == bundle.status
             was == call.bundle.status
  <1>0. /\ was.consecutiveFailures \in Nat
        /\ status.consecutiveFailures = was.consecutiveFailures
        /\ status.consecutiveFailures <= MaxConsecutiveFailures + 1
        /\ status.activeJobName # NoJob => status.lastJobStatus = "Running"
        /\ Reported(call, status)
    BY DEF Written, ReportCall, PartlyConsistent, Call, Bundle, Status,
           ValidStatus
  <1>1. CASE call.pc \in Plain
    <2>1. StatusConsistent(was)
      BY <1>1 DEF ReportCall, Plain
    <2>2. /\ status.phase = was.phase
          /\ status.lastErrorMessage = was.lastErrorMessage
          /\ status.lastAppliedTag = was.lastAppliedTag
      BY <1>0, <1>1 DEF Reported, Plain, Failing
    <2> QED BY <1>0, <2>1, <2>2 DEF StatusConsistent
  <1>2. CASE call.pc \in Failing
    BY <1>0, <1>2 DEF Reported, Plain, Failing, StatusConsistent
  <1>3. CASE call.pc \in {"registryRetry", "noTags", "claim"}
    <2>1. was.consecutiveFailures <= MaxConsecutiveFailures
      BY <1>3, FailuresAssumption DEF ReportCall, AfterPoll
    <2> QED BY <1>0, <1>3, <2>1
            DEF Reported, Plain, Failing, StatusConsistent
  <1>4. CASE call.pc \in {"alreadyApplied", "recordSuccess"}
    <2>1. was.consecutiveFailures = 0 /\ call.tag \in Tags
      BY <1>4 DEF ReportCall, AfterPoll, GoodCall, Tagged, Call
    <2> QED BY <1>0, <1>4, <2>1
            DEF Reported, Plain, Failing, StatusConsistent
  <1> QED BY <1>0, <1>1, <1>2, <1>3, <1>4 DEF Reported

\* A step in memory keeps what the next write needs.
LEMMA MovedReport ==
    ASSUME TypeInv, NEW o \in Operators, ReportCall(op[o]), NEW call,
           Moved(o, call)
    PROVE  ReportCall(call)
  <1> DEFINE status == call.bundle.status
             was == op[o].bundle.status
  <1>0. /\ Moves(op[o].pc, call.pc) /\ was.consecutiveFailures \in Nat
        /\ status.phase = was.phase
        /\ status.lastErrorMessage = was.lastErrorMessage
        /\ status.lastAppliedTag = was.lastAppliedTag
    BY CallType DEF Moved, Status
  <1>1. status.activeJobName # NoJob => status.lastJobStatus = "Running"
    <2>1. CASE op[o].pc = "getActiveJob"
      BY <2>1 DEF Moved
    <2>2. CASE op[o].pc # "getActiveJob"
      <3>1. call.pc # "captureLogs"
        BY <1>0, <2>2 DEF Moves
      <3> QED BY <2>2, <3>1 DEF Moved, ReportCall, PartlyConsistent
    <2> QED BY <2>1, <2>2
  <1>2. PartlyConsistent(status)
    BY <1>0, <1>1 DEF ReportCall, PartlyConsistent
  <1>3. call.pc = "registryRetry" =>
           status.consecutiveFailures <= MaxConsecutiveFailures
    BY DEF Moved
  <1>4. call.pc \in AfterPoll => status.consecutiveFailures = 0
    <2>1. CASE op[o].pc = "poll"
      BY <2>1 DEF Moved, AfterPoll
    <2>2. CASE op[o].pc \in AfterPoll
      BY <1>0, <2>2 DEF Moved, Moves, ReportCall, AfterPoll
    <2> QED BY <1>0, <2>1, <2>2 DEF Moves, AfterPoll
  <1>5. call.pc \notin {"registryFailed", "registryRetry"} =>
           StatusConsistent(status)
    <2> SUFFICES ASSUME call.pc \notin {"registryFailed", "registryRetry"}
                 PROVE  StatusConsistent(status)
      OBVIOUS
    <2>1. StatusConsistent(was)
      BY <1>0 DEF ReportCall, Moves
    <2>2. status.consecutiveFailures \in {0, was.consecutiveFailures}
      BY DEF Moved
    <2> HIDE DEF status, was
    <2> QED BY <1>0, <1>2, <2>1, <2>2, FailuresAssumption
            DEF StatusConsistent, PartlyConsistent
  <1> QED BY <1>2, <1>3, <1>4, <1>5 DEF ReportCall

LEMMA InitReport == Init => ReportInv
  <1> SUFFICES ASSUME Init PROVE ReportInv
    OBVIOUS
  <1>1. api.status = NoStatus
    BY DEF Init, NewBundle
  <1>2. StatusConsistent(NoStatus)
    BY FailuresAssumption DEF StatusConsistent, NoStatus
  <1>3. \A o \in Operators : informer[o].bundle = api /\ op[o] = Idle
    BY DEF Init
  <1> QED BY <1>1, <1>2, <1>3, IdleReport DEF ReportInv

LEMMA NextReport ==
    TypeInv /\ RefInv /\ ReportInv /\ [Next]_vars => ReportInv'
  <1> SUFFICES ASSUME TypeInv, RefInv, ReportInv, [Next]_vars
               PROVE  ReportInv'
    OBVIOUS
  <1>l. ASSUME NEW o \in Operators, NEW call, op' = [op EXCEPT ![o] = call],
               UNCHANGED <<api, informer>>, ReportCall(call)
        PROVE  ReportInv'
    <2>1. op'[o] = call /\ \A p \in Operators \ {o} : op'[p] = op[p]
      BY <1>l DEF TypeInv, TypeOK
    <2>2. \A p \in Operators : ReportCall(op'[p])
      BY <1>l, <2>1 DEF ReportInv
    <2> QED BY <1>l, <2>2 DEF ReportInv
  <1>1. ASSUME NEW o \in Operators, StartReconcile(o) PROVE ReportInv'
    <2>1. UNCHANGED <<api, informer>>
      BY <1>1, StartEffect
    <2>2. CASE op' = op
      BY <2>1, <2>2 DEF ReportInv
    <2>3. CASE /\ \A p \in Operators \ {o} : op'[p] = op[p]
               /\ op'[o].pc = FirstStep(informer[o].bundle)
               /\ op'[o].bundle = informer[o].bundle
      <3>1. op'[o].pc \notin AfterPoll \union {"registryFailed",
                                               "registryRetry"}
        BY <2>3 DEF FirstStep, AfterFinalizer, AfterNamespace, AfterPoll
      <3>2. ReportCall(op'[o])
        BY <2>3, <3>1
           DEF ReportInv, ReportCall, PartlyConsistent, StatusConsistent
      <3>3. \A p \in Operators : ReportCall(op'[p])
        BY <2>3, <3>2 DEF ReportInv
      <3> QED BY <2>1, <3>3 DEF ReportInv
    <2> QED BY <1>1, <2>2, <2>3, StartEffect
  <1>2. ASSUME NEW o \in Operators, Write(o) PROVE ReportInv'
    <2>1. CASE op' = [op EXCEPT ![o] = Idle] /\ UNCHANGED <<api, jobs, informer>>
      BY <1>l, <2>1, IdleReport
    <2>2. ASSUME NEW bundle \in Bundle, NEW next \in Plainly \union Outcomes,
                 Written(op[o], bundle, next), Persist(o, bundle, next)
          PROVE  ReportInv'
      <3>1. StatusConsistent(bundle.status)
        <4>1. ValidStatus(bundle.status)
          BY <2>2 DEF Persist
        <4> QED BY <2>2, <4>1, CallType, WrittenReport DEF ReportInv, RefInv
      <3>2. \A p \in Operators \ {o} : ReportCall(op'[p])
        BY <2>2, PersistEffect DEF ReportInv, ReportCall
      <3>3. ReportCall(op'[o])
        <4>1. CASE next \in Outcomes
          BY <2>2, <4>1, PersistEffect, IdleReport
        <4>2. CASE next \notin Outcomes
          <5>1. op'[o].pc = next /\ op'[o].bundle = bundle
            BY <2>2, <4>2, PersistEffect
          <5>2. \/ next \notin AfterPoll \union {"registryFailed",
                                                 "registryRetry"}
                \/ next = "build" /\ op[o].pc = "claim"
            BY <2>2, <4>2 DEF Written, AfterFinalizer, AfterNamespace,
                              AfterPoll, Outcomes
          <5>3. next \in AfterPoll => bundle.status.consecutiveFailures = 0
            BY <2>2, <5>2 DEF Written, ReportInv, ReportCall, AfterPoll
          <5>4. next \notin {"registryFailed", "registryRetry"}
            BY <5>2
          <5> QED BY <3>1, <5>1, <5>3, <5>4
                  DEF ReportCall, PartlyConsistent, StatusConsistent
        <4> QED BY <4>1, <4>2
      <3> QED BY <2>2, <3>1, <3>2, <3>3, PersistEffect DEF ReportInv
    <2> QED BY <1>2, <2>1, <2>2, WriteEffect
  <1>3. ASSUME NEW o \in Operators, Local(o) PROVE ReportInv'
    <2>1. UNCHANGED <<api, informer>>
      BY <1>3, LocalTable
    <2>2. PICK call : op' = [op EXCEPT ![o] = call] /\ ReportCall(call)
      BY <1>3, LocalTable, MovedReport, IdleReport DEF ReportInv
    <2> QED BY <1>l, <2>1, <2>2
  <1>4. ASSUME NEW o \in Operators, Runtime(o) PROVE ReportInv'
    <2>1. \A p \in Operators : ReportCall(op'[p])
      BY <1>4, RuntimeEffect, IdleReport DEF ReportInv
    <2>2. \A p \in Operators : StatusConsistent(informer'[p].bundle.status)
      BY <1>4, RuntimeEffect DEF ReportInv
    <2> QED BY <1>4, <2>1, <2>2, RuntimeEffect DEF ReportInv
  <1>5. CASE EditSpec \/ DeleteBundle
    <2>1. \A p \in Operators : ReportCall(op'[p])
      BY <1>5, UserEffect DEF ReportInv, ReportCall
    <2> QED BY <1>5, <2>1, UserEffect DEF ReportInv
  <1>6. CASE Outside
    BY <1>6, OutsideEffect DEF ReportInv
  <1>7. CASE UNCHANGED vars
    BY <1>7 DEF vars, ReportInv
  <1> QED BY <1>1, <1>2, <1>3, <1>4, <1>5, <1>6, <1>7, StepCases

(***************************************************************************)
(* After every write of Reconcile, whichever branch made it and however    *)
(* old the copy it started from, the fields of the stored status agree:    *)
(* counter and phase, phase and message, active Job and job status; and    *)
(* the counter never passes its maximum (updateStatusSyncing,              *)
(* updateStatusSynced, updateStatusFailed and the changes in memory that   *)
(* ride along).                                                            *)
(***************************************************************************)
THEOREM ReportsAreConsistent == Spec => []ReportIsConsistent
  <1>1. ReportInv => ReportIsConsistent
    BY DEF ReportInv, ReportIsConsistent
  <1> QED BY InitType, NextType, InitClaim, NextClaim, InitRef, NextRef,
             InitReport, NextReport, <1>1, PTL DEF Spec

-----------------------------------------------------------------------------
(* What the status refers to is there.                                     *)

Finished == {"succeeded", "failed"}

\* The Jobs a status speaks of are among js, in the state it says.
Resolves(status, js) ==
    LET logs == status.lastJobLogs IN
    /\ status.activeJobName # NoJob =>
          js[status.activeJobName].outcome # "unused"
    /\ logs.job # NoJob => js[logs.job].outcome \in Finished
    /\ status.lastJobStatus = "Succeeded" =>
          \E j \in JobNames : js[j].outcome = "succeeded"
    /\ status.lastJobStatus = "Failed" =>
          \E j \in JobNames : js[j].outcome = "failed"

LogsStored(status, maps) ==
    status.lastJobLogs.inConfigMap => status.lastJobLogs.job \in maps

\* So does a call, and the Job it works on has finished or was created.
ResolvesCall(call, js) ==
    /\ Resolves(call.bundle.status, js)
    /\ call.pc = "captureLogs" => js[call.job].outcome \in Finished
    /\ call.pc = "trackJob" =>
          call.job # NoJob /\ js[call.job].outcome # "unused"

\* Every copy refers to Jobs that are there; the Job cache may be behind, but
\* what it says of a finished Job is true; and while the bundle is there so
\* are the ConfigMaps that any copy names.
ReferInv ==
    /\ Resolves(api.status, jobs)
    /\ \A o \in Operators : Resolves(informer[o].bundle.status, jobs)
    /\ \A o \in Operators : ResolvesCall(op[o], jobs)
    /\ \A o \in Operators, j \in JobNames :
          seen[o][j] \in Finished => jobs[j].outcome = seen[o][j]
    /\ api.exists =>
          /\ LogsStored(api.status, configMaps)
          /\ \A o \in Operators :
                /\ LogsStored(informer[o].bundle.status, configMaps)
                /\ LogsStored(op[o].bundle.status, configMaps)

\* References stay good as the Jobs go on.
LEMMA ResolvesGrows ==
    ASSUME NEW status \in Status, Resolves(status, jobs), JobsGrow
    PROVE  Resolves(status, jobs')
  <1>1. /\ status.activeJobName \in JobNames \union {NoJob}
        /\ status.lastJobLogs.job \in JobNames \union {NoJob}
    BY DEF Status
  <1> QED BY <1>1 DEF Resolves, JobsGrow, Finished

LEMMA ResolvesCallGrows ==
    ASSUME NEW call \in Call, ResolvesCall(call, jobs), JobsGrow,
           call.pc = "captureLogs" => call.job # NoJob
    PROVE  ResolvesCall(call, jobs')
  <1>1. call.bundle.status \in Status /\ call.job \in JobNames \union {NoJob}
    BY DEF Call, Bundle
  <1>2. Resolves(call.bundle.status, jobs')
    BY <1>1, ResolvesGrows DEF ResolvesCall
  <1> QED BY <1>1, <1>2 DEF ResolvesCall, JobsGrow, Finished

LEMMA IdleResolves ==
    ASSUME NEW js PROVE ResolvesCall(Idle, js)
  BY DEF ResolvesCall, Resolves, Idle, Blank, NewBundle, NoStatus

LEMMA IdleLogs ==
    ASSUME NEW maps PROVE LogsStored(Idle.bundle.status, maps)
  BY DEF LogsStored, Idle, Blank, NewBundle, NoStatus

\* What a lookup finds finished has finished that way.
LEMMA LookupIsTrue ==
    ASSUME TypeInv, ReferInv, NEW o \in Operators,
           op[o].bundle.status.activeJobName # NoJob, Lookup(o) \in Finished
    PROVE  jobs[op[o].bundle.status.activeJobName].outcome = Lookup(o)
  <1> DEFINE j == op[o].bundle.status.activeJobName
  <1>1. j \in JobNames
    BY CallType DEF Status
  <1>2. Lookup(o) = seen[o][j] \/ Lookup(o) = View(jobs[j])
    BY DEF Lookup, Finished
  <1> QED BY <1>1, <1>2 DEF ReferInv, View, Finished

\* The parts of ReferInv that hold of a step with the copies it leaves.
LEMMA CopiesRefer ==
    ASSUME TypeInv, TypeInv', ReferInv, JobsGrow, UNCHANGED seen,
           api'.exists => api.exists /\ configMaps \subseteq configMaps',
           Resolves(api'.status, jobs) \/ Resolves(api'.status, jobs'),
           api'.exists => LogsStored(api'.status, configMaps'),
           \A p \in Operators :
              informer'[p].bundle.status
                \in {informer[p].bundle.status, api.status},
           \A p \in Operators :
              \/ /\ op'[p].pc = op[p].pc /\ op'[p].bundle = op[p].bundle
                 /\ op'[p].job = op[p].job
              \/ op'[p] = Idle
              \/ /\ ResolvesCall(op'[p], jobs')
                 /\ api'.exists =>
                       LogsStored(op'[p].bundle.status, configMaps')
    PROVE  ReferInv'
  <1>1. Resolves(api'.status, jobs')
    <2>1. api'.status \in Status
      BY DEF TypeInv, TypeOK, Bundle
    <2> QED BY <2>1, ResolvesGrows
  <1>2. \A p \in Operators : Resolves(informer'[p].bundle.status, jobs')
    <2>1. \A p \in Operators : informer'[p].bundle.status \in Status
      BY DEF TypeInv, TypeOK, Cache, Bundle
    <2> QED BY <2>1, ResolvesGrows DEF ReferInv
  <1>3. ASSUME NEW p \in Operators
        PROVE  /\ ResolvesCall(op'[p], jobs')
               /\ api'.exists => LogsStored(op'[p].bundle.status, configMaps')
    <2>1. op'[p] \in Call /\ (op'[p].pc = "captureLogs" => op'[p].job # NoJob)
      BY DEF TypeInv, TypeOK, Known
    <2>2. CASE /\ op'[p].pc = op[p].pc /\ op'[p].bundle = op[p].bundle
               /\ op'[p].job = op[p].job
      <3>1. ResolvesCall(op'[p], jobs)
        BY <2>2 DEF ReferInv, ResolvesCall
      <3>2. api'.exists => LogsStored(op'[p].bundle.status, configMaps')
        BY <2>2 DEF ReferInv, LogsStored
      <3> QED BY <2>1, <3>1, <3>2, ResolvesCallGrows
    <2>3. CASE op'[p] = Idle
      BY <2>3, IdleResolves, IdleLogs
    <2> QED BY <2>2, <2>3
  <1>4. \A p \in Operators, j \in JobNames :
           seen'[p][j] \in Finished => jobs'[j].outcome = seen'[p][j]
    BY DEF ReferInv, JobsGrow, Finished
  <1>5. ASSUME api'.exists, NEW p \in Operators
        PROVE  LogsStored(informer'[p].bundle.status, configMaps')
    <2>1. LogsStored(informer'[p].bundle.status, configMaps)
      BY <1>5 DEF ReferInv
    <2> QED BY <1>5, <2>1 DEF LogsStored
  <1> QED BY <1>1, <1>2, <1>3, <1>4, <1>5 DEF ReferInv

LEMMA InitRefer == Init => ReferInv
  <1> SUFFICES ASSUME Init PROVE ReferInv
    OBVIOUS
  <1>1. api.status = NoStatus
    BY DEF Init, NewBundle
  <1>2. Resolves(NoStatus, jobs) /\ LogsStored(NoStatus, configMaps)
    BY DEF Resolves, LogsStored, NoStatus
  <1>3. \A o \in Operators : informer[o].bundle = api /\ op[o] = Idle
    BY DEF Init
  <1>4. \A o \in Operators, j \in JobNames : seen[o][j] \notin Finished
    BY DEF Init, Finished
  <1> QED BY <1>1, <1>2, <1>3, <1>4, IdleResolves, IdleLogs DEF ReferInv

\* A call that moved on in memory refers to what is there.
LEMMA MovedRefers ==
    ASSUME TypeInv, TypeInv', RefInv, ReferInv, NEW o \in Operators, NEW call,
           op' = [op EXCEPT ![o] = call], Moved(o, call), UNCHANGED api
    PROVE  /\ JobsGrow /\ configMaps \subseteq configMaps'
           /\ ResolvesCall(call, jobs')
           /\ api.exists => LogsStored(call.bundle.status, configMaps')
  <1> DEFINE status == call.bundle.status
             was == op[o].bundle.status
  <1>0. /\ op[o] \in Call /\ call \in Call /\ was \in Status
        /\ status \in Status /\ op[o].job \in JobNames \union {NoJob}
        /\ Moves(op[o].pc, call.pc)
    <2>1. op'[o] = call /\ op' \in [Operators -> Call]
      BY DEF TypeInv, TypeOK
    <2> QED BY <2>1, CallType DEF Moved, Call, Bundle
  <1>1. JobsGrow
    <2>1. CASE UNCHANGED jobs
      BY <2>1 DEF JobsGrow
    <2>2. ASSUME NEW j \in JobNames, jobs[j].outcome = "unused",
                 jobs' = [jobs EXCEPT ![j] = NewJob(o)]
          PROVE  JobsGrow
      BY <2>2 DEF JobsGrow, NewJob, TypeInv, TypeOK
    <2> QED BY <2>1, <2>2 DEF Moved, JobStored
  <1>2. configMaps \subseteq configMaps'
    BY DEF Moved, LogsKept
  <1>3. Resolves(was, jobs) /\ (api.exists => LogsStored(was, configMaps))
    BY DEF ReferInv, ResolvesCall
  <1>4. /\ status.activeJobName # NoJob =>
              jobs[status.activeJobName].outcome # "unused"
        /\ status.activeJobName \in {NoJob, was.activeJobName}
    BY <1>3 DEF Moved, Resolves
  <1>5. CASE op[o].pc = "getActiveJob" /\ call.pc = "captureLogs"
    <2>1. JobSeen(o, call) /\ status.lastJobLogs = was.lastJobLogs
          /\ UNCHANGED <<jobs, configMaps>>
      BY <1>5 DEF Moved
    <2>2. call.job \in JobNames
      BY <1>0, <2>1 DEF JobSeen, Status
    <2>3. \/ /\ jobs[call.job].outcome = "succeeded"
             /\ status.lastJobStatus = "Succeeded"
          \/ /\ jobs[call.job].outcome = "failed"
             /\ status.lastJobStatus = "Failed"
      BY <2>1, LookupIsTrue DEF JobSeen, Finished
    <2>4. Resolves(status, jobs)
      BY <1>3, <1>4, <2>1, <2>2, <2>3 DEF Resolves
    <2>5. ResolvesCall(call, jobs')
      BY <1>5, <2>1, <2>3, <2>4 DEF ResolvesCall, Finished
    <2>6. api.exists => LogsStored(status, configMaps')
      BY <1>3, <2>1 DEF LogsStored
    <2> QED BY <1>1, <1>2, <2>5, <2>6
  <1>6. CASE op[o].pc = "captureLogs"
    <2>1. /\ LogsKept(o, call) /\ UNCHANGED jobs
          /\ status.lastJobStatus = was.lastJobStatus
          /\ call.pc \in {"recordSuccess", "recordFailure"}
      BY <1>0, <1>6 DEF Moved, Moves
    <2>2. jobs[op[o].job].outcome \in Finished
      BY <1>6 DEF ReferInv, ResolvesCall
    <2>3. Resolves(status, jobs)
      BY <1>3, <1>4, <2>1, <2>2 DEF Resolves, LogsKept
    <2>4. api.exists => LogsStored(status, configMaps')
      BY <1>3, <2>1 DEF LogsStored, LogsKept
    <2>5. ResolvesCall(call, jobs')
      BY <2>1, <2>3 DEF ResolvesCall
    <2> QED BY <1>1, <1>2, <2>4, <2>5
  <1>7. CASE op[o].pc # "captureLogs" /\ call.pc # "captureLogs"
    <2>1. /\ status.lastJobLogs = was.lastJobLogs /\ UNCHANGED configMaps
          /\ status.lastJobStatus = was.lastJobStatus
      BY <1>7 DEF Moved
    <2>2. Resolves(status, jobs)
      BY <1>3, <1>4, <2>1 DEF Resolves
    <2>3. Resolves(status, jobs')
      BY <1>0, <1>1, <2>2, ResolvesGrows
    <2>4. call.pc = "trackJob" =>
             call.job # NoJob /\ jobs'[call.job].outcome # "unused"
      <3> SUFFICES ASSUME call.pc = "trackJob"
                   PROVE  call.job # NoJob /\ jobs'[call.job].outcome # "unused"
        OBVIOUS
      <3>1. PICK j \in JobNames : /\ jobs' = [jobs EXCEPT ![j] = NewJob(o)]
                                  /\ call.job = j
        BY <1>0 DEF Moved, Moves, JobStored
      <3> QED BY <3>1, JobsAssumption DEF NewJob, TypeInv, TypeOK
    <2>5. api.exists => LogsStored(status, configMaps')
      BY <1>3, <2>1 DEF LogsStored
    <2> QED BY <1>1, <1>2, <1>7, <2>3, <2>4, <2>5 DEF ResolvesCall
  <1> QED BY <1>0, <1>5, <1>6, <1>7 DEF Moves

LEMMA NextRefer ==
    TypeInv /\ TypeInv' /\ RefInv /\ ReferInv /\ [Next]_vars => ReferInv'
  <1> SUFFICES ASSUME TypeInv, TypeInv', RefInv, ReferInv, [Next]_vars
               PROVE  ReferInv'
    OBVIOUS
  <1>j. UNCHANGED jobs => JobsGrow
    BY DEF JobsGrow
  <1>0. /\ Resolves(api.status, jobs)
        /\ api.exists => LogsStored(api.status, configMaps)
    BY DEF ReferInv
  <1>1. ASSUME NEW o \in Operators, StartReconcile(o) PROVE ReferInv'
    <2>1. /\ UNCHANGED <<api, jobs, informer, configMaps, seen>>
          /\ \/ op' = op
             \/ /\ \A p \in Operators \ {o} : op'[p] = op[p]
                /\ op'[o].pc = FirstStep(informer[o].bundle)
                /\ op'[o].bundle = informer[o].bundle
      BY <1>1, StartEffect DEF cluster
    <2>2. ASSUME op'[o].pc = FirstStep(informer[o].bundle),
                 op'[o].bundle = informer[o].bundle
          PROVE  /\ ResolvesCall(op'[o], jobs')
                 /\ api'.exists => LogsStored(op'[o].bundle.status, configMaps')
      <3>1. op'[o].pc \notin {"captureLogs", "trackJob"}
        BY <2>2 DEF FirstStep, AfterFinalizer, AfterNamespace
      <3> QED BY <2>1, <2>2, <3>1 DEF ReferInv, ResolvesCall
    <2> QED BY <1>j, <1>0, <2>1, <2>2, CopiesRefer
  <1>2. ASSUME NEW o \in Operators, Write(o) PROVE ReferInv'
    <2>u. UNCHANGED <<configMaps, seen>>
      BY <1>2, WriteEffect DEF cluster
    <2>1. CASE op' = [op EXCEPT ![o] = Idle] /\ UNCHANGED <<api, jobs, informer>>
      <3>1. \A p \in Operators : op'[p] = op[p] \/ op'[p] = Idle
        BY <2>1 DEF TypeInv, TypeOK
      <3> QED BY <1>j, <1>0, <2>u, <2>1, <3>1, CopiesRefer
    <2>2. ASSUME NEW bundle \in Bundle, NEW next \in Plainly \union Outcomes,
                 Written(op[o], bundle, next), Persist(o, bundle, next)
          PROVE  ReferInv'
      <3>0. ResolvesCall(op[o], jobs) /\ op[o].fresh /\ api.exists
            /\ LogsStored(op[o].bundle.status, configMaps)
        BY <2>2, PersistEffect DEF ReferInv, RefInv
      <3>1. Resolves(bundle.status, jobs) /\ LogsStored(bundle.status, configMaps)
        BY <2>2, <3>0 DEF Written, ResolvesCall, Resolves, LogsStored
      <3>2. JobsGrow
        BY <2>2, PersistEffect DEF JobsGrow
      <3>3. \/ op'[o] = Idle
            \/ /\ ResolvesCall(op'[o], jobs')
               /\ LogsStored(op'[o].bundle.status, configMaps')
        <4>1. CASE next \in Outcomes
          BY <2>2, <4>1, PersistEffect
        <4>2. CASE next \notin Outcomes
          <5>1. op'[o].pc = next /\ op'[o].bundle = bundle
            BY <2>2, <4>2, PersistEffect
          <5>2. next \notin {"captureLogs", "trackJob"}
            BY <2>2, <4>2 DEF Written, AfterFinalizer, AfterNamespace
          <5>3. bundle.status \in Status
            BY DEF Bundle
          <5>4. Resolves(bundle.status, jobs')
            BY <3>1, <3>2, <5>3, ResolvesGrows
          <5> QED BY <2>u, <3>1, <5>1, <5>2, <5>4 DEF ResolvesCall
        <4> QED BY <4>1, <4>2
      <3>4. /\ api' = bundle
            /\ \A p \in Operators : informer'[p].bundle = informer[p].bundle
            /\ \A p \in Operators \ {o} :
                  /\ op'[p].pc = op[p].pc /\ op'[p].bundle = op[p].bundle
                  /\ op'[p].job = op[p].job
        BY <2>2, PersistEffect
      <3> QED BY <2>u, <3>0, <3>1, <3>2, <3>3, <3>4, CopiesRefer
    <2> QED BY <1>2, <2>1, <2>2, WriteEffect
  <1>3. ASSUME NEW o \in Operators, Local(o) PROVE ReferInv'
    <2>u. UNCHANGED <<api, informer, seen>>
      BY <1>3, LocalTable
    <2>1. CASE op' = [op EXCEPT ![o] = Idle] /\ UNCHANGED <<jobs, configMaps>>
      <3>1. \A p \in Operators : op'[p] = op[p] \/ op'[p] = Idle
        BY <2>1 DEF TypeInv, TypeOK
      <3> QED BY <1>j, <1>0, <2>u, <2>1, <3>1, CopiesRefer
    <2>2. ASSUME NEW call, op' = [op EXCEPT ![o] = call], Moved(o, call)
          PROVE  ReferInv'
      <3>1. /\ JobsGrow /\ configMaps \subseteq configMaps'
            /\ ResolvesCall(call, jobs')
            /\ api.exists => LogsStored(call.bundle.status, configMaps')
        BY <2>u, <2>2, MovedRefers
      <3>2. op'[o] = call /\ \A p \in Operators \ {o} : op'[p] = op[p]
        BY <2>2 DEF TypeInv, TypeOK
      <3>3. api.exists => LogsStored(api.status, configMaps')
        BY <1>0, <3>1 DEF LogsStored
      <3> QED BY <1>0, <2>u, <3>1, <3>2, <3>3, CopiesRefer
    <2> QED BY <1>3, <2>1, <2>2, LocalTable
  <1>4. ASSUME NEW o \in Operators, Runtime(o) PROVE ReferInv'
    <2>1. /\ UNCHANGED <<api, jobs, configMaps>>
          /\ \A p \in Operators : op'[p] \in {op[p], Idle}
          /\ \A p \in Operators :
                informer'[p].bundle \in {informer[p].bundle, api}
      BY <1>4, RuntimeEffect
    <2>2. ASSUME UNCHANGED seen PROVE ReferInv'
      BY <1>j, <1>0, <2>1, <2>2, CopiesRefer
    <2>3. ASSUME NEW p \in Operators, NEW j \in JobNames,
                 seen'[p][j] \in Finished
          PROVE  jobs'[j].outcome = seen'[p][j]
      <3>1. seen'[p][j] \in {seen[p][j], View(jobs[j])}
        <4>1. CASE TimerFires(o) \/ SyncInformer(o)
          BY <4>1 DEF TimerFires, SyncInformer, cluster
        <4>2. CASE Crash(o)
          BY <4>2 DEF Crash, TypeInv, TypeOK
        <4>3. ASSUME NEW k \in JobNames, SyncJob(o, k)
              PROVE  seen'[p][j] \in {seen[p][j], View(jobs[j])}
          BY <4>3 DEF SyncJob, TypeInv, TypeOK
        <4> QED BY <1>4, <4>1, <4>2, <4>3 DEF Runtime
      <3> QED BY <2>1, <2>3, <3>1 DEF ReferInv, View, Finished
    <2>4. /\ \A p \in Operators : ResolvesCall(op'[p], jobs')
          /\ \A p \in Operators : Resolves(informer'[p].bundle.status, jobs')
      BY <2>1, IdleResolves DEF ReferInv
    <2>5. api'.exists =>
             \A p \in Operators :
                /\ LogsStored(informer'[p].bundle.status, configMaps')
                /\ LogsStored(op'[p].bundle.status, configMaps')
      BY <2>1, IdleLogs DEF ReferInv
    <2> QED BY <1>0, <2>1, <2>3, <2>4, <2>5 DEF ReferInv
  <1>5. CASE EditSpec \/ DeleteBundle
    <2>1. /\ UNCHANGED <<jobs, configMaps, seen>> /\ api.exists
          /\ api'.status = api.status
          /\ \A p \in Operators : informer'[p].bundle = informer[p].bundle
          /\ \A p \in Operators :
                /\ op'[p].pc = op[p].pc /\ op'[p].bundle = op[p].bundle
                /\ op'[p].job = op[p].job
      BY <1>5, UserEffect DEF cluster
    <2> QED BY <1>j, <1>0, <2>1, CopiesRefer
  <1>6. CASE Outside
    <2>1. /\ UNCHANGED <<api, informer, seen, op>> /\ JobsGrow
          /\ UNCHANGED configMaps \/ ~api.exists
      BY <1>6, OutsideEffect
    <2> QED BY <1>0, <2>1, CopiesRefer
  <1>7. CASE UNCHANGED vars
    BY <1>7 DEF vars, ReferInv
  <1> QED BY <1>1, <1>2, <1>3, <1>4, <1>5, <1>6, <1>7, StepCases

(***************************************************************************)
(* Whatever operators overlap or restart, however far the caches are       *)
(* behind and whichever answers are lost, the stored status refers to what *)
(* is there: a Job that was created, logs of a Job that finished, an       *)
(* outcome that happened, a ConfigMap that storeJobLogs has created        *)
(* (monitorJobCompletion, storeJobLogs, ensureJobExists).                  *)
(***************************************************************************)
THEOREM StatusReferencesResolve == Spec => []ReferencesResolve
  <1>1. ReferInv => ReferencesResolve
    BY DEF ReferInv, ReferencesResolve, Resolves, LogsStored, Created, Finished
  <1> QED BY InitType, NextType, InitClaim, NextClaim, InitRef, NextRef,
             InitRefer, NextRefer, <1>1, PTL DEF Spec

-----------------------------------------------------------------------------
(* The bundle is held while its Job is being created.                      *)

\* Beyond the finalizer step, the copy a call works on has the finalizer.
HeldCall(call) ==
    call.pc \notin {"idle", "removeFinalizer", "addFinalizer"} =>
        call.bundle.finalizer

HeldInv ==
    (\A o \in Operators : HeldCall(op[o])) /\ FinalizerHeldWhileDeploying

LEMMA IdleHeld == HeldCall(Idle) /\ Idle.pc \notin Claiming
  BY DEF HeldCall, Idle, Claiming

\* A step that leaves the bundle in place, after which no more calls are
\* deploying than before.
LEMMA StepHeld ==
    ASSUME HeldInv,
           api.exists /\ api.finalizer => api'.exists /\ api'.finalizer,
           \A p \in Operators :
              \/ HeldCall(op'[p]) /\ op'[p].pc \notin Claiming
              \/ /\ op'[p].bundle.finalizer = op[p].bundle.finalizer
                 /\ \/ op'[p].pc = op[p].pc
                    \/ Moves(op[p].pc, op'[p].pc)
    PROVE  HeldInv'
  <1>1. ASSUME NEW p \in Operators PROVE HeldCall(op'[p])
    BY DEF HeldInv, HeldCall, Moves
  <1>2. \A p \in Operators : op'[p].pc \in Claiming => op[p].pc \in Claiming
    BY DEF Moves, Claiming
  <1>3. FinalizerHeldWhileDeploying'
    BY <1>2 DEF HeldInv, FinalizerHeldWhileDeploying, Claiming, OneOperator
  <1> QED BY <1>1, <1>3 DEF HeldInv, HeldCall

LEMMA NextHeld == TypeInv /\ RefInv /\ HeldInv /\ [Next]_vars => HeldInv'
  <1> SUFFICES ASSUME TypeInv, RefInv, HeldInv, [Next]_vars PROVE HeldInv'
    OBVIOUS
  <1>1. ASSUME NEW o \in Operators, StartReconcile(o) PROVE HeldInv'
    <2>1. /\ UNCHANGED api
          /\ \/ op' = op
             \/ /\ \A p \in Operators \ {o} : op'[p] = op[p]
                /\ op'[o].pc = FirstStep(informer[o].bundle)
                /\ op'[o].bundle = informer[o].bundle
      BY <1>1, StartEffect
    <2>2. ASSUME op'[o].pc = FirstStep(informer[o].bundle),
                 op'[o].bundle = informer[o].bundle
          PROVE  HeldCall(op'[o]) /\ op'[o].pc \notin Claiming
      BY <2>2 DEF HeldCall, FirstStep, AfterFinalizer, AfterNamespace, Claiming
    <2> QED BY <2>1, <2>2, StepHeld
  <1>2. ASSUME NEW o \in Operators, Write(o) PROVE HeldInv'
    <2>1. CASE op' = [op EXCEPT ![o] = Idle] /\ UNCHANGED <<api, jobs, informer>>
      <3>1. \A p \in Operators : op'[p] = op[p] \/ op'[p] = Idle
        BY <2>1 DEF TypeInv, TypeOK
      <3> QED BY <2>1, <3>1, IdleHeld, StepHeld
    <2>2. ASSUME NEW bundle \in Bundle, NEW next \in Plainly \union Outcomes,
                 Written(op[o], bundle, next), Persist(o, bundle, next)
          PROVE  HeldInv'
      <3>0. /\ api' = bundle /\ op[o].bundle.exists
            /\ \A p \in Operators \ {o} :
                  op'[p].pc = op[p].pc /\ op'[p].bundle = op[p].bundle
        BY <2>2, PersistEffect DEF RefInv, GoodCall
      <3>1. /\ HeldCall(op'[o])
            /\ op'[o].pc \in Claiming => api'.exists /\ api'.finalizer
        <4>1. CASE next \in Outcomes
          BY <2>2, <4>1, PersistEffect, IdleHeld
        <4>2. CASE next \notin Outcomes
          <5>1. op'[o].pc = next /\ op'[o].bundle = bundle
            BY <2>2, <4>2, PersistEffect
          <5>2. \/ /\ op[o].pc \in {"addFinalizer", "resolveNamespace"}
                   /\ next \notin Claiming
                \/ op[o].pc = "claim"
            BY <2>2, <4>2
               DEF Written, AfterFinalizer, AfterNamespace, Claiming
          <5>3. bundle.finalizer /\ bundle.exists
            BY <2>2, <3>0, <5>2 DEF Written, HeldInv, HeldCall
          <5> QED BY <3>0, <5>1, <5>2, <5>3 DEF HeldCall
        <4> QED BY <4>1, <4>2
      <3>2. \A p \in Operators : HeldCall(op'[p])
        BY <3>0, <3>1 DEF HeldInv, HeldCall
      <3>3. FinalizerHeldWhileDeploying'
        BY <3>1 DEF FinalizerHeldWhileDeploying, Claiming, OneOperator
      <3> QED BY <3>2, <3>3 DEF HeldInv, HeldCall
    <2> QED BY <1>2, <2>1, <2>2, WriteEffect
  <1>3. ASSUME NEW o \in Operators, Local(o) PROVE HeldInv'
    <2>1. UNCHANGED api
      BY <1>3, LocalTable
    <2>2. CASE op' = [op EXCEPT ![o] = Idle]
      <3>1. \A p \in Operators : op'[p] = op[p] \/ op'[p] = Idle
        BY <2>2 DEF TypeInv, TypeOK
      <3> QED BY <2>1, <3>1, IdleHeld, StepHeld
    <2>3. ASSUME NEW call, op' = [op EXCEPT ![o] = call], Moved(o, call)
          PROVE  HeldInv'
      <3>1. op'[o] = call /\ \A p \in Operators \ {o} : op'[p] = op[p]
        BY <2>3 DEF TypeInv, TypeOK
      <3>2. /\ Moves(op[o].pc, call.pc)
            /\ call.bundle.finalizer = op[o].bundle.finalizer
        BY <2>3 DEF Moved
      <3> QED BY <2>1, <3>1, <3>2, StepHeld
    <2> QED BY <1>3, <2>2, <2>3, LocalTable
  <1>4. ASSUME NEW o \in Operators, Runtime(o) PROVE HeldInv'
    <2>1. UNCHANGED api /\ \A p \in Operators : op'[p] \in {op[p], Idle}
      BY <1>4, RuntimeEffect
    <2> QED BY <2>1, IdleHeld, StepHeld
  <1>5. CASE EditSpec \/ DeleteBundle
    BY <1>5, UserEffect, StepHeld
  <1>6. CASE Outside
    BY <1>6, OutsideEffect, StepHeld
  <1>7. CASE UNCHANGED vars
    BY <1>7, StepHeld DEF vars
  <1> QED BY <1>1, <1>2, <1>3, <1>4, <1>5, <1>6, <1>7, StepCases

(***************************************************************************)
(* With one operator process the bundle is there, with our finalizer, from *)
(* the accepted claim until the Job has been created, also when a user     *)
(* deletes or edits it at any moment in between (Reconcile adds the        *)
(* finalizer before it polls).                                             *)
(***************************************************************************)
THEOREM FinalizerIsHeld == Spec => []FinalizerHeldWhileDeploying
  <1>1. Init => HeldInv
    BY IdleHeld DEF Init, HeldInv, FinalizerHeldWhileDeploying, Claiming
  <1>2. HeldInv => FinalizerHeldWhileDeploying
    BY DEF HeldInv
  <1> QED BY InitType, NextType, InitClaim, NextClaim, InitRef, NextRef,
             NextHeld, <1>1, <1>2, PTL DEF Spec
=============================================================================
