--------------------------- MODULE RefinementProofs ---------------------------
(***************************************************************************)
(* Proof that the controller implements Deployments: every step of         *)
(* Reconciler is a step of Deployments or leaves its variables alone.      *)
(***************************************************************************)
EXTENDS ReconcilerProofs

\* The labels at which a call works on the tag it found.
Tagged ==
    {"alreadyApplied", "getActiveJob", "claim", "build", "createJob",
     "captureLogs", "recordSuccess"}

GoodCall(call) ==
    /\ call.bundle.exists
    /\ call.pc \in Tagged => call.tag # NoTag

\* A call works on a bundle that was there when it was read, and is still
\* there if the copy is fresh; it has found a tag where it needs one; a name
\* that was never used has no tag.
RefInv ==
    /\ \A o \in Operators : GoodCall(op[o]) /\ (op[o].fresh => api.exists)
    /\ \A j \in JobNames : jobs[j].outcome = "unused" => jobs[j].tag = NoTag

\* A step of the controller, seen through the mapping.
Step == [Promise!Next]_(Promise!vars)

-----------------------------------------------------------------------------
(* The steps of Deployments, in terms of the controller's variables.       *)

SameRegister ==
    /\ api'.status.lastAppliedTag = api.status.lastAppliedTag
    /\ api'.exists = api.exists
SameClaims == \A o \in Operators : Claimed(op'[o]) = Claimed(op[o])
SameJobs == \A j \in JobNames : jobs'[j].tag = jobs[j].tag

LEMMA StepStutters ==
    ASSUME SameRegister, SameClaims, SameJobs PROVE Step
  <1>1. UNCHANGED Promise!vars
    BY DEF SameRegister, SameClaims, SameJobs, Promise!vars
  <1> QED BY <1>1 DEF Step

LEMMA StepClaims ==
    ASSUME NEW o \in Operators, NEW t \in Tags,
           api.exists, api'.exists,
           api.status.lastAppliedTag # t, api'.status.lastAppliedTag = t,
           Claimed(op[o]) = NoTag, Claimed(op'[o]) = t,
           \A p \in Operators \ {o} : Claimed(op'[p]) = Claimed(op[p]),
           SameJobs
    PROVE  Step
  <1>1. Promise!Claim(o, t)
    BY DEF Promise!Claim, SameJobs
  <1> QED BY <1>1 DEF Step, Promise!Next

LEMMA StepDeploys ==
    ASSUME NEW o \in Operators, NEW j \in JobNames, SameRegister,
           Claimed(op[o]) # NoTag, Claimed(op'[o]) = NoTag,
           \A p \in Operators \ {o} : Claimed(op'[p]) = Claimed(op[p]),
           jobs[j].tag = NoTag, jobs'[j].tag = Claimed(op[o]),
           \A k \in JobNames \ {j} : jobs'[k].tag = jobs[k].tag
    PROVE  Step
  <1>1. Promise!Deploy(o, j)
    BY DEF Promise!Deploy, SameRegister
  <1> QED BY <1>1 DEF Step, Promise!Next

LEMMA StepGivesUp ==
    ASSUME NEW o \in Operators, SameRegister, SameJobs,
           Claimed(op[o]) # NoTag, Claimed(op'[o]) = NoTag,
           \A p \in Operators \ {o} : Claimed(op'[p]) = Claimed(op[p])
    PROVE  Step
  <1> DEFINE pending == [p \in Operators |-> Claimed(op[p])]
  <1>1. pending[o] # NoTag
    OBVIOUS
  <1>2. [p \in Operators |-> Claimed(op'[p])] = [pending EXCEPT ![o] = NoTag]
    <2>1. \A p \in Operators :
             Claimed(op'[p]) = IF p = o THEN NoTag ELSE pending[p]
      OBVIOUS
    <2> QED BY <2>1
  <1>3. Promise!GiveUp(o)
    BY <1>1, <1>2 DEF Promise!GiveUp, SameRegister, SameJobs
  <1> QED BY <1>3 DEF Step, Promise!Next

LEMMA StepOverwrites ==
    ASSUME api.exists, api'.exists,
           api'.status.lastAppliedTag \in Tags \union {ErrorText},
           SameClaims, SameJobs
    PROVE  Step
  <1>1. Promise!Overwrite(api'.status.lastAppliedTag)
    BY DEF Promise!Overwrite, SameClaims, SameJobs
  <1> QED BY <1>1 DEF Step, Promise!Next

LEMMA StepRemoves ==
    ASSUME api.exists, ~api'.exists, SameClaims, SameJobs,
           api'.status.lastAppliedTag = api.status.lastAppliedTag
    PROVE  Step
  <1>1. Promise!Remove
    BY DEF Promise!Remove, SameClaims, SameJobs
  <1> QED BY <1>1 DEF Step, Promise!Next

-----------------------------------------------------------------------------
(* The steps of the controller.                                            *)

Claiming == {"build", "createJob"}

\* One call moves on; the stored objects stay.  It may drop its claim, not
\* come to have one.
LEMMA LocalStep ==
    ASSUME TypeInv, RefInv, NEW o \in Operators, NEW call,
           op' = [op EXCEPT ![o] = call], UNCHANGED <<api, jobs>>,
           GoodCall(call), call.fresh => api.exists,
           call.pc \in Claiming => op[o].pc \in Claiming /\ call.tag = op[o].tag
    PROVE  RefInv' /\ Step
  <1>1. op'[o] = call /\ \A p \in Operators \ {o} : op'[p] = op[p]
    BY DEF TypeInv, TypeOK
  <1>2. RefInv'
    BY <1>1 DEF RefInv, GoodCall
  <1>3. Claimed(op'[o]) \in {Claimed(op[o]), NoTag}
    BY <1>1 DEF Claimed, Claiming
  <1>4. SameRegister /\ SameJobs
    BY DEF SameRegister, SameJobs
  <1>5. \A p \in Operators \ {o} : Claimed(op'[p]) = Claimed(op[p])
    BY <1>1
  <1>6. CASE Claimed(op'[o]) = Claimed(op[o])
    BY <1>2, <1>4, <1>5, <1>6, StepStutters DEF SameClaims
  <1>7. CASE Claimed(op'[o]) # Claimed(op[o])
    BY <1>2, <1>3, <1>4, <1>5, <1>7, StepGivesUp
  <1> QED BY <1>6, <1>7

LEMMA ReturnStep ==
    ASSUME TypeInv, RefInv, NEW o \in Operators, NEW outcome,
           Return(o, outcome), UNCHANGED <<api, jobs>>
    PROVE  RefInv' /\ Step
  <1>1. /\ op' = [op EXCEPT ![o] = Idle] /\ GoodCall(Idle) /\ ~Idle.fresh
        /\ Idle.pc \notin Claiming
    BY DEF Return, Idle, Blank, NewBundle, GoodCall, Tagged, Claiming
  <1> QED BY <1>1, LocalStep

LEMMA GotoStep ==
    ASSUME TypeInv, RefInv, NEW o \in Operators, NEW pc, NEW bundle,
           Goto(o, pc, bundle), UNCHANGED <<api, jobs>>,
           bundle.exists = op[o].bundle.exists,
           pc \in Tagged => op[o].pc \in Tagged,
           pc \in Claiming => op[o].pc \in Claiming
    PROVE  RefInv' /\ Step
  <1> DEFINE call == [op[o] EXCEPT !.pc = pc, !.bundle = bundle]
  <1>1. op' = [op EXCEPT ![o] = call]
    BY DEF Goto
  <1>2. /\ call.pc = pc /\ call.bundle = bundle /\ call.tag = op[o].tag
        /\ call.fresh = op[o].fresh
    BY CallType DEF Call
  <1> HIDE DEF call
  <1>3. GoodCall(call) /\ (call.fresh => api.exists)
    BY <1>2 DEF RefInv, GoodCall
  <1> QED BY <1>1, <1>2, <1>3, LocalStep

(***************************************************************************)
(* An accepted write, which came from a fresh copy: the claim, the removal *)
(* of the bundle, or a write that changes LastAppliedTag or not.           *)
(***************************************************************************)
LEMMA PersistStep ==
    ASSUME TypeInv, ClaimInv, RefInv, NEW o \in Operators,
           NEW bundle \in Bundle, NEW next, Persist(o, bundle, next),
           op[o].pc \notin Claiming,
           \/ bundle.status.lastAppliedTag # NoTag
           \/ bundle.status.lastAppliedTag = op[o].bundle.status.lastAppliedTag,
           \/ bundle.exists
           \/ /\ next \in Outcomes
              /\ bundle.status.lastAppliedTag
                   = op[o].bundle.status.lastAppliedTag,
           next \in Outcomes \/ next \notin Tagged
             \/ /\ next = "build" /\ op[o].pc = "claim"
                /\ bundle.status.lastAppliedTag = op[o].tag
    PROVE  RefInv' /\ Step
  <1>0. /\ op[o] \in Call /\ api' = bundle /\ op[o].fresh /\ api.exists
        /\ op[o].bundle.status.lastAppliedTag = api.status.lastAppliedTag
    BY CallType DEF Persist, RefInv, ClaimInv, FreshCalls, Agrees
  <1>1. \A p \in Operators \ {o} :
           /\ ~op'[p].fresh /\ op'[p].pc = op[p].pc
           /\ op'[p].tag = op[p].tag /\ op'[p].bundle = op[p].bundle
    BY DEF Persist, TypeInv, TypeOK, Call
  <1>2. SameJobs /\ \A j \in JobNames : jobs'[j].outcome = jobs[j].outcome
    BY DEF SameJobs, Persist, TypeInv, TypeOK, Job
  <1>3. \A p \in Operators \ {o} : Claimed(op'[p]) = Claimed(op[p])
    BY <1>1 DEF Claimed
  <1>4. Claimed(op[o]) = NoTag
    BY DEF Claimed, Claiming
  <1>5. bundle.status.lastAppliedTag \in Tags \union {NoTag, ErrorText}
    BY DEF Bundle, Status
  <1>6. CASE next \in Outcomes
    <2>1. op'[o] = Idle
      BY <1>6 DEF Persist
    <2>2. GoodCall(op'[o]) /\ ~op'[o].fresh /\ Claimed(op'[o]) = NoTag
      BY <2>1 DEF Idle, Blank, NewBundle, GoodCall, Tagged, Claimed
    <2>3. RefInv'
      BY <1>1, <1>2, <2>2 DEF RefInv, GoodCall, SameJobs
    <2>4. SameClaims
      BY <1>3, <1>4, <2>2 DEF SameClaims
    <2>5. CASE bundle.exists /\ bundle.status.lastAppliedTag # NoTag
      BY <1>0, <1>2, <1>5, <2>3, <2>4, <2>5, StepOverwrites
    <2>6. CASE bundle.exists /\ bundle.status.lastAppliedTag = NoTag
      BY <1>0, <1>2, <2>3, <2>4, <2>6, StepStutters DEF SameRegister
    <2>7. CASE ~bundle.exists
      BY <1>0, <1>2, <2>3, <2>4, <2>7, StepRemoves
    <2> QED BY <2>5, <2>6, <2>7
  <1>7. CASE next \notin Outcomes
    <2>1. /\ op'[o].pc = next /\ op'[o].bundle = bundle
          /\ op'[o].tag = op[o].tag
      BY <1>0, <1>7 DEF Persist, Call
    <2>2. CASE next \notin Tagged
      <3>1. GoodCall(op'[o]) /\ Claimed(op'[o]) = NoTag
        BY <1>7, <2>1, <2>2 DEF GoodCall, Claimed, Tagged
      <3>2. RefInv'
        BY <1>0, <1>1, <1>2, <1>7, <3>1 DEF RefInv, GoodCall, SameJobs
      <3>3. SameClaims
        BY <1>3, <1>4, <3>1 DEF SameClaims
      <3>4. CASE bundle.status.lastAppliedTag # NoTag
        BY <1>0, <1>2, <1>5, <1>7, <3>2, <3>3, <3>4, StepOverwrites
      <3>5. CASE bundle.status.lastAppliedTag = NoTag
        BY <1>0, <1>2, <1>7, <3>2, <3>3, <3>5, StepStutters DEF SameRegister
      <3> QED BY <3>4, <3>5
    <2>3. CASE next \in Tagged
      <3>1. /\ next = "build" /\ op[o].pc = "claim" /\ bundle.exists
            /\ bundle.status.lastAppliedTag = op[o].tag
        BY <1>7, <2>3
      <3>2. /\ op[o].tag # NoTag /\ op[o].tag \in Tags
            /\ op[o].tag # api.status.lastAppliedTag
        BY <1>0, <3>1 DEF ClaimInv, NewTags, NewTag, Call
      <3>3. GoodCall(op'[o]) /\ Claimed(op'[o]) = op[o].tag
        BY <2>1, <3>1, <3>2 DEF GoodCall, Claimed
      <3>4. RefInv'
        BY <1>0, <1>1, <1>2, <3>1, <3>3 DEF RefInv, GoodCall, SameJobs
      <3>5. Step
        BY <1>0, <1>2, <1>3, <1>4, <3>1, <3>2, <3>3, StepClaims
      <3> QED BY <3>4, <3>5
    <2> QED BY <2>2, <2>3
  <1> QED BY <1>6, <1>7

\* What a write may do to LastAppliedTag.
Writes(o, bundle) ==
    \/ bundle.status.lastAppliedTag # NoTag
    \/ bundle.status.lastAppliedTag = op[o].bundle.status.lastAppliedTag

LEMMA UpdateStep ==
    ASSUME TypeInv, ClaimInv, RefInv, NEW o \in Operators,
           NEW bundle \in Bundle, NEW next, NEW onError \in Outcomes,
           Update(o, bundle, next, onError), op[o].pc \notin Claiming,
           Writes(o, bundle),
           \/ bundle.exists
           \/ /\ next \in Outcomes
              /\ bundle.status.lastAppliedTag
                   = op[o].bundle.status.lastAppliedTag,
           next \in Outcomes \/ next \notin Tagged
             \/ /\ next = "build" /\ op[o].pc = "claim"
                /\ bundle.status.lastAppliedTag = op[o].tag
    PROVE  RefInv' /\ Step
  <1>1. CASE Persist(o, bundle, next)
    BY <1>1, PersistStep DEF Writes
  <1>2. CASE Abandon(o, onError)
    BY <1>2, ReturnStep DEF Abandon
  <1>3. CASE Persist(o, bundle, onError)
    BY <1>3, PersistStep DEF Writes
  <1> QED BY <1>1, <1>2, <1>3 DEF Update

LEMMA UpdateStatusStep ==
    ASSUME TypeInv, ClaimInv, RefInv, NEW o \in Operators,
           NEW status \in Status, NEW next, UpdateStatus(o, status, next),
           op[o].pc \notin Claiming,
           \/ status.lastAppliedTag # NoTag
           \/ status.lastAppliedTag = op[o].bundle.status.lastAppliedTag,
           next \in Outcomes \/ next \notin Tagged
             \/ /\ next = "build" /\ op[o].pc = "claim"
                /\ status.lastAppliedTag = op[o].tag
    PROVE  RefInv' /\ Step
  <1> DEFINE bundle == [op[o].bundle EXCEPT !.status = status]
  <1>1. op[o].bundle \in Bundle /\ op[o].bundle.exists
    BY CallType DEF RefInv, GoodCall
  <1>2. bundle \in Bundle /\ bundle.exists /\ bundle.status = status
    BY <1>1 DEF Bundle
  <1>3. Update(o, bundle, next, "requeue") /\ "requeue" \in Outcomes
    BY DEF UpdateStatus, Outcomes
  <1> HIDE DEF bundle
  <1>4. Writes(o, bundle)
    BY <1>2 DEF Writes
  <1> QED BY <1>2, <1>3, <1>4, UpdateStep

\* The writes of Reconcile.
LEMMA WritesStep ==
    ASSUME TypeInv, ClaimInv, RefInv, NEW o \in Operators,
           \/ RemoveFinalizer(o) \/ AddFinalizer(o) \/ RejectSpec(o)
           \/ ResolveNamespace(o) \/ RejectServiceAccount(o)
           \/ RegistryFailed(o) \/ RegistryRetry(o) \/ NoTags(o)
           \/ AlreadyApplied(o) \/ Claim(o) \/ BuildFailed(o)
           \/ CreateFailed(o) \/ TrackJob(o) \/ RecordSuccess(o)
           \/ RecordFailure(o)
    PROVE  RefInv' /\ Step
  <1> DEFINE bundle == op[o].bundle
             status == bundle.status
  <1>0. /\ bundle \in Bundle /\ status \in Status /\ bundle.exists
        /\ op[o].tag \in Tags \union {NoTag, ErrorText}
        /\ op[o].job \in JobNames \union {NoJob}
        /\ "done" \in Outcomes /\ "requeue" \in Outcomes
        /\ \A tag \in Tags \union {NoTag, ErrorText} :
              /\ updateStatusSyncing(status, tag) \in Status
              /\ updateStatusSynced(status, tag) \in Status
        /\ \A cause \in Causes : updateStatusFailed(status, cause) \in Status
    BY CallType, StatusType DEF Outcomes, Causes, RefInv, GoodCall
  <1>p. op[o].pc \notin Claiming
    BY DEF RemoveFinalizer, AddFinalizer, RejectSpec, ResolveNamespace,
           RejectServiceAccount, RegistryFailed, RegistryRetry, NoTags,
           AlreadyApplied, Claim, BuildFailed, CreateFailed, TrackJob,
           RecordSuccess, RecordFailure, Claiming
  <1>n. /\ \A b : AfterNamespace(b) \notin Tagged
        /\ \A b : AfterFinalizer(b) \notin Tagged
        /\ PollAgain(bundle.spec) \in Outcomes
    BY DEF AfterNamespace, AfterFinalizer, PollAgain, Outcomes, Tagged
  <1>f. \A cause : updateStatusFailed(status, cause).lastAppliedTag
                     = status.lastAppliedTag
    BY <1>0 DEF updateStatusFailed, Status
  <1>s. /\ \A tag : tag # NoTag =>
              /\ updateStatusSyncing(status, tag).lastAppliedTag = tag
              /\ updateStatusSynced(status, tag).lastAppliedTag = tag
        /\ updateStatusSyncing(status, NoTag).lastAppliedTag
             = status.lastAppliedTag
    BY <1>0 DEF updateStatusSyncing, updateStatusSynced, Status
  <1>1. CASE RemoveFinalizer(o)
    <2> DEFINE b == [bundle EXCEPT !.finalizer = FALSE, !.exists = FALSE]
    <2>1. b \in Bundle /\ b.status = status
      BY <1>0 DEF Bundle
    <2>2. Update(o, b, "done", "requeue")
      BY <1>1 DEF RemoveFinalizer
    <2> HIDE DEF b
    <2> QED BY <1>0, <1>p, <2>1, <2>2, UpdateStep DEF Writes
  <1>2. CASE AddFinalizer(o)
    <2> DEFINE b == [bundle EXCEPT !.finalizer = TRUE]
    <2>1. b \in Bundle /\ b.status = status /\ b.exists
      BY <1>0 DEF Bundle
    <2>2. Update(o, b, AfterFinalizer(b), "requeue")
      BY <1>2 DEF AddFinalizer
    <2> HIDE DEF b
    <2> QED BY <1>0, <1>n, <1>p, <2>1, <2>2, UpdateStep DEF Writes
  <1>3. CASE ResolveNamespace(o)
    <2> DEFINE st == [status EXCEPT !.resolvedTargetNamespace =
                        GetTargetNamespace(bundle.spec)]
    <2>1. st \in Status /\ st.lastAppliedTag = status.lastAppliedTag
      BY <1>0, TargetType DEF Status
    <2>2. UpdateStatus(o, st, AfterNamespace(bundle))
      BY <1>3 DEF ResolveNamespace
    <2> HIDE DEF st
    <2> QED BY <1>n, <1>p, <2>1, <2>2, UpdateStatusStep
  <1>4. CASE RejectServiceAccount(o)
    <2> DEFINE b == [bundle EXCEPT !.status =
                       updateStatusFailed(@, "serviceAccount")]
    <2>1. updateStatusFailed(status, "serviceAccount") \in Status
      BY <1>0 DEF Causes
    <2>2. /\ b \in Bundle /\ b.exists
          /\ b.status.lastAppliedTag = status.lastAppliedTag
      BY <1>0, <1>f, <2>1 DEF Bundle
    <2>3. Update(o, b, "done", "done")
      BY <1>4 DEF RejectServiceAccount
    <2> HIDE DEF b
    <2> QED BY <1>0, <1>p, <2>2, <2>3, UpdateStep DEF Writes
  <1>5. CASE \/ RejectSpec(o) \/ RegistryFailed(o) \/ BuildFailed(o)
             \/ CreateFailed(o) \/ RecordFailure(o)
    <2>1. PICK cause \in Causes :
             UpdateStatus(o, updateStatusFailed(status, cause), "done")
      BY <1>5 DEF RejectSpec, RegistryFailed, BuildFailed, CreateFailed,
                  RecordFailure, Causes
    <2> QED BY <1>0, <1>f, <1>p, <2>1, UpdateStatusStep
  <1>6. CASE RegistryRetry(o)
    <2>1. UpdateStatus(o, updateStatusSyncing(status, ErrorText), "requeue")
      BY <1>6 DEF RegistryRetry
    <2>2. ErrorText # NoTag
      BY DEF ErrorText, NoTag
    <2> QED BY <1>0, <1>p, <1>s, <2>1, <2>2, UpdateStatusStep
  <1>7. CASE NoTags(o)
    <2>1. UpdateStatus(o, updateStatusSyncing(status, NoTag),
                       PollAgain(bundle.spec))
      BY <1>7 DEF NoTags
    <2> QED BY <1>0, <1>n, <1>p, <1>s, <2>1, UpdateStatusStep
  <1>8. CASE AlreadyApplied(o) \/ RecordSuccess(o)
    <2>1. /\ UpdateStatus(o, updateStatusSynced(status, op[o].tag), "done")
          /\ op[o].pc \in Tagged
      BY <1>8 DEF AlreadyApplied, RecordSuccess, Tagged
    <2>2. op[o].tag # NoTag
      BY <2>1 DEF RefInv, GoodCall
    <2> QED BY <1>0, <1>p, <1>s, <2>1, <2>2, UpdateStatusStep
  <1>9. CASE Claim(o)
    <2>1. /\ UpdateStatus(o, updateStatusSyncing(status, op[o].tag), "build")
          /\ op[o].pc = "claim"
      BY <1>9 DEF Claim
    <2>2. op[o].tag # NoTag
      BY <2>1 DEF RefInv, GoodCall, Tagged
    <2> QED BY <1>0, <1>p, <1>s, <2>1, <2>2, UpdateStatusStep
  <1>10. CASE TrackJob(o)
    <2> DEFINE st == [status EXCEPT !.activeJobName = op[o].job,
                                    !.lastJobStatus = "Running"]
    <2>1. st \in Status /\ st.lastAppliedTag = status.lastAppliedTag
      BY <1>0 DEF Status
    <2>2. UpdateStatus(o, st, "requeue")
      BY <1>10 DEF TrackJob
    <2> HIDE DEF st
    <2> QED BY <1>0, <1>p, <2>1, <2>2, UpdateStatusStep
  <1> QED BY <1>1, <1>2, <1>3, <1>4, <1>5, <1>6, <1>7, <1>8, <1>9, <1>10

\* The reads of Reconcile, up to the poll that finds a tag.
LEMMA ReadsStep ==
    ASSUME TypeInv, ClaimInv, RefInv, NEW o \in Operators,
           \/ StartReconcile(o) \/ CheckServiceAccount(o) \/ PollFails(o)
           \/ PollNotModified(o) \/ PollFindsNoTags(o)
           \/ \E latestTag \in Tags : PollFindsTag(o, latestTag)
    PROVE  RefInv' /\ Step
  <1> DEFINE bundle == op[o].bundle
  <1>0. /\ op[o] \in Call /\ bundle \in Bundle /\ bundle.status \in Status
        /\ bundle.exists /\ (op[o].fresh => api.exists)
    BY CallType DEF RefInv, GoodCall
  <1>q. \A pc \in {"poll", "rejectServiceAccount", "registryFailed",
                   "registryRetry", "noTags"} :
           pc \notin Tagged /\ pc \notin Claiming
    BY DEF Tagged, Claiming
  <1>u. UNCHANGED <<api, jobs>>
    BY DEF StartReconcile, CheckServiceAccount, PollFails, PollNotModified,
           PollFindsNoTags, PollFindsTag
  <1>1. CASE StartReconcile(o)
    <2> DEFINE cached == informer[o].bundle
               call == [op[o] EXCEPT !.pc = FirstStep(cached),
                                     !.bundle = cached,
                                     !.fresh = informer[o].fresh]
    <2>1. FirstStep(cached) \notin Tagged /\ FirstStep(cached) \notin Claiming
      BY DEF FirstStep, AfterFinalizer, AfterNamespace, Tagged, Claiming
    <2>2. /\ call.pc = FirstStep(cached) /\ call.bundle = cached
          /\ call.fresh = informer[o].fresh
      BY <1>0 DEF Call
    <2>3. op' = op \/ (cached.exists /\ op' = [op EXCEPT ![o] = call])
      BY <1>1 DEF StartReconcile
    <2> HIDE DEF call
    <2>4. CASE cached.exists /\ op' = [op EXCEPT ![o] = call]
      <3>1. GoodCall(call) /\ (call.fresh => api.exists)
        BY <2>1, <2>2, <2>4 DEF GoodCall, ClaimInv, FreshCaches
      <3> QED BY <1>u, <2>1, <2>2, <2>4, <3>1, LocalStep
    <2>5. CASE op' = op
      <3>1. SameRegister /\ SameClaims /\ SameJobs
        BY <1>u, <2>5 DEF SameRegister, SameClaims, SameJobs
      <3>2. RefInv'
        BY <1>u, <2>5 DEF RefInv, GoodCall
      <3> QED BY <3>1, <3>2, StepStutters
    <2> QED BY <2>3, <2>4, <2>5
  <1>2. CASE CheckServiceAccount(o)
    <2>1. \/ Goto(o, "poll", bundle) \/ Goto(o, "rejectServiceAccount", bundle)
      BY <1>2 DEF CheckServiceAccount
    <2> QED BY <1>q, <1>u, <2>1, GotoStep
  <1>3. CASE PollFails(o)
    <2> DEFINE failed == [bundle EXCEPT !.status.consecutiveFailures = @ + 1]
    <2>1. failed.exists = bundle.exists
      BY <1>0 DEF Bundle
    <2>2. \/ Goto(o, "registryFailed", failed)
          \/ Goto(o, "registryRetry", failed)
      BY <1>3 DEF PollFails
    <2> HIDE DEF failed
    <2> QED BY <1>q, <1>u, <2>1, <2>2, GotoStep
  <1>4. CASE PollNotModified(o)
    BY <1>u, <1>4, ReturnStep DEF PollNotModified
  <1>5. CASE PollFindsNoTags(o)
    <2> DEFINE polled == [bundle EXCEPT !.status = Polled(bundle)]
    <2>1. polled.exists = bundle.exists
      BY <1>0 DEF Bundle
    <2>2. Goto(o, "noTags", polled) \/ Return(o, PollAgain(bundle.spec))
      BY <1>5 DEF PollFindsNoTags
    <2> HIDE DEF polled
    <2> QED BY <1>q, <1>u, <2>1, <2>2, GotoStep, ReturnStep
  <1>6. ASSUME NEW latestTag \in Tags, PollFindsTag(o, latestTag)
        PROVE  RefInv' /\ Step
    <2> DEFINE call == TagFound(op[o], latestTag)
    <2>1. \/ Return(o, "done")
          \/ op' = [op EXCEPT ![o] = call]
      BY <1>6 DEF PollFindsTag
    <2>2. /\ call.fresh = op[o].fresh /\ call.tag = latestTag
          /\ call.bundle = [bundle EXCEPT !.status = Polled(bundle)]
          /\ call.pc \in {"alreadyApplied", "getActiveJob", "claim"}
      BY <1>0 DEF TagFound, Call
    <2>3. call.bundle.exists
      BY <1>0, <2>2 DEF Bundle
    <2> HIDE DEF call
    <2>4. GoodCall(call) /\ call.pc \notin Claiming
      BY <2>2, <2>3, TagsAssumption DEF GoodCall, NoTag, Claiming
    <2>5. CASE op' = [op EXCEPT ![o] = call]
      BY <1>0, <1>u, <2>2, <2>4, <2>5, LocalStep
    <2>6. CASE Return(o, "done")
      BY <1>u, <2>6, ReturnStep
    <2> QED BY <2>1, <2>5, <2>6
  <1> QED BY <1>1, <1>2, <1>3, <1>4, <1>5, <1>6

\* A claim becomes a Job, or comes to nothing.
LEMMA CreateJobStep ==
    ASSUME TypeInv, RefInv, NEW o \in Operators, CreateJob(o)
    PROVE  RefInv' /\ Step
  <1>0. op[o] \in Call /\ op[o].pc = "createJob" /\ UNCHANGED api
    BY CallType DEF CreateJob
  <1>1. /\ op'[o].pc \in {"trackJob", "createFailed"}
        /\ op'[o].bundle = op[o].bundle /\ op'[o].fresh = op[o].fresh
        /\ \A p \in Operators \ {o} : op'[p] = op[p]
    <2>1. \/ op' = [op EXCEPT ![o].pc = "createFailed"]
          \/ \E j \in JobNames :
                op' = [op EXCEPT ![o] = [@ EXCEPT !.pc = "trackJob", !.job = j]]
      BY DEF CreateJob
    <2>2. CASE op' = [op EXCEPT ![o].pc = "createFailed"]
      BY <1>0, <2>2 DEF TypeInv, TypeOK, Call
    <2>3. ASSUME NEW j,
                 op' = [op EXCEPT ![o] = [@ EXCEPT !.pc = "trackJob", !.job = j]]
          PROVE  /\ op'[o].pc = "trackJob"
                 /\ op'[o].bundle = op[o].bundle /\ op'[o].fresh = op[o].fresh
                 /\ \A p \in Operators \ {o} : op'[p] = op[p]
      BY <1>0, <2>3 DEF TypeInv, TypeOK, Call
    <2> QED BY <2>1, <2>2, <2>3
  <1>2. /\ Claimed(op[o]) = op[o].tag /\ Claimed(op'[o]) = NoTag
        /\ op[o].tag # NoTag
        /\ \A p \in Operators \ {o} : Claimed(op'[p]) = Claimed(op[p])
    BY <1>0, <1>1 DEF Claimed, RefInv, GoodCall, Tagged
  <1>3. \A p \in Operators : GoodCall(op'[p]) /\ (op'[p].fresh => api'.exists)
    BY <1>0, <1>1 DEF RefInv, GoodCall, Tagged
  <1>4. SameRegister
    BY <1>0 DEF SameRegister
  <1>5. CASE UNCHANGED jobs
    <2>1. RefInv'
      BY <1>3, <1>5 DEF RefInv
    <2>2. SameJobs
      BY <1>5 DEF SameJobs
    <2> QED BY <1>2, <1>4, <2>1, <2>2, StepGivesUp
  <1>6. ASSUME NEW j \in JobNames, jobs[j].outcome = "unused",
               jobs' = [jobs EXCEPT ![j] = NewJob(o)]
        PROVE  RefInv' /\ Step
    <2>1. /\ jobs'[j].tag = op[o].tag /\ jobs'[j].outcome = "running"
          /\ \A k \in JobNames \ {j} : jobs'[k] = jobs[k]
      BY <1>6 DEF NewJob, TypeInv, TypeOK
    <2>2. RefInv'
      BY <1>3, <2>1 DEF RefInv
    <2>3. jobs[j].tag = NoTag
      BY <1>6 DEF RefInv
    <2> QED BY <1>2, <1>4, <2>1, <2>2, <2>3, StepDeploys
  <1> QED BY <1>5, <1>6 DEF CreateJob

LEMMA JobStepsStep ==
    ASSUME TypeInv, RefInv, NEW o \in Operators,
           \/ GetActiveJob(o) \/ Build(o) \/ CaptureLogs(o)
    PROVE  RefInv' /\ Step
  <1> DEFINE bundle == op[o].bundle
  <1>0. /\ op[o] \in Call /\ bundle \in Bundle /\ bundle.status \in Status
        /\ GoodCall(op[o]) /\ (op[o].fresh => api.exists)
    BY CallType DEF RefInv
  <1>u. UNCHANGED <<api, jobs>>
    BY DEF GetActiveJob, Build, CaptureLogs
  <1>1. CASE GetActiveJob(o)
    <2>0. op[o].pc \in Tagged
      BY <1>1 DEF GetActiveJob, Tagged
    <2>1. ASSUME Goto(o, "claim", [bundle EXCEPT !.status.activeJobName = NoJob])
          PROVE  RefInv' /\ Step
      <3> DEFINE cleared == [bundle EXCEPT !.status.activeJobName = NoJob]
      <3>1. cleared.exists = bundle.exists
        BY <1>0 DEF Bundle
      <3>2. Goto(o, "claim", cleared) /\ "claim" \notin Claiming
        BY <2>1 DEF Claiming
      <3> HIDE DEF cleared
      <3> QED BY <1>u, <2>0, <3>1, <3>2, GotoStep
    <2>2. ASSUME NEW outcome,
                 op' = [op EXCEPT ![o] = JobFinished(@, outcome)]
          PROVE  RefInv' /\ Step
      <3> DEFINE call == JobFinished(op[o], outcome)
      <3>1. /\ call.pc = "captureLogs" /\ call.fresh = op[o].fresh
            /\ call.tag = op[o].tag /\ call.bundle.exists = bundle.exists
        BY <1>0 DEF JobFinished, Call, Bundle
      <3>2. op' = [op EXCEPT ![o] = call]
        BY <2>2
      <3> HIDE DEF call
      <3>3. GoodCall(call) /\ call.pc \notin Claiming
        BY <1>0, <2>0, <3>1 DEF GoodCall, Claiming
      <3> QED BY <1>0, <1>u, <3>1, <3>2, <3>3, LocalStep
    <2> QED BY <1>1, <1>u, <2>1, <2>2, ReturnStep DEF GetActiveJob
  <1>2. CASE Build(o)
    <2>1. op[o].pc = "build" /\ op[o].pc \in Tagged /\ op[o].pc \in Claiming
      BY <1>2 DEF Build, Tagged, Claiming
    <2>2. \/ Return(o, "requeue") \/ Goto(o, "createJob", bundle)
          \/ Goto(o, "buildFailed", bundle)
      BY <1>2 DEF Build
    <2> QED BY <1>u, <2>1, <2>2, GotoStep, ReturnStep
  <1>3. CASE CaptureLogs(o)
    <2>1. /\ StatusLogs(o, TRUE).exists = bundle.exists
          /\ StatusLogs(o, FALSE).exists = bundle.exists
      BY <1>0 DEF StatusLogs, Bundle
    <2>2. /\ RecordStep(bundle.status) \notin Claiming
          /\ op[o].pc \in Tagged
      BY <1>3 DEF CaptureLogs, RecordStep, Claiming, Tagged
    <2>3. \E b : b.exists = bundle.exists
                 /\ Goto(o, RecordStep(bundle.status), b)
      BY <1>3, <2>1 DEF CaptureLogs
    <2> QED BY <1>u, <2>2, <2>3, GotoStep
  <1> QED BY <1>1, <1>2, <1>3

\* The work queue, the caches and a restart, which ends a call.
LEMMA RuntimeStep ==
    ASSUME TypeInv, RefInv, NEW o \in Operators,
           \/ TimerFires(o) \/ SyncInformer(o) \/ Crash(o)
           \/ \E j \in JobNames : SyncJob(o, j)
    PROVE  RefInv' /\ Step
  <1>u. UNCHANGED <<api, jobs>>
    BY DEF TimerFires, SyncInformer, Crash, SyncJob
  <1>1. UNCHANGED op \/ op' = [op EXCEPT ![o] = Idle]
    BY DEF TimerFires, SyncInformer, Crash, SyncJob
  <1>2. CASE UNCHANGED op
    <2>1. SameRegister /\ SameClaims /\ SameJobs
      BY <1>u, <1>2 DEF SameRegister, SameClaims, SameJobs
    <2>2. RefInv'
      BY <1>u, <1>2 DEF RefInv, GoodCall
    <2> QED BY <2>1, <2>2, StepStutters
  <1>3. CASE op' = [op EXCEPT ![o] = Idle]
    <2>1. GoodCall(Idle) /\ ~Idle.fresh /\ Idle.pc \notin Claiming
      BY DEF Idle, Blank, NewBundle, GoodCall, Tagged, Claiming
    <2> QED BY <1>u, <1>3, <2>1, LocalStep
  <1> QED BY <1>1, <1>2, <1>3

\* Users remove a bundle, or leave its register alone; nobody but the
\* controller gives a Job its tag.
LEMMA EnvironmentStep ==
    ASSUME TypeInv, RefInv, Environment PROVE RefInv' /\ Step
  <1>1. ASSUME NEW bundle, UserWrites(bundle),
               bundle.status = api.status
        PROVE  RefInv' /\ Step
    <2>1. \A p \in Operators : /\ ~op'[p].fresh /\ op'[p].pc = op[p].pc
                               /\ op'[p].bundle = op[p].bundle
                               /\ op'[p].tag = op[p].tag
      BY <1>1 DEF UserWrites, TypeInv, TypeOK, Call
    <2>2. api' = bundle /\ UNCHANGED jobs /\ api.exists
      BY <1>1 DEF UserWrites
    <2>3. RefInv'
      BY <2>1, <2>2 DEF RefInv, GoodCall
    <2>4. SameClaims /\ SameJobs
      BY <2>1, <2>2 DEF SameClaims, SameJobs, Claimed
    <2>5. CASE api'.exists
      <3>1. api'.exists = api.exists
        BY <2>2, <2>5 DEF TypeInv, TypeOK, Bundle
      <3>2. SameRegister
        BY <1>1, <2>2, <3>1 DEF SameRegister
      <3> QED BY <2>3, <2>4, <3>2, StepStutters
    <2>6. CASE ~api'.exists
      BY <1>1, <2>2, <2>3, <2>4, <2>6, StepRemoves
    <2> QED BY <2>5, <2>6
  <1>2. ASSUME UNCHANGED <<api, op>>,
               \A j \in JobNames :
                  /\ jobs'[j].tag = jobs[j].tag
                  /\ jobs'[j].outcome = "unused" => jobs[j].outcome = "unused"
        PROVE  RefInv' /\ Step
    <2>1. SameRegister /\ SameClaims /\ SameJobs
      BY <1>2 DEF SameRegister, SameClaims, SameJobs
    <2>2. RefInv'
      BY <1>2 DEF RefInv, GoodCall
    <2> QED BY <2>1, <2>2, StepStutters
  <1>3. CASE EditSpec
    <2>1. PICK spec : UserWrites([api EXCEPT !.spec = spec])
      BY <1>3 DEF EditSpec
    <2>2. [api EXCEPT !.spec = spec].status = api.status
      BY DEF TypeInv, TypeOK, Bundle
    <2> QED BY <1>1, <2>1, <2>2
  <1>4. CASE DeleteBundle
    <2> DEFINE b == [api EXCEPT !.deleting = TRUE, !.exists = api.finalizer]
    <2>1. b.status = api.status
      BY DEF TypeInv, TypeOK, Bundle
    <2>2. UserWrites(b)
      BY <1>4 DEF DeleteBundle
    <2> QED BY <1>1, <2>1, <2>2
  <1>5. CASE PushTag \/ WithdrawTag \/ RegistryFlips \/ ServiceAccountFlips
             \/ ConfigMapsCollected
    BY <1>2, <1>5 DEF PushTag, WithdrawTag, RegistryFlips,
                      ServiceAccountFlips, ConfigMapsCollected
  <1>6. ASSUME NEW j \in JobNames, JobFinishes(j) \/ JobRemoved(j)
        PROVE  RefInv' /\ Step
    <2>1. UNCHANGED <<api, op>>
      BY <1>6 DEF JobFinishes, JobRemoved
    <2>2. \A k \in JobNames :
             /\ jobs'[k].tag = jobs[k].tag
             /\ jobs'[k].outcome = "unused" => jobs[k].outcome = "unused"
      <3>1. CASE jobs' = [jobs EXCEPT ![j].present = FALSE]
        BY <3>1 DEF TypeInv, TypeOK, Job
      <3>2. ASSUME NEW outcome \in {"succeeded", "failed"},
                   jobs' = [jobs EXCEPT ![j].outcome = outcome]
            PROVE  \A k \in JobNames :
                      /\ jobs'[k].tag = jobs[k].tag
                      /\ jobs'[k].outcome = "unused"
                           => jobs[k].outcome = "unused"
        BY <3>2 DEF TypeInv, TypeOK, Job
      <3> QED BY <1>6, <3>1, <3>2 DEF JobFinishes, JobRemoved
    <2> QED BY <1>2, <2>1, <2>2
  <1> QED BY <1>3, <1>4, <1>5, <1>6 DEF Environment

-----------------------------------------------------------------------------
LEMMA InitRef == Init => RefInv /\ Promise!Init
  <1> SUFFICES ASSUME Init PROVE RefInv /\ Promise!Init
    OBVIOUS
  <1>1. PICK spec \in Specs : api = NewBundle(spec)
    BY DEF Init
  <1>2. api.exists /\ api.status.lastAppliedTag = NoTag
    BY <1>1 DEF NewBundle, NoStatus
  <1>3. /\ \A o \in Operators : op[o] = Idle
        /\ \A j \in JobNames : jobs[j] = Unused
    BY DEF Init
  <1>4. GoodCall(Idle) /\ ~Idle.fresh /\ Claimed(Idle) = NoTag
        /\ Unused.tag = NoTag
    BY DEF Idle, Blank, NewBundle, GoodCall, Tagged, Claimed, Unused
  <1>5. RefInv
    BY <1>3, <1>4 DEF RefInv
  <1>6. Promise!Init
    BY <1>2, <1>3, <1>4 DEF Promise!Init
  <1> QED BY <1>5, <1>6

LEMMA NextRef == TypeInv /\ ClaimInv /\ RefInv /\ [Next]_vars => RefInv' /\ Step
  <1> SUFFICES ASSUME TypeInv, ClaimInv, RefInv, [Next]_vars
               PROVE  RefInv' /\ Step
    OBVIOUS
  <1>1. ASSUME NEW o \in Operators, Reconcile(o) PROVE RefInv' /\ Step
    BY <1>1, WritesStep, ReadsStep, CreateJobStep, JobStepsStep DEF Reconcile
  <1>2. CASE UNCHANGED vars
    <2>1. SameRegister /\ SameClaims /\ SameJobs
      BY <1>2 DEF vars, SameRegister, SameClaims, SameJobs
    <2>2. RefInv'
      BY <1>2 DEF vars, RefInv, GoodCall
    <2> QED BY <2>1, <2>2, StepStutters
  <1> QED BY <1>1, <1>2, RuntimeStep, EnvironmentStep DEF Next

(***************************************************************************)
(* The controller implements Deployments, for any number of operators,     *)
(* tags, specs and faults: every Job comes from an unused claim of its     *)
(* tag, every claim is one swap of LastAppliedTag, and a bundle that is    *)
(* gone stays gone.                                                        *)
(***************************************************************************)
THEOREM DeploymentsKeepPromise == Spec => KeepsPromise
  BY InitType, NextType, InitClaim, NextClaim, InitRef, NextRef, PTL
     DEF Spec, KeepsPromise, Promise!Spec, Step
=============================================================================
