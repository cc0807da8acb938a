------------------------------- MODULE JobProofs ------------------------------
(***************************************************************************)
(* Proofs about the Jobs: which ones Reconcile creates (their spec passed  *)
(* validation, their tag is listed, their retention is what was asked for) *)
(* and what becomes of them (the one that runs is tracked, a claimed tag   *)
(* is accounted for, none is deployed twice or after a later one).         *)
(***************************************************************************)
EXTENDS StatusProofs

-----------------------------------------------------------------------------
(* Where the spec and the tag of a call and of a Job come from.            *)

\* The labels Reconcile reaches only after ValidateCrossNamespaceDeployment.
AfterValidation ==
    Labels \ {"idle", "removeFinalizer", "addFinalizer", "rejectSpec"}

\* The labels at which a call works on the tag that its poll returned.
Polling == Found \union {"build", "createJob"}

\* The call of p works on the spec it had and that passed validation, or on
\* one that passes it; and on the tag it had or on one that is listed.
CallOrigin(p) ==
    /\ op'[p].pc \in AfterValidation =>
          \/ /\ op[p].pc \in AfterValidation
             /\ op'[p].bundle.spec = op[p].bundle.spec
          \/ ValidateCrossNamespaceDeployment(op'[p].bundle.spec)
    /\ op'[p].pc \in Polling =>
          \/ /\ op[p].pc \in Polling /\ op'[p].tag = op[p].tag
             /\ op'[p].bundle.spec = op[p].bundle.spec
          \/ op'[p].tag \in registry.tags[op'[p].bundle.spec.url]

\* A Job is what it was, or has just been created by a call.
JobOrigin(j) ==
    \/ jobs'[j].outcome = "unused"
    \/ /\ jobs[j].outcome # "unused"
       /\ jobs'[j].tag = jobs[j].tag /\ jobs'[j].spec = jobs[j].spec
    \/ \E p \in Operators :
          /\ op[p].pc = "createJob"
          /\ jobs'[j].tag = op[p].tag /\ jobs'[j].spec = op[p].bundle.spec
          /\ Accepted(op[p].bundle.spec, op[p].tag)

LEMMA SameCall ==
    ASSUME NEW p,
           \/ op'[p] = op[p] \/ op'[p] = Idle
           \/ /\ op'[p].pc = op[p].pc /\ op'[p].bundle = op[p].bundle
              /\ op'[p].tag = op[p].tag
    PROVE  CallOrigin(p)
  <1>1. Idle.pc \notin Polling \union AfterValidation
    BY DEF Idle, Polling, Found, AfterValidation
  <1> QED BY <1>1 DEF CallOrigin

\* What lies beyond the finalizer is beyond validation too.
LEMMA NextIsValid ==
    ASSUME NEW bundle
    PROVE  /\ AfterFinalizer(bundle) \in AfterValidation =>
                 ValidateCrossNamespaceDeployment(bundle.spec)
           /\ FirstStep(bundle) \in AfterValidation =>
                 ValidateCrossNamespaceDeployment(bundle.spec)
           /\ {AfterFinalizer(bundle), AfterNamespace(bundle),
               FirstStep(bundle)} \intersect Polling = {}
  BY DEF AfterFinalizer, AfterNamespace, FirstStep, AfterValidation, Polling,
         Found

LEMMA Origins ==
    ASSUME TypeInv, [Next]_vars
    PROVE  /\ \A p \in Operators : CallOrigin(p)
           /\ \A j \in JobNames : JobOrigin(j)
  <1> DEFINE Goal == /\ \A p \in Operators : CallOrigin(p)
                     /\ \A j \in JobNames : JobOrigin(j)
  <1>1. ASSUME NEW o \in Operators, StartReconcile(o) PROVE Goal
    <2>1. /\ UNCHANGED jobs
          /\ \/ op' = op
             \/ /\ \A p \in Operators \ {o} : op'[p] = op[p]
                /\ op'[o].pc = FirstStep(informer[o].bundle)
                /\ op'[o].bundle = informer[o].bundle
      BY <1>1, StartEffect
    <2>2. CallOrigin(o)
      <3>1. CASE op' = op
        BY <3>1, SameCall
      <3>2. CASE /\ op'[o].pc = FirstStep(informer[o].bundle)
                 /\ op'[o].bundle = informer[o].bundle
        BY <3>2, NextIsValid DEF CallOrigin
      <3> QED BY <2>1, <3>1, <3>2
    <2>3. \A p \in Operators : CallOrigin(p)
      BY <2>1, <2>2, SameCall
    <2> QED BY <2>1, <2>3 DEF JobOrigin
  <1>2. ASSUME NEW o \in Operators, Write(o) PROVE Goal
    <2>1. CASE op' = [op EXCEPT ![o] = Idle] /\ UNCHANGED <<api, jobs, informer>>
      <3>1. \A p \in Operators : op'[p] = op[p] \/ op'[p] = Idle
        BY <2>1 DEF TypeInv, TypeOK
      <3> QED BY <2>1, <3>1, SameCall DEF JobOrigin
    <2>2. ASSUME NEW bundle \in Bundle, NEW next \in Plainly \union Outcomes,
                 Written(op[o], bundle, next), Persist(o, bundle, next)
          PROVE  Goal
      <3>1. /\ \A p \in Operators \ {o} :
                  /\ op'[p].pc = op[p].pc /\ op'[p].bundle = op[p].bundle
                  /\ op'[p].tag = op[p].tag
            /\ \A j \in JobNames : /\ jobs'[j].outcome = jobs[j].outcome
                                   /\ jobs'[j].tag = jobs[j].tag
                                   /\ jobs'[j].spec = jobs[j].spec
        BY <2>2, PersistEffect
      <3>2. CallOrigin(o)
        <4>1. CASE next \in Outcomes
          BY <2>2, <4>1, PersistEffect, SameCall
        <4>2. CASE next \notin Outcomes
          <5>1. /\ op'[o].pc = next /\ op'[o].bundle = bundle
                /\ op'[o].tag = op[o].tag
                /\ bundle.spec = op[o].bundle.spec
            BY <2>2, <4>2, PersistEffect DEF Written
          <5>2. \/ op[o].pc = "addFinalizer" /\ next = AfterFinalizer(bundle)
                \/ /\ op[o].pc = "resolveNamespace"
                   /\ next = AfterNamespace(bundle)
                \/ op[o].pc = "claim" /\ next = "build"
            BY <2>2, <4>2 DEF Written
          <5>3. {"resolveNamespace", "claim"} \subseteq AfterValidation
            BY DEF AfterValidation, Labels
          <5> QED BY <5>1, <5>2, <5>3, NextIsValid
                  DEF CallOrigin, Polling, Found
        <4> QED BY <4>1, <4>2
      <3>3. \A p \in Operators : CallOrigin(p)
        BY <3>1, <3>2, SameCall
      <3> QED BY <3>1, <3>3 DEF JobOrigin
    <2> QED BY <1>2, <2>1, <2>2, WriteEffect
  <1>3. ASSUME NEW o \in Operators, Local(o) PROVE Goal
    <2>1. CASE op' = [op EXCEPT ![o] = Idle] /\ UNCHANGED jobs
      <3>1. \A p \in Operators : op'[p] = op[p] \/ op'[p] = Idle
        BY <2>1 DEF TypeInv, TypeOK
      <3> QED BY <2>1, <3>1, SameCall DEF JobOrigin
    <2>2. ASSUME NEW call, op' = [op EXCEPT ![o] = call], Moved(o, call)
          PROVE  Goal
      <3>1. op'[o] = call /\ \A p \in Operators \ {o} : op'[p] = op[p]
        BY <2>2 DEF TypeInv, TypeOK
      <3>2. CallOrigin(o)
        <4>1. Moves(op[o].pc, call.pc) /\ call.bundle.spec = op[o].bundle.spec
          BY <2>2 DEF Moved
        <4>2. op[o].pc \in AfterValidation
          BY <4>1 DEF Moves, AfterValidation, Labels
        <4>3. \/ call.pc \notin Polling
              \/ op[o].pc \in Polling /\ call.tag = op[o].tag
              \/ call.tag \in registry.tags[call.bundle.spec.url]
          BY <2>2 DEF Moved, Moves, PollFound, Polling, Found
        <4> QED BY <3>1, <4>1, <4>2, <4>3 DEF CallOrigin
      <3>3. \A p \in Operators : CallOrigin(p)
        BY <3>1, <3>2, SameCall
      <3>4. \A j \in JobNames : JobOrigin(j)
        <4>1. CASE UNCHANGED jobs
          BY <4>1 DEF JobOrigin
        <4>2. ASSUME op[o].pc = "createJob", NEW j \in JobNames,
                     Accepted(op[o].bundle.spec, op[o].tag),
                     jobs' = [jobs EXCEPT ![j] = NewJob(o)]
              PROVE  \A k \in JobNames : JobOrigin(k)
          <5>1. /\ jobs'[j].tag = op[o].tag
                /\ jobs'[j].spec = op[o].bundle.spec
                /\ \A k \in JobNames \ {j} : jobs'[k] = jobs[k]
            BY <4>2 DEF NewJob, TypeInv, TypeOK
          <5> QED BY <4>2, <5>1 DEF JobOrigin
        <4> QED BY <2>2, <4>1, <4>2 DEF Moved, JobStored
      <3> QED BY <3>3, <3>4
    <2> QED BY <1>3, <2>1, <2>2, LocalTable
  <1>4. ASSUME NEW o \in Operators, Runtime(o) PROVE Goal
    <2>1. UNCHANGED jobs /\ \A p \in Operators : op'[p] \in {op[p], Idle}
      BY <1>4, RuntimeEffect
    <2> QED BY <2>1, SameCall DEF JobOrigin
  <1>5. ASSUME EditSpec \/ DeleteBundle PROVE Goal
    <2>1. /\ UNCHANGED jobs
          /\ \A p \in Operators :
                /\ op'[p].pc = op[p].pc /\ op'[p].bundle = op[p].bundle
                /\ op'[p].tag = op[p].tag
      BY <1>5, UserEffect
    <2> QED BY <2>1, SameCall DEF JobOrigin
  <1>6. ASSUME Outside PROVE Goal
    <2>1. /\ UNCHANGED op
          /\ \A j \in JobNames : /\ jobs'[j].tag = jobs[j].tag
                                 /\ jobs'[j].spec = jobs[j].spec
                                 /\ jobs[j].outcome = "unused" =>
                                       jobs'[j].outcome = "unused"
      BY <1>6, OutsideEffect
    <2> QED BY <2>1, SameCall DEF JobOrigin
  <1>7. ASSUME UNCHANGED vars PROVE Goal
    <2>1. UNCHANGED <<op, jobs>>
      BY <1>7 DEF vars
    <2> QED BY <2>1, SameCall DEF JobOrigin
  <1> QED BY <1>1, <1>2, <1>3, <1>4, <1>5, <1>6, <1>7, StepCases

-----------------------------------------------------------------------------
(* Only what passed validation is deployed.                                *)

\* A call beyond the check works on a spec that passed it.
ValidCall(call) ==
    call.pc \in AfterValidation =>
        ValidateCrossNamespaceDeployment(call.bundle.spec)

ValidInv == (\A o \in Operators : ValidCall(op[o])) /\ JobsAreValidated

(***************************************************************************)
(* No Job leaves the bundle's namespace without a ServiceAccount of its    *)
(* own, however often the spec is edited while Reconcile runs              *)
(* (ValidateCrossNamespaceDeployment comes before every path to Build).    *)
(***************************************************************************)
THEOREM DeploymentsAreValidated == Spec => []JobsAreValidated
  <1>1. Init => ValidInv
    BY DEF Init, ValidInv, ValidCall, AfterValidation, Idle, JobsAreValidated,
           Created, Unused
  <1>2. TypeInv /\ ValidInv /\ [Next]_vars => ValidInv'
    <2> SUFFICES ASSUME TypeInv, ValidInv, [Next]_vars PROVE ValidInv'
      OBVIOUS
    <2>1. \A o \in Operators : ValidCall(op[o])'
      BY Origins DEF CallOrigin, ValidInv, ValidCall
    <2>2. "createJob" \in AfterValidation
      BY DEF AfterValidation, Labels
    <2>3. JobsAreValidated'
      BY <2>2, Origins
         DEF JobOrigin, ValidInv, ValidCall, JobsAreValidated, Created
    <2> QED BY <2>1, <2>3 DEF ValidInv
  <1>3. ValidInv => JobsAreValidated
    BY DEF ValidInv
  <1> QED BY InitType, NextType, <1>1, <1>2, <1>3, PTL DEF Spec

-----------------------------------------------------------------------------
(* A Job is kept as long as its spec asks.                                 *)

LEMMA Powers == 2^24 = 16777216 /\ 2^25 = 33554432
  BY SMT

\* Below 2^32 an int32 is the number itself or negative.
LEMMA Int32Exact ==
    ASSUME NEW n \in Nat, n < 33554432, Int32Units(n) >= 0
    PROVE  Int32Units(n) = n
  <1>1. n % 33554432 = n
    OBVIOUS
  <1>2. Int32Units(n) = IF n >= 16777216 THEN n - 33554432 ELSE n
    BY <1>1, Powers DEF Int32Units
  <1> QED BY <1>2

LEMMA DaysRange ==
    \A days \in 1..MaxDays : days \in Nat /\ days > 0 /\ days <= 49710
  BY DEF MaxDays

LEMMA DaysExact ==
    ASSUME NEW days \in Nat, days > 0, days <= 49710,
           Int32Units(days * 675) >= 0
    PROVE  Int32Units(days * 675) = days * 675
  <1>1. days * 675 \in Nat /\ days * 675 < 33554432
    OBVIOUS
  <1> QED BY <1>1, Int32Exact

\* A positive number of days that is not refused is not cut.
LEMMA RetentionIsExact ==
    ASSUME NEW spec \in BundleSpec, spec.logRetentionDays \in 1..MaxDays,
           getLogRetentionSeconds(spec) >= 0
    PROVE  getLogRetentionSeconds(spec) = spec.logRetentionDays * Day
  <1>1. PICK days \in 1..MaxDays : days = spec.logRetentionDays
    OBVIOUS
  <1>2. days \in Nat /\ days > 0 /\ days <= 49710
    BY <1>1, DaysRange
  <1>3. getLogRetentionSeconds(spec) = Int32Units(days * 675)
    BY <1>1, <1>2 DEF getLogRetentionSeconds, Day
  <1>4. Int32Units(days * 675) >= 0
    BY <1>3
  <1>5. Int32Units(days * 675) = days * 675
    BY <1>2, <1>4, DaysExact
  <1>6. Day = 675
    BY DEF Day
  <1> QED BY <1>1, <1>3, <1>5, <1>6

\* Every Job that was created passed the API server's validation.
JobsAreAccepted ==
    \A j \in JobNames : Created(j) => getLogRetentionSeconds(jobs[j].spec) >= 0

(***************************************************************************)
(* For any specs, edits and faults, a Job that exists is kept for the days *)
(* its spec asks for (getLogRetentionSeconds and the API server's check of *)
(* its sign).                                                              *)
(***************************************************************************)
THEOREM RetentionHolds == Spec => []RetentionIsKept
  <1>1. Init => JobsAreAccepted
    BY DEF Init, JobsAreAccepted, Created, Unused
  <1>2. TypeInv /\ JobsAreAccepted /\ [Next]_vars => JobsAreAccepted'
    <2>1. ASSUME NEW spec, NEW tag, Accepted(spec, tag)
          PROVE  getLogRetentionSeconds(spec) >= 0
      BY <2>1 DEF Accepted
    <2> QED BY <2>1, Origins DEF JobOrigin, JobsAreAccepted, Created
  <1>3. TypeInv /\ JobsAreAccepted => RetentionIsKept
    <2> SUFFICES ASSUME TypeInv, JobsAreAccepted, NEW j \in JobNames,
                        Created(j),
                        jobs[j].spec.logRetentionDays \in 1..MaxDays
                 PROVE  getLogRetentionSeconds(jobs[j].spec)
                          = jobs[j].spec.logRetentionDays * Day
      BY DEF RetentionIsKept
    <2>1. jobs[j].spec \in BundleSpec
      BY SpecsAssumption DEF TypeInv, TypeOK, Job
    <2>2. getLogRetentionSeconds(jobs[j].spec) >= 0
      BY DEF JobsAreAccepted
    <2> QED BY <2>1, <2>2, RetentionIsExact
  <1> QED BY InitType, NextType, <1>1, <1>2, <1>3, PTL DEF Spec

-----------------------------------------------------------------------------
(* Jobs converge tags of their own repository.                             *)

\* A repository loses a tag only when one is withdrawn.
LEMMA TagsGrow ==
    ASSUME TypeInv, [Next]_vars, NEW url \in Repositories
    PROVE  \/ registry.tags[url] \subseteq registry'.tags[url]
           \/ "withdraw" \in faults'.happened
  <1>1. ASSUME Outside
        PROVE  \/ registry.tags[url] \subseteq registry'.tags[url]
               \/ "withdraw" \in faults'.happened
    <2>1. CASE PushTag
      <3>1. PICK u \in Repositories, t \in Tags :
               registry' = [registry EXCEPT !.tags[u] = @ \union {t}]
        BY <2>1 DEF PushTag
      <3>2. registry'.tags = [registry.tags EXCEPT ![u] = @ \union {t}]
        BY <3>1 DEF TypeInv, TypeOK, Registry
      <3> QED BY <3>2 DEF TypeInv, TypeOK, Registry
    <2>2. CASE WithdrawTag
      BY <2>2 DEF WithdrawTag, Disrupt
    <2>3. CASE RegistryFlips
      <3>1. registry'.tags = registry.tags
        BY <2>3 DEF RegistryFlips, TypeInv, TypeOK, Registry
      <3> QED BY <3>1
    <2>4. CASE \/ ServiceAccountFlips \/ ConfigMapsCollected
               \/ \E j \in JobNames : JobFinishes(j) \/ JobRemoved(j)
      BY <2>4 DEF ServiceAccountFlips, ConfigMapsCollected, JobFinishes,
                  JobRemoved, cluster
    <2> QED BY <1>1, <2>1, <2>2, <2>3, <2>4 DEF Outside
  <1>2. ASSUME NEW o \in Operators,
               StartReconcile(o) \/ Write(o) \/ Local(o) \/ Runtime(o)
        PROVE  UNCHANGED registry
    BY <1>2, StartEffect, WriteEffect, LocalTable, RuntimeEffect DEF cluster
  <1>3. CASE EditSpec \/ DeleteBundle
    BY <1>3, UserEffect DEF cluster
  <1>4. CASE UNCHANGED vars
    BY <1>4 DEF vars
  <1> QED BY <1>1, <1>2, <1>3, <1>4, StepCases

ListedCall(call) ==
    call.pc \in Polling => call.tag \in registry.tags[call.bundle.spec.url]

ListedJob(job) ==
    job.outcome # "unused" => job.tag \in registry.tags[job.spec.url]

ListedInv ==
    Spared({"withdraw"}) =>
        /\ \A o \in Operators : ListedCall(op[o])
        /\ \A j \in JobNames : ListedJob(jobs[j])

LEMMA NextListed ==
    TypeInv /\ TypeInv' /\ ListedInv /\ [Next]_vars => ListedInv'
  <1> SUFFICES ASSUME TypeInv, TypeInv', ListedInv, [Next]_vars,
                      Spared({"withdraw"})'
               PROVE  /\ \A o \in Operators : ListedCall(op[o])'
                      /\ \A j \in JobNames : ListedJob(jobs[j])'
    BY DEF ListedInv
  <1>1. Spared({"withdraw"}) /\ "withdraw" \notin faults'.happened
    BY FaultsGrow DEF Spared
  <1>2. \A url \in Repositories :
           registry.tags[url] \subseteq registry'.tags[url]
    BY <1>1, TagsGrow
  <1>3. \A o \in Operators : ListedCall(op[o])'
    <2>1. \A o \in Operators : op'[o].bundle.spec.url \in Repositories
      BY SpecsAssumption DEF TypeInv, TypeOK, Call, Bundle, BundleSpec
    <2> QED BY <1>1, <1>2, <2>1, Origins DEF CallOrigin, ListedInv, ListedCall
  <1>4. \A j \in JobNames : ListedJob(jobs[j])'
    <2>1. \A j \in JobNames : jobs'[j].spec.url \in Repositories
      BY SpecsAssumption DEF TypeInv, TypeOK, Job, BundleSpec
    <2>2. \A j \in JobNames :
             jobs'[j].outcome # "unused" =>
                jobs'[j].tag \in registry.tags[jobs'[j].spec.url]
      BY <1>1, Origins
         DEF JobOrigin, ListedInv, ListedCall, ListedJob, Polling
    <2> QED BY <1>2, <2>1, <2>2 DEF ListedJob
  <1> QED BY <1>3, <1>4

(***************************************************************************)
(* Unless tags are withdrawn, a Job's tag is in the repository of the      *)
(* Job's own spec, for any edits of the url between the poll, the claim    *)
(* and the creation (Reconcile polls and Build composes with one copy of   *)
(* the spec).                                                              *)
(***************************************************************************)
THEOREM JobsConvergeWhatWasListed == Spec => []JobsConvergeListedTags
  <1>1. Init => ListedInv
    BY DEF Init, ListedInv, ListedCall, ListedJob, Idle, Unused, Polling, Found
  <1>2. ListedInv => JobsConvergeListedTags
    BY DEF ListedInv, ListedJob, JobsConvergeListedTags, Created
  <1> QED BY InitType, NextType, NextListed, <1>1, <1>2, PTL DEF Spec

-----------------------------------------------------------------------------
(* The Job that runs is the one the status names.                          *)

\* Between the claim and the creation, and once the active Job has finished.
Settled ==
    {"claim", "build", "createJob", "buildFailed", "createFailed",
     "captureLogs", "recordSuccess", "recordFailure"}
\* From the accepted claim to the write that names the Job.
Committed == {"build", "createJob", "buildFailed", "createFailed", "trackJob"}

TrackedCall(call) ==
    /\ call.pc \in Committed => call.fresh
    /\ call.fresh /\ call.pc \in Settled => \A j \in JobNames : ~Running(j)
    /\ call.fresh /\ call.pc \notin Settled \union {"idle", "trackJob"} =>
          call.bundle.status.activeJobName = api.status.activeJobName
    /\ call.pc = "trackJob" => \A j \in JobNames : Running(j) => j = call.job

\* Nobody writes but the one operator, so a call that has claimed its tag
\* stays fresh, and a fresh call that got past the check of the active Job
\* does so while nothing runs.
TrackInv ==
    Undisturbed =>
        /\ \A j \in JobNames : Created(j) => jobs[j].spec = api.spec
        /\ \A o \in Operators : TrackedCall(op[o])
        /\ \A j \in JobNames : Running(j) =>
              \/ api.status.activeJobName = j
              \/ \E o \in Operators : op[o].pc = "trackJob" /\ op[o].job = j

\* Without a failing request, a write is stored unless the copy is stale or
\* the schema refuses its status.
LEMMA QuietWrite ==
    ASSUME TypeInv, NEW o \in Operators, Write(o), "api" \notin faults'.happened
    PROVE  \E bundle \in Bundle, next \in Plainly \union Outcomes :
              /\ Written(op[o], bundle, next)
              /\ \/ Persist(o, bundle, next)
                 \/ /\ ~op[o].fresh \/ ~ValidStatus(bundle.status)
                    /\ op' = [op EXCEPT ![o] = Idle]
                    /\ UNCHANGED <<api, jobs, informer>>
  <1>1. PICK bundle \in Bundle, next \in Plainly \union Outcomes,
             onError \in Outcomes :
           Written(op[o], bundle, next) /\ Update(o, bundle, next, onError)
    BY WriteTable
  <1>2. ~Disrupt("api")
    BY DEF Disrupt
  <1>3. \/ Persist(o, bundle, next)
        \/ /\ ~op[o].fresh \/ ~ValidStatus(bundle.status)
           /\ op' = [op EXCEPT ![o] = Idle]
           /\ UNCHANGED <<api, jobs, informer>>
    BY <1>1, <1>2 DEF Update, Abandon, Return
  <1> QED BY <1>1, <1>3

\* Without a failing request, a Job that is created is also tracked.
LEMMA QuietCreate ==
    ASSUME TypeInv, NEW o \in Operators, CreateJob(o),
           "api" \notin faults'.happened
    PROVE  op'[o].pc = "trackJob" \/ UNCHANGED jobs
  <1>1. ~Disrupt("api")
    BY DEF Disrupt
  <1>2. \/ UNCHANGED jobs
        \/ \E j \in JobNames :
              op' = [op EXCEPT ![o] = [@ EXCEPT !.pc = "trackJob", !.job = j]]
    BY <1>1 DEF CreateJob
  <1>3. ASSUME NEW j \in JobNames,
               op' = [op EXCEPT ![o] = [@ EXCEPT !.pc = "trackJob", !.job = j]]
        PROVE  op'[o].pc = "trackJob"
    <2>1. op'[o] = [op[o] EXCEPT !.pc = "trackJob", !.job = j]
      BY <1>3 DEF TypeInv, TypeOK
    <2> QED BY <2>1, CallType DEF Call
  <1> QED BY <1>2, <1>3

\* What the absence of disturbances means for a step.
LEMMA QuietStep ==
    ASSUME [Next]_vars, Undisturbed'
    PROVE  /\ Undisturbed /\ OneOperator /\ ~JobInformerLags
           /\ {"crash", "api", "edit", "delete"} \intersect faults'.happened = {}
           /\ ~EditSpec /\ ~DeleteBundle
           /\ \A o \in Operators : ~Crash(o)
  <1>1. /\ OneOperator /\ ~JobInformerLags
        /\ {"crash", "api", "edit", "delete"} \intersect faults'.happened = {}
    BY DEF Undisturbed, Spared, OneOperator
  <1>2. Undisturbed
    BY <1>1, FaultsGrow DEF Undisturbed, Spared
  <1>3. ~EditSpec /\ ~DeleteBundle /\ \A o \in Operators : ~Crash(o)
    BY <1>1 DEF EditSpec, DeleteBundle, Crash, Disrupt
  <1> QED BY <1>1, <1>2, <1>3

LEMMA IdleTracked == TrackedCall(Idle) /\ TrackedCall(Idle)' /\ Idle.pc = "idle"
  BY DEF TrackedCall, Idle, Committed, Settled

\* A step that neither starts a Job nor changes what the status names.
LEMMA StepTracked ==
    ASSUME TrackInv, Undisturbed,
           api'.spec = api.spec,
           api'.status.activeJobName = api.status.activeJobName,
           \A j \in JobNames : /\ jobs'[j].spec = jobs[j].spec
                               /\ Created(j)' => Created(j)
                               /\ Running(j)' => Running(j),
           \A p \in Operators :
              \/ op'[p] = op[p]
              \/ TrackedCall(op[p])' /\ op[p].pc # "trackJob"
    PROVE  TrackInv'
  <1>1. \A j \in JobNames : Created(j)' => jobs'[j].spec = api'.spec
    BY DEF TrackInv
  <1>2. \A p \in Operators : TrackedCall(op[p])'
    <2>1. ASSUME NEW p \in Operators, op'[p] = op[p] PROVE TrackedCall(op[p])'
      <3>1. TrackedCall(op[p])
        BY DEF TrackInv
      <3> QED BY <2>1, <3>1 DEF TrackedCall
    <2> QED BY <2>1
  <1>3. \A j \in JobNames : Running(j)' =>
           \/ api'.status.activeJobName = j
           \/ \E o \in Operators : op'[o].pc = "trackJob" /\ op'[o].job = j
    BY DEF TrackInv
  <1> QED BY <1>1, <1>2, <1>3 DEF TrackInv

\* A write of a call that is not past the check leaves the active Job named.
LEMMA WriteTracked ==
    ASSUME TypeInv, ClaimInv, ReportInv, TrackInv, Undisturbed,
           NEW o \in Operators, Write(o), "api" \notin faults'.happened
    PROVE  TrackInv'
  <1>0. /\ OneOperator /\ TrackedCall(op[o])
        /\ \A j \in JobNames : Running(j) =>
              \/ api.status.activeJobName = j
              \/ op[o].pc = "trackJob" /\ op[o].job = j
    BY DEF TrackInv, Undisturbed, OneOperator
  <1>1. PICK bundle \in Bundle, next \in Plainly \union Outcomes :
           /\ Written(op[o], bundle, next)
           /\ \/ Persist(o, bundle, next)
              \/ /\ ~op[o].fresh \/ ~ValidStatus(bundle.status)
                 /\ op' = [op EXCEPT ![o] = Idle]
                 /\ UNCHANGED <<api, jobs, informer>>
    BY QuietWrite
  <1>2. ASSUME ~op[o].fresh \/ ~ValidStatus(bundle.status),
               op' = [op EXCEPT ![o] = Idle], UNCHANGED <<api, jobs, informer>>
        PROVE  TrackInv'
    <2>1. op[o].pc \notin Committed
      <3> SUFFICES ASSUME op[o].pc \in Committed PROVE FALSE
        OBVIOUS
      <3>1. op[o].fresh /\ bundle.status.consecutiveFailures = 0
        BY <1>0, <1>1 DEF TrackedCall, ReportInv, ReportCall, AfterPoll,
                          Committed, Written
      <3>2. ValidStatus(bundle.status)
        BY <3>1, FailuresAssumption DEF ValidStatus
      <3> QED BY <1>2, <3>1, <3>2
    <2>2. op'[o] = Idle /\ \A p \in Operators \ {o} : op'[p] = op[p]
      BY <1>2 DEF TypeInv, TypeOK
    <2>3. TrackedCall(op[o])' /\ op[o].pc # "trackJob"
      BY <2>1, <2>2, IdleTracked DEF TrackedCall, Committed
    <2>4. \A j \in JobNames : /\ Created(j)' => Created(j)
                              /\ Running(j)' => Running(j)
      BY <1>2 DEF Created, Running
    <2> QED BY <1>2, <2>2, <2>3, <2>4, StepTracked
  <1>3. ASSUME Persist(o, bundle, next) PROVE TrackInv'
    <2>1. /\ op[o].fresh /\ api' = bundle
          /\ \A j \in JobNames : /\ Created(j)' <=> Created(j)
                                 /\ Running(j)' <=> Running(j)
                                 /\ jobs'[j].spec = jobs[j].spec
      BY <1>3, PersistEffect DEF Created, Running
    <2>2. api'.spec = api.spec
      BY <1>1, <2>1 DEF Written, ClaimInv, FreshCalls, Agrees
    <2>3. \A j \in JobNames : Created(j)' => jobs'[j].spec = api'.spec
      BY <2>1, <2>2 DEF TrackInv
    <2>4. \A j \in JobNames : Running(j)' => api'.status.activeJobName = j
      <3>1. api'.status.activeJobName =
              IF op[o].pc = "trackJob" THEN op[o].job
              ELSE op[o].bundle.status.activeJobName
        BY <1>1, <2>1 DEF Written
      <3>2. op[o].pc # "idle"
        BY DEF Write, RemoveFinalizer, AddFinalizer, RejectSpec,
               ResolveNamespace, RejectServiceAccount, RegistryFailed,
               RegistryRetry, NoTags, AlreadyApplied, Claim, BuildFailed,
               CreateFailed, TrackJob, RecordSuccess, RecordFailure
      <3> QED BY <1>0, <2>1, <3>1, <3>2 DEF TrackedCall, Settled
    <2>5. TrackedCall(op[o])'
      <3>1. CASE next \in Outcomes
        BY <1>3, <3>1, PersistEffect, IdleTracked DEF TrackedCall
      <3>2. CASE next \notin Outcomes
        <4>1. op'[o].pc = next /\ op'[o].bundle = bundle /\ op'[o].fresh
          BY <1>3, <3>2, PersistEffect
        <4>2. \/ op[o].pc = "claim" /\ next = "build"
              \/ next \notin Settled \union Committed \union {"idle"}
          BY <1>1, <3>2
             DEF Written, AfterFinalizer, AfterNamespace, Settled, Committed
        <4>3. next = "build" => \A j \in JobNames : ~Running(j)'
          BY <1>0, <2>1, <4>2 DEF TrackedCall, Settled
        <4> QED BY <2>1, <4>1, <4>2, <4>3
                DEF TrackedCall, Settled, Committed
      <3> QED BY <3>1, <3>2
    <2> QED BY <1>0, <2>3, <2>4, <2>5 DEF TrackInv, OneOperator
  <1> QED BY <1>1, <1>2, <1>3

\* A step in memory: the check of the active Job lets a call pass only when
\* nothing runs, and the one Job that starts is the one about to be named.
LEMMA LocalTracked ==
    ASSUME TypeInv, ClaimInv, TrackInv, Undisturbed, NEW o \in Operators,
           Local(o), "api" \notin faults'.happened
    PROVE  TrackInv'
  <1>0. /\ OneOperator /\ ~JobInformerLags /\ TrackedCall(op[o])
        /\ \A j \in JobNames : Running(j) =>
              \/ api.status.activeJobName = j
              \/ op[o].pc = "trackJob" /\ op[o].job = j
        /\ UNCHANGED api
        /\ op[o].fresh => op[o].bundle.spec = api.spec
    BY LocalTable
       DEF TrackInv, Undisturbed, OneOperator, ClaimInv, FreshCalls, Agrees
  <1>1. op[o].pc # "trackJob"
    BY DEF Local, CheckServiceAccount, PollFails, PollNotModified,
           PollFindsNoTags, PollFindsTag, GetActiveJob, Build, CreateJob,
           CaptureLogs
  <1>2. ASSUME op' = [op EXCEPT ![o] = Idle], UNCHANGED jobs PROVE TrackInv'
    <2>1. op'[o] = Idle /\ \A p \in Operators \ {o} : op'[p] = op[p]
      BY <1>2 DEF TypeInv, TypeOK
    <2>2. TrackedCall(op[o])'
      BY <2>1, IdleTracked DEF TrackedCall
    <2>3. \A j \in JobNames : /\ Created(j)' => Created(j)
                              /\ Running(j)' => Running(j)
      BY <1>2 DEF Created, Running
    <2> QED BY <1>0, <1>1, <1>2, <2>1, <2>2, <2>3, StepTracked
  <1>3. ASSUME NEW call, op' = [op EXCEPT ![o] = call], Moved(o, call)
        PROVE  TrackInv'
    <2>1. op'[o] = call /\ \A p \in Operators \ {o} : op'[p] = op[p]
      BY <1>3 DEF TypeInv, TypeOK
    <2>2. Moves(op[o].pc, call.pc) /\ call.fresh = op[o].fresh
      BY <1>3 DEF Moved
    <2>3. CASE UNCHANGED jobs /\ call.pc # "trackJob"
      <3>1. \A j \in JobNames : /\ Created(j)' <=> Created(j)
                                /\ Running(j)' <=> Running(j)
        BY <2>3 DEF Created, Running
      <3>2. call.pc \in Committed => call.fresh
        BY <1>0, <2>2, <2>3 DEF Moves, TrackedCall, Committed
      <3>3. call.fresh /\ call.pc \in Settled => \A j \in JobNames : ~Running(j)
        <4> SUFFICES ASSUME call.fresh, call.pc \in Settled,
                            NEW j \in JobNames, Running(j)
                     PROVE  FALSE
          OBVIOUS
        <4>1. api.status.activeJobName = j
          BY <1>0, <1>1
        <4>2. op[o].pc \in {"poll", "getActiveJob"} /\ j # NoJob
          BY <1>0, <2>2, JobsAssumption DEF TrackedCall, Moves, Settled
        <4>3. op[o].bundle.status.activeJobName = j
          BY <1>0, <2>2, <4>1, <4>2 DEF TrackedCall, Settled
        <4>4. CASE op[o].pc = "poll"
          <5>1. call.pc = "claim"
            BY <2>2, <4>4 DEF Moves, Settled
          <5> QED BY <1>3, <4>2, <4>3, <4>4, <5>1 DEF Moved, PollFound, Found
        <4>5. CASE op[o].pc = "getActiveJob"
          <5>1. Lookup(o) \in {"absent", "succeeded", "failed"}
            BY <1>3, <2>2, <4>5 DEF Moved, Moves, JobSeen
          <5>2. jobs[j].spec = op[o].bundle.spec
            BY <1>0, <2>2 DEF TrackInv, Created, Running
          <5>3. Lookup(o) = "running"
            BY <1>0, <4>3, <5>2 DEF Lookup, View, Running
          <5> QED BY <5>1, <5>3
        <4> QED BY <4>2, <4>4, <4>5
      <3>4. call.fresh /\ call.pc \notin Settled =>
               call.bundle.status.activeJobName = api.status.activeJobName
        BY <1>0, <1>3, <2>2, <2>3 DEF Moved, Moves, TrackedCall, Settled
      <3>5. TrackedCall(op[o])'
        BY <1>0, <2>1, <2>3, <3>1, <3>2, <3>3, <3>4 DEF TrackedCall
      <3> QED BY <1>0, <1>1, <2>1, <2>3, <3>1, <3>5, StepTracked
    <2>4. CASE call.pc = "trackJob" \/ ~UNCHANGED jobs
      <3>1. op[o].pc = "createJob" /\ JobStored(o, call)
        BY <1>3, <2>2, <2>4 DEF Moved, Moves
      <3>2. CreateJob(o)
        BY <3>1 DEF Local, CheckServiceAccount, PollFails, PollNotModified,
                    PollFindsNoTags, PollFindsTag, GetActiveJob, Build,
                    CaptureLogs
      <3>3. call.pc = "trackJob"
        BY <2>1, <2>4, <3>2, QuietCreate
      <3>4. PICK j \in JobNames : /\ jobs' = [jobs EXCEPT ![j] = NewJob(o)]
                                  /\ call.job = j
        BY <3>1, <3>3 DEF JobStored
      <3>5. op[o].fresh /\ \A k \in JobNames : ~Running(k)
        BY <1>0, <3>1 DEF TrackedCall, Committed, Settled
      <3>6. /\ jobs'[j].spec = api.spec
            /\ \A k \in JobNames \ {j} : jobs'[k] = jobs[k]
        BY <1>0, <3>4, <3>5 DEF NewJob, TypeInv, TypeOK
      <3>7. \A k \in JobNames : Created(k)' => jobs'[k].spec = api'.spec
        BY <1>0, <3>6 DEF TrackInv, Created
      <3>8. \A k \in JobNames : Running(k)' => k = j
        BY <3>5, <3>6 DEF Running
      <3>9. TrackedCall(op[o])'
        BY <2>1, <2>2, <3>3, <3>4, <3>5, <3>8
           DEF TrackedCall, Settled, Committed
      <3> QED BY <1>0, <2>1, <3>3, <3>4, <3>7, <3>8, <3>9
              DEF TrackInv, OneOperator
    <2> QED BY <2>3, <2>4
  <1> QED BY <1>2, <1>3, LocalTable

LEMMA NextTrack ==
    TypeInv /\ ClaimInv /\ ReportInv /\ TrackInv /\ [Next]_vars => TrackInv'
  <1> SUFFICES ASSUME TypeInv, ClaimInv, ReportInv, TrackInv, [Next]_vars,
                      Undisturbed'
               PROVE  TrackInv'
    BY DEF TrackInv
  <1>0. /\ Undisturbed /\ "api" \notin faults'.happened
        /\ ~EditSpec /\ ~DeleteBundle
        /\ \A o \in Operators : ~Crash(o)
    BY QuietStep
  <1>s. ASSUME UNCHANGED <<api, op>>,
               \A j \in JobNames : /\ jobs'[j].spec = jobs[j].spec
                                   /\ Created(j)' => Created(j)
                                   /\ Running(j)' => Running(j)
        PROVE  TrackInv'
    BY <1>0, <1>s, StepTracked
  <1>1. ASSUME NEW o \in Operators, StartReconcile(o) PROVE TrackInv'
    <2>1. UNCHANGED <<api, jobs>> /\ op[o].pc = "idle"
      BY <1>1, StartEffect
    <2>2. \A j \in JobNames : /\ Created(j)' <=> Created(j)
                              /\ Running(j)' <=> Running(j)
      BY <2>1 DEF Created, Running
    <2>3. CASE op' = op
      BY <1>s, <2>1, <2>2, <2>3
    <2>4. CASE /\ \A p \in Operators \ {o} : op'[p] = op[p]
               /\ op'[o].pc = FirstStep(informer[o].bundle)
               /\ op'[o].bundle = informer[o].bundle
               /\ op'[o].fresh = informer[o].fresh
      <3>1. op'[o].pc \notin Settled \union Committed
        BY <2>4 DEF FirstStep, AfterFinalizer, AfterNamespace, Settled,
                    Committed
      <3>2. op'[o].fresh => op'[o].bundle = api'
        BY <2>1, <2>4 DEF ClaimInv, FreshCaches
      <3>3. TrackedCall(op[o])'
        BY <3>1, <3>2 DEF TrackedCall, Committed
      <3> QED BY <1>0, <2>1, <2>2, <2>4, <3>3, StepTracked
    <2> QED BY <1>1, <2>3, <2>4, StartEffect
  <1>2. ASSUME NEW o \in Operators, Runtime(o) PROVE TrackInv'
    <2>1. UNCHANGED <<api, jobs, op>>
      BY <1>0, <1>2 DEF Runtime, TimerFires, SyncInformer, SyncJob
    <2> QED BY <1>s, <2>1 DEF Created, Running
  <1>3. CASE Outside
    BY <1>3, <1>s, OutsideEffect DEF Created, Running
  <1>4. CASE UNCHANGED vars
    BY <1>4, <1>s DEF vars, Created, Running
  <1> QED BY <1>0, <1>1, <1>2, <1>3, <1>4, WriteTracked, LocalTracked,
             StepCases

(***************************************************************************)
(* With one operator process, as long as no request fails, nothing crashes *)
(* and users leave the bundle alone, at most one Job runs, for any number  *)
(* of tags pushed meanwhile, and it is the one that ActiveJobName names or *)
(* that the next write will name (the check of the active Job in           *)
(* ensureJobExists).                                                       *)
(***************************************************************************)
THEOREM RunningJobsAreTracked == Spec => []RunningJobIsTracked
  <1>1. Init => TrackInv
    BY IdleTracked DEF Init, TrackInv, Created, Running, Unused
  <1>2. TrackInv => RunningJobIsTracked
    <2> SUFFICES ASSUME TrackInv, Undisturbed,
                        NEW j \in JobNames, NEW k \in JobNames,
                        Running(j), Running(k)
                 PROVE  j = k
      BY DEF TrackInv, RunningJobIsTracked
    <2>1. CASE \E o \in Operators : op[o].pc = "trackJob"
      BY <2>1 DEF TrackInv, TrackedCall
    <2>2. CASE ~\E o \in Operators : op[o].pc = "trackJob"
      BY <2>2 DEF TrackInv
    <2> QED BY <2>1, <2>2
  <1> QED BY InitType, NextType, InitClaim, NextClaim, InitRef, NextRef,
             InitReport, NextReport, NextTrack, <1>1, <1>2, PTL DEF Spec

-----------------------------------------------------------------------------
(* A claimed tag is not forgotten.                                         *)

Calm == Undisturbed /\ Spared({"push", "withdraw"})

\* Nothing will make o reconcile again.
Rests(o) == op[o].pc = "idle" /\ ~queue[o].ready /\ ~queue[o].delayed

CalmCopies ==
    /\ ~api.deleting
    /\ api.status.lastAppliedTag \in Tags => LatestTag(api.status.lastAppliedTag)
    /\ \A o \in Operators : /\ ~informer[o].event
                            /\ ~informer[o].bundle.deleting
                            /\ informer[o].bundle.spec = api.spec

\* A call that runs has taken the only key there is, works on the spec that is
\* stored, and the tag it found is still the latest.
CalmCall(o) ==
    LET call == op[o] IN
    /\ ~(queue[o].ready /\ queue[o].delayed)
    /\ call.pc # "idle" =>
          /\ ~queue[o].ready /\ ~queue[o].delayed
          /\ ~call.bundle.deleting /\ call.bundle.spec = api.spec
          /\ call.pc # "removeFinalizer"
    /\ call.pc \in Tagged => LatestTag(call.tag)
    /\ call.pc = "alreadyApplied" =>
          call.bundle.status.lastAppliedTag = call.tag
    /\ call.pc \in {"captureLogs", "recordSuccess"} =>
          \E j \in JobNames : Created(j)

CalmJobs == \A j \in JobNames : Created(j) => LatestTag(jobs[j].tag)

Composable ==
    /\ ~jobNamePanics(api.status.lastAppliedTag)
    /\ ~getResourceLimitPanics(api.spec)

\* A failure to deploy is final: the operator is at rest after it.
Accounted ==
    api.status.lastAppliedTag \in Tags /\ Composable =>
        \/ \E j \in JobNames : Created(j)
        \/ \E o \in Operators : Deploying(op[o])
        \/ api.status.phase = "Failed" /\ \A o \in Operators : Rests(o)

AccountInv ==
    Calm => /\ CalmCopies /\ CalmJobs /\ Accounted
            /\ \A o \in Operators : CalmCall(o)

\* There is one latest tag.
LEMMA LatestIsOne ==
    ASSUME TypeInv, NEW t, NEW u, LatestTag(t), LatestTag(u) PROVE t = u
  <1>1. api.spec.url \in Repositories
    BY SpecsAssumption DEF TypeInv, TypeOK, Bundle, BundleSpec
  <1>2. registry.tags[api.spec.url] \subseteq Tags
    BY <1>1 DEF TypeInv, TypeOK, Registry
  <1>3. t \in Nat /\ u \in Nat /\ t <= u /\ u <= t
    BY <1>2, TagsAssumption DEF LatestTag
  <1> QED BY <1>3

LEMMA LatestStays ==
    ASSUME registry'.tags = registry.tags, api'.spec = api.spec
    PROVE  \A t : LatestTag(t)' <=> LatestTag(t)
  BY DEF LatestTag

\* No tag comes or goes.
LEMMA CalmStep ==
    ASSUME TypeInv, [Next]_vars, Calm'
    PROVE  Calm /\ Undisturbed' /\ registry'.tags = registry.tags
  <1>1. Undisturbed' /\ {"push", "withdraw"} \intersect faults'.happened = {}
    BY DEF Calm, Spared
  <1>2. Calm
    BY <1>1, QuietStep, FaultsGrow DEF Calm, Spared
  <1>3. ASSUME NEW o \in Operators,
               StartReconcile(o) \/ Write(o) \/ Local(o) \/ Runtime(o)
        PROVE  UNCHANGED registry
    BY <1>3, StartEffect, WriteEffect, LocalTable, RuntimeEffect DEF cluster
  <1> DEFINE Kept == registry'.tags = registry.tags
  <1>4. ASSUME Outside PROVE Kept
    <2>1. ~PushTag /\ ~WithdrawTag
      BY <1>1 DEF PushTag, WithdrawTag, Disrupt
    <2>2. CASE RegistryFlips
      BY <2>2 DEF RegistryFlips, TypeInv, TypeOK, Registry
    <2>3. CASE ~RegistryFlips
      <3>1. UNCHANGED registry
        BY <1>4, <2>1, <2>3
           DEF Outside, ServiceAccountFlips, ConfigMapsCollected, JobFinishes,
               JobRemoved, cluster
      <3> QED BY <3>1
    <2> QED BY <2>2, <2>3
  <1>5. ~EditSpec /\ ~DeleteBundle
    BY <1>1, QuietStep
  <1>6. ASSUME UNCHANGED vars PROVE Kept
    BY <1>6 DEF vars
  <1>7. Kept
    BY <1>3, <1>4, <1>5, <1>6, StepCases
  <1> QED BY <1>1, <1>2, <1>7

\* A step of a call leaves the key that came meanwhile, and promises another
\* call only when it ends.
LEMMA QueueStep ==
    ASSUME TypeInv, NEW o \in Operators, Write(o) \/ Local(o)
    PROVE  /\ op[o].pc # "idle"
           /\ queue'[o].ready = queue[o].ready
           /\ op'[o].pc # "idle" => queue'[o].delayed = queue[o].delayed
  <1>0. queue \in [Operators -> Key] /\ Idle.pc = "idle" /\ op[o] \in Call
    BY CallType DEF TypeInv, TypeOK, Idle
  <1>i. op[o].pc # "idle"
    BY DEF Write, RemoveFinalizer, AddFinalizer, RejectSpec, ResolveNamespace,
           RejectServiceAccount, RegistryFailed, RegistryRetry, NoTags,
           AlreadyApplied, Claim, BuildFailed, CreateFailed, TrackJob,
           RecordSuccess, RecordFailure, Local, CheckServiceAccount, PollFails,
           PollNotModified, PollFindsNoTags, PollFindsTag, GetActiveJob, Build,
           CreateJob, CaptureLogs
  <1>r. ASSUME NEW outcome, Return(o, outcome)
        PROVE  queue'[o].ready = queue[o].ready /\ op'[o].pc = "idle"
    <2>1. op'[o] = Idle
      BY <1>r DEF Return, TypeInv, TypeOK
    <2>2. queue'[o].ready = queue[o].ready
      BY <1>r, <1>0 DEF Return, Key
    <2> QED BY <1>0, <2>1, <2>2
  <1>p. ASSUME NEW bundle, NEW next, Persist(o, bundle, next)
        PROVE  /\ queue'[o].ready = queue[o].ready
               /\ op'[o].pc # "idle" => queue'[o].delayed = queue[o].delayed
    <2>1. queue'[o].ready = queue[o].ready
      BY <1>p, <1>0 DEF Persist, Key
    <2>2. next # "requeue" => queue'[o].delayed = queue[o].delayed
      BY <1>p, <1>0 DEF Persist, Key
    <2>3. next = "requeue" => op'[o] = Idle
      BY <1>p, PersistEffect DEF Outcomes
    <2> QED BY <1>0, <2>1, <2>2, <2>3
  <1>1. CASE Write(o)
    <2>1. PICK bundle \in Bundle, next \in Plainly \union Outcomes,
               onError \in Outcomes : Update(o, bundle, next, onError)
      BY <1>1, WriteTable
    <2>2. \/ Persist(o, bundle, next) \/ Persist(o, bundle, onError)
          \/ Return(o, onError)
      BY <2>1 DEF Update, Abandon
    <2> QED BY <1>i, <1>r, <1>p, <2>2
  <1>2. CASE Local(o)
    <2>1. UNCHANGED queue \/ \E outcome : Return(o, outcome)
      BY <1>2 DEF Local, CheckServiceAccount, PollFails, PollNotModified,
                  PollFindsNoTags, PollFindsTag, GetActiveJob, Build,
                  CreateJob, CaptureLogs, Goto
    <2> QED BY <1>i, <1>r, <2>1
  <1> QED BY <1>1, <1>2

\* From its accepted claim on, a call's writes are not refused.
LEMMA CommittedWrites ==
    ASSUME TypeInv, ReportInv, TrackInv, Undisturbed, NEW o \in Operators,
           op[o].pc \in Committed, NEW bundle, NEW next,
           Written(op[o], bundle, next)
    PROVE  op[o].fresh /\ ValidStatus(bundle.status)
  <1>1. op[o].fresh /\ bundle.status.consecutiveFailures = 0
    BY DEF TrackInv, TrackedCall, ReportInv, ReportCall, AfterPoll, Committed,
           Written
  <1> QED BY <1>1, FailuresAssumption DEF ValidStatus

\* What a step of the one operator has before it, when all is calm.
LEMMA CalmBefore ==
    ASSUME TypeInv, AccountInv, [Next]_vars, Calm', NEW o \in Operators
    PROVE  /\ Calm /\ Undisturbed /\ "api" \notin faults'.happened
           /\ \A p \in Operators : p = o
           /\ CalmCopies /\ CalmJobs /\ Accounted /\ CalmCall(o)
           /\ registry'.tags = registry.tags
           /\ op[o].pc # "idle" /\ ~Deploying(op[o])
                /\ api.status.lastAppliedTag \in Tags /\ Composable =>
                   \E j \in JobNames : Created(j)
  <1>1. Calm /\ Undisturbed' /\ registry'.tags = registry.tags
    BY CalmStep
  <1>2. /\ Undisturbed /\ "api" \notin faults'.happened
        /\ \A p \in Operators : p = o
    BY <1>1, QuietStep DEF OneOperator
  <1>3. CalmCopies /\ CalmJobs /\ Accounted /\ CalmCall(o)
    BY <1>1 DEF AccountInv
  <1>4. op[o].pc # "idle" /\ ~Deploying(op[o])
          /\ api.status.lastAppliedTag \in Tags /\ Composable =>
             \E j \in JobNames : Created(j)
    BY <1>2, <1>3 DEF Accounted, Rests
  <1> QED BY <1>1, <1>2, <1>3, <1>4

\* A write that is refused ends a call that had claimed nothing.
LEMMA RefusedAccount ==
    ASSUME TypeInv, ReportInv, TrackInv, AccountInv, [Next]_vars, Calm',
           NEW o \in Operators, Write(o), op' = [op EXCEPT ![o] = Idle],
           UNCHANGED <<api, jobs, informer>>, op[o].pc \notin Committed
    PROVE  AccountInv'
  <1>0. /\ \A p \in Operators : p = o
        /\ CalmCopies /\ CalmJobs /\ CalmCall(o)
        /\ registry'.tags = registry.tags
        /\ op[o].pc # "idle" /\ ~Deploying(op[o])
             /\ api.status.lastAppliedTag \in Tags /\ Composable =>
                \E j \in JobNames : Created(j)
    BY CalmBefore
  <1>1. \A t : LatestTag(t)' <=> LatestTag(t)
    BY <1>0, LatestStays
  <1>2. op'[o].pc = "idle" /\ ~queue'[o].ready /\ op[o].pc # "idle"
    BY <1>0, QueueStep DEF CalmCall, Idle, TypeInv, TypeOK
  <1>3. CalmCopies'
    BY <1>0, <1>1 DEF CalmCopies
  <1>4. CalmJobs'
    BY <1>0, <1>1 DEF CalmJobs, Created
  <1>5. CalmCall(o)'
    BY <1>2 DEF CalmCall, Tagged
  <1>6. Accounted'
    BY <1>0, <1>2 DEF Accounted, Composable, Created, Deploying, Committed
  <1> QED BY <1>0, <1>3, <1>4, <1>5, <1>6 DEF AccountInv

\* After a poll that found a tag the schema accepts the status, whatever the
\* write changes in it.
LEMMA FoundIsValid ==
    ASSUME TypeInv, ReportInv, NEW o \in Operators, op[o].pc \in AfterPoll,
           NEW status \in Status,
           status.consecutiveFailures = op[o].bundle.status.consecutiveFailures
    PROVE  ValidStatus([op[o].bundle EXCEPT !.status = status].status)
  <1>1. status.consecutiveFailures = 0
    BY DEF ReportInv, ReportCall
  <1>2. [op[o].bundle EXCEPT !.status = status].status = status
    BY CallType DEF Bundle
  <1> QED BY <1>1, <1>2, FailuresAssumption DEF ValidStatus

\* The report of a failed deployment is the last thing its call does.
LEMMA FailureIsFinal ==
    ASSUME TypeInv, ReportInv, NEW o \in Operators, Write(o),
           "api" \notin faults'.happened, op[o].fresh,
           op[o].pc \in {"buildFailed", "createFailed"}
    PROVE  op'[o] = Idle /\ queue'[o].delayed = queue[o].delayed
  <1> DEFINE status(cause) == updateStatusFailed(op[o].bundle.status, cause)
             stored(cause) == [op[o].bundle EXCEPT !.status = status(cause)]
  <1>1. \E cause \in {"build", "create"} :
           Update(o, stored(cause), "done", "requeue")
    BY DEF Write, RemoveFinalizer, AddFinalizer, RejectSpec, ResolveNamespace,
           RejectServiceAccount, RegistryFailed, RegistryRetry, NoTags,
           AlreadyApplied, Claim, BuildFailed, CreateFailed, TrackJob,
           RecordSuccess, RecordFailure, UpdateStatus
  <1>2. PICK cause \in {"build", "create"} :
           Update(o, stored(cause), "done", "requeue")
    BY <1>1
  <1>3. ValidStatus(stored(cause).status)
    <2>1. op[o].bundle.status \in Status /\ cause \in Causes
      BY CallType DEF Causes
    <2>2. /\ status(cause) \in Status
          /\ status(cause).consecutiveFailures =
                op[o].bundle.status.consecutiveFailures
      BY <2>1 DEF updateStatusFailed, Status, Phases
    <2> QED BY <2>2, FoundIsValid DEF AfterPoll
  <1>4. ~Disrupt("api")
    BY DEF Disrupt
  <1>5. Persist(o, stored(cause), "done")
    BY <1>2, <1>3, <1>4 DEF Update
  <1> HIDE DEF stored
  <1>6. op'[o] = Idle
    BY <1>5, PersistEffect DEF Outcomes
  <1>7. queue'[o].delayed = queue[o].delayed
    BY <1>5 DEF Persist, TypeInv, TypeOK, Key
  <1> QED BY <1>6, <1>7

\* A claim that is stored goes on to build the Job.
LEMMA ClaimGoesOn ==
    ASSUME TypeInv, ReportInv, NEW o \in Operators, Write(o),
           "api" \notin faults'.happened, op[o].fresh, op[o].pc = "claim"
    PROVE  op'[o].pc = "build"
  <1> DEFINE status == updateStatusSyncing(op[o].bundle.status, op[o].tag)
             stored == [op[o].bundle EXCEPT !.status = status]
  <1>1. Update(o, stored, "build", "requeue")
    BY DEF Write, RemoveFinalizer, AddFinalizer, RejectSpec, ResolveNamespace,
           RejectServiceAccount, RegistryFailed, RegistryRetry, NoTags,
           AlreadyApplied, Claim, BuildFailed, CreateFailed, TrackJob,
           RecordSuccess, RecordFailure, UpdateStatus
  <1>2. ValidStatus(stored.status)
    <2>1. /\ op[o].bundle.status \in Status
          /\ op[o].tag \in Tags \union {NoTag, ErrorText}
      BY CallType
    <2>2. /\ status \in Status
          /\ status.consecutiveFailures =
                op[o].bundle.status.consecutiveFailures
      BY <2>1 DEF updateStatusSyncing, Status, Phases, Causes
    <2> QED BY <2>2, FoundIsValid DEF AfterPoll
  <1>3. ~Disrupt("api")
    BY DEF Disrupt
  <1>4. Persist(o, stored, "build")
    BY <1>1, <1>2, <1>3 DEF Update
  <1> QED BY <1>4, PersistEffect DEF Outcomes

\* A write that is stored.
LEMMA StoredAccount ==
    ASSUME TypeInv, TypeInv', ClaimInv, RefInv, ReportInv, TrackInv, AccountInv,
           [Next]_vars, Calm', NEW o \in Operators, Write(o),
           NEW bundle \in Bundle, NEW next \in Plainly \union Outcomes,
           Written(op[o], bundle, next), Persist(o, bundle, next)
    PROVE  AccountInv'
  <1> DEFINE call == op[o]
             was == call.bundle.status
  <1>0. /\ Undisturbed /\ "api" \notin faults'.happened
        /\ \A p \in Operators : p = o
        /\ CalmCopies /\ CalmJobs /\ CalmCall(o)
        /\ registry'.tags = registry.tags
        /\ op[o].pc # "idle" /\ ~Deploying(op[o])
             /\ api.status.lastAppliedTag \in Tags /\ Composable =>
                \E j \in JobNames : Created(j)
    BY CalmBefore
  <1>1. /\ call.fresh /\ api' = bundle /\ Agrees(call.bundle)
        /\ call.pc # "idle"
        /\ ~queue[o].ready /\ ~queue[o].delayed
        /\ ~call.bundle.deleting /\ call.pc # "removeFinalizer"
    BY <1>0, PersistEffect, QueueStep DEF ClaimInv, FreshCalls, CalmCall
  <1>2. /\ api'.spec = api.spec /\ ~api'.deleting
        /\ was.lastAppliedTag = api.status.lastAppliedTag
        /\ bundle.exists
    BY <1>1 DEF Written, Agrees, RefInv, GoodCall
  <1>3. \A t : LatestTag(t)' <=> LatestTag(t)
    BY <1>0, <1>2, LatestStays
  <1>4. Reported(call, bundle.status)
    BY DEF Written
  <1>5. \/ api'.status.lastAppliedTag = api.status.lastAppliedTag
        \/ api'.status.lastAppliedTag = ErrorText
        \/ /\ call.pc \in {"claim", "recordSuccess"}
           /\ api'.status.lastAppliedTag = call.tag
    BY <1>0, <1>1, <1>2, <1>4 DEF Reported, CalmCall, RefInv, GoodCall, Tagged
  <1>6. ErrorText \notin Tags
    BY TagsAssumption DEF ErrorText
  <1>7. CalmCopies'
    <2>1. \A p \in Operators : /\ ~informer'[p].event
                               /\ informer'[p].bundle = informer[p].bundle
      BY <1>0, <1>2 DEF Persist, CalmCopies, TypeInv, TypeOK, Cache
    <2>2. api'.status.lastAppliedTag \in Tags =>
             LatestTag(api'.status.lastAppliedTag)
      BY <1>0, <1>5, <1>6 DEF CalmCopies, CalmCall, Tagged
    <2> QED BY <1>0, <1>2, <1>3, <2>1, <2>2 DEF CalmCopies
  <1>8. \A j \in JobNames : /\ Created(j)' <=> Created(j)
                            /\ jobs'[j].tag = jobs[j].tag
    BY PersistEffect DEF Created
  <1>9. CalmJobs'
    BY <1>0, <1>3, <1>8 DEF CalmJobs
  <1>10. /\ ~queue'[o].ready
         /\ op'[o].pc # "idle" => ~queue'[o].delayed
    BY <1>1, QueueStep
  <1>11. \/ op'[o].pc = "idle"
         \/ /\ op'[o].pc = next /\ op'[o].bundle = bundle
            /\ op'[o].tag = call.tag
            /\ \/ call.pc = "claim" /\ next = "build"
               \/ next \notin Tagged \union {"removeFinalizer"}
    <2>1. CASE next \in Outcomes
      BY <2>1, PersistEffect DEF Idle
    <2>2. CASE next \notin Outcomes
      BY <2>2, PersistEffect
         DEF Written, AfterFinalizer, AfterNamespace, Tagged
    <2> QED BY <2>1, <2>2
  <1>12. CalmCall(o)'
    BY <1>0, <1>1, <1>2, <1>3, <1>10, <1>11 DEF CalmCall, Tagged
  <1>13. Accounted'
    <2> SUFFICES ASSUME api'.status.lastAppliedTag \in Tags, Composable'
                 PROVE  \/ \E j \in JobNames : Created(j)'
                        \/ Deploying(op'[o])
                        \/ /\ api'.status.phase = "Failed"
                           /\ op'[o].pc = "idle"
                           /\ ~queue'[o].ready /\ ~queue'[o].delayed
      BY <1>0 DEF Accounted, Rests, Deploying
    <2>1. CASE call.pc = "claim"
      <3>1. op'[o].pc = "build"
        BY <1>0, <1>1, <2>1, ClaimGoesOn
      <3> QED BY <3>1 DEF Deploying
    <2>2. CASE call.pc = "recordSuccess"
      BY <1>0, <1>8, <2>2 DEF CalmCall
    <2>3. CASE call.pc \in {"buildFailed", "createFailed"}
      <3>1. op'[o] = Idle /\ queue'[o].delayed = queue[o].delayed
        BY <1>0, <1>1, <2>3, FailureIsFinal
      <3>2. api'.status.phase = "Failed"
        BY <1>1, <1>4, <2>3 DEF Reported, Failing, Plain
      <3> QED BY <1>1, <1>10, <3>1, <3>2 DEF Idle
    <2>4. CASE call.pc \notin {"claim", "recordSuccess", "buildFailed",
                               "createFailed"}
      <3>1. ~Deploying(op[o])
        BY <2>4 DEF Deploying, Write, RemoveFinalizer, AddFinalizer, RejectSpec,
               ResolveNamespace, RejectServiceAccount, RegistryFailed,
               RegistryRetry, NoTags, AlreadyApplied, Claim, BuildFailed,
               CreateFailed, TrackJob, RecordSuccess, RecordFailure
      <3>2. api'.status.lastAppliedTag = api.status.lastAppliedTag
        BY <1>5, <1>6, <2>4
      <3>3. api.status.lastAppliedTag \in Tags /\ Composable
        BY <1>2, <3>2 DEF Composable
      <3> QED BY <1>0, <1>1, <1>8, <3>1, <3>3
    <2> QED BY <2>1, <2>2, <2>3, <2>4
  <1> QED BY <1>0, <1>7, <1>9, <1>12, <1>13 DEF AccountInv

\* The call that asks for a Job does not end with the answer.
LEMMA CreateGoesOn ==
    ASSUME TypeInv, NEW o \in Operators, CreateJob(o) PROVE op'[o].pc # "idle"
  <1>0. op[o] \in Call
    BY CallType
  <1>1. CASE \E j \in JobNames :
                op' = [op EXCEPT ![o] = [@ EXCEPT !.pc = "trackJob", !.job = j]]
    <2>1. PICK j \in JobNames :
             op' = [op EXCEPT ![o] = [@ EXCEPT !.pc = "trackJob", !.job = j]]
      BY <1>1
    <2>2. op'[o] = [op[o] EXCEPT !.pc = "trackJob", !.job = j]
      BY <2>1 DEF TypeInv, TypeOK
    <2> QED BY <1>0, <2>2 DEF Call
  <1>2. CASE op' = [op EXCEPT ![o].pc = "createFailed"]
    BY <1>0, <1>2 DEF Call, TypeInv, TypeOK
  <1> QED BY <1>1, <1>2 DEF CreateJob

\* A step in memory.  The call that ends with a claim and without a Job could
\* not compose it.
LEMMA LocalAccount ==
    ASSUME TypeInv, ClaimInv, RefInv, TrackInv, AccountInv, [Next]_vars, Calm',
           NEW o \in Operators, Local(o)
    PROVE  AccountInv'
  <1>0. /\ Undisturbed /\ "api" \notin faults'.happened
        /\ \A p \in Operators : p = o
        /\ CalmCopies /\ CalmJobs /\ Accounted /\ CalmCall(o)
        /\ registry'.tags = registry.tags
        /\ op[o].pc # "idle" /\ ~Deploying(op[o])
             /\ api.status.lastAppliedTag \in Tags /\ Composable =>
                \E j \in JobNames : Created(j)
    BY CalmBefore
  <1>1. UNCHANGED <<api, informer>>
    BY LocalTable
  <1>2. \A t : LatestTag(t)' <=> LatestTag(t)
    BY <1>0, <1>1, LatestStays
  <1>3. /\ op[o].pc # "idle" /\ ~queue'[o].ready
        /\ op'[o].pc # "idle" => ~queue'[o].delayed
        /\ ~op[o].bundle.deleting /\ op[o].bundle.spec = api.spec
    BY <1>0, QueueStep DEF CalmCall
  <1>4. CalmCopies'
    BY <1>0, <1>1, <1>2 DEF CalmCopies
  <1>5. ASSUME op' = [op EXCEPT ![o] = Idle], UNCHANGED jobs
        PROVE  AccountInv'
    <2>1. op'[o].pc = "idle"
      BY <1>5 DEF Idle, TypeInv, TypeOK
    <2>2. \A j \in JobNames : Created(j)' <=> Created(j)
      BY <1>5 DEF Created
    <2>3. CalmJobs'
      BY <1>0, <1>2, <1>5, <2>2 DEF CalmJobs
    <2>4. CalmCall(o)'
      BY <1>3, <2>1 DEF CalmCall, Tagged
    <2>5. Deploying(op[o]) =>
             \/ jobNamePanics(op[o].tag) /\ LatestTag(op[o].tag)
             \/ getResourceLimitPanics(api.spec)
      <3> SUFFICES ASSUME Deploying(op[o])
                   PROVE  \/ jobNamePanics(op[o].tag) /\ LatestTag(op[o].tag)
                          \/ getResourceLimitPanics(api.spec)
        OBVIOUS
      <3>1. Build(o) \/ CreateJob(o)
        BY DEF Deploying, Local, CheckServiceAccount, PollFails,
               PollNotModified, PollFindsNoTags, PollFindsTag, GetActiveJob,
               CaptureLogs
      <3>2. ~CreateJob(o)
        BY <2>1, CreateGoesOn
      <3>3. ASSUME NEW pc, Goto(o, pc, op[o].bundle), pc # "idle" PROVE FALSE
        <4>1. op'[o] = [op[o] EXCEPT !.pc = pc, !.bundle = op[o].bundle]
          BY <3>3 DEF Goto, TypeInv, TypeOK
        <4> QED BY <2>1, <3>3, <4>1, CallType DEF Call
      <3>4. \/ jobNamePanics(op[o].tag)
            \/ getResourceLimitPanics(op[o].bundle.spec)
        BY <3>1, <3>2, <3>3 DEF Build
      <3>5. LatestTag(op[o].tag)
        BY <1>0, <3>1 DEF Build, CreateJob, CalmCall, Tagged
      <3> QED BY <1>3, <3>4, <3>5
    <2>6. Accounted'
      <3> SUFFICES ASSUME api.status.lastAppliedTag \in Tags, Composable
                   PROVE  \E j \in JobNames : Created(j)
        BY <1>1, <2>2 DEF Accounted, Composable
      <3>1. ASSUME Deploying(op[o]) PROVE FALSE
        <4>1. jobNamePanics(op[o].tag) /\ LatestTag(op[o].tag)
          BY <2>5, <3>1 DEF Composable
        <4>2. op[o].tag = api.status.lastAppliedTag
          BY <1>0, <4>1, LatestIsOne DEF CalmCopies
        <4> QED BY <4>1, <4>2 DEF Composable
      <3> QED BY <1>0, <1>3, <3>1
    <2> QED BY <1>0, <1>4, <2>3, <2>4, <2>6 DEF AccountInv
  <1>6. ASSUME NEW call, op' = [op EXCEPT ![o] = call], Moved(o, call)
        PROVE  AccountInv'
    <2>1. op'[o] = call
      BY <1>6 DEF TypeInv, TypeOK
    <2>2. /\ Moves(op[o].pc, call.pc) /\ call.pc # "idle"
          /\ call.pc # "removeFinalizer"
          /\ call.bundle.deleting = op[o].bundle.deleting
          /\ call.bundle.spec = op[o].bundle.spec
      BY <1>6 DEF Moved, Moves
    <2>3. \/ UNCHANGED jobs
          \/ /\ op[o].pc = "createJob"
             /\ \E j \in JobNames : jobs' = [jobs EXCEPT ![j] = NewJob(o)]
      BY <1>6 DEF Moved, JobStored
    <2>4. /\ \A j \in JobNames : Created(j) => Created(j)'
          /\ \A j \in JobNames : Created(j)' => LatestTag(jobs'[j].tag)
      <3>1. CASE UNCHANGED jobs
        BY <1>0, <3>1 DEF Created, CalmJobs
      <3>2. ASSUME op[o].pc = "createJob", NEW j \in JobNames,
                   jobs' = [jobs EXCEPT ![j] = NewJob(o)]
            PROVE  /\ \A k \in JobNames : Created(k) => Created(k)'
                   /\ \A k \in JobNames : Created(k)' => LatestTag(jobs'[k].tag)
        <4>1. /\ jobs'[j].tag = op[o].tag /\ jobs'[j].outcome = "running"
              /\ \A k \in JobNames \ {j} : jobs'[k] = jobs[k]
          BY <3>2 DEF NewJob, TypeInv, TypeOK
        <4>2. LatestTag(op[o].tag)
          BY <1>0, <3>2 DEF CalmCall, Tagged
        <4> QED BY <1>0, <4>1, <4>2 DEF Created, CalmJobs
      <3> QED BY <2>3, <3>1, <3>2
    <2>5. CalmJobs'
      BY <1>2, <2>4 DEF CalmJobs
    <2>6. call.pc \in Tagged => LatestTag(call.tag)
      <3>1. CASE op[o].pc = "poll"
        <4>1. call.pc \in Tagged => PollFound(o, call.pc, call.tag)
          BY <1>6, <2>2, <3>1 DEF Moved, Moves, Found, Tagged
        <4> QED BY <1>3, <4>1 DEF PollFound, LatestTag
      <3>2. CASE op[o].pc # "poll"
        <4>1. call.tag = op[o].tag
          BY <1>6, <3>2 DEF Moved
        <4>2. call.pc \in Tagged => op[o].pc \in Tagged
          BY <2>2, <3>2 DEF Moves, Tagged
        <4> QED BY <1>0, <4>1, <4>2 DEF CalmCall
      <3> QED BY <3>1, <3>2
    <2>7. call.pc = "alreadyApplied" =>
             call.bundle.status.lastAppliedTag = call.tag
      BY <1>6, <2>2 DEF Moved, Moves, PollFound, Found
    <2>8. call.pc \in {"captureLogs", "recordSuccess"} =>
             \E j \in JobNames : Created(j)
      <3>1. ASSUME call.pc = "captureLogs" PROVE \E j \in JobNames : Created(j)
        <4> DEFINE j == op[o].bundle.status.activeJobName
        <4>1. j \in JobNames /\ Lookup(o) \in {"succeeded", "failed"}
          BY <1>6, <3>1, CallType DEF Moved, JobSeen, Status
        <4>2. jobs[j].outcome \in {"succeeded", "failed"}
          BY <1>0, <4>1 DEF Lookup, View, Undisturbed
        <4> QED BY <4>1, <4>2 DEF Created
      <3>2. ASSUME call.pc = "recordSuccess" PROVE op[o].pc = "captureLogs"
        BY <2>2, <3>2 DEF Moves
      <3> QED BY <1>0, <3>1, <3>2 DEF CalmCall
    <2>9. CalmCall(o)'
      BY <1>0, <1>1, <1>2, <1>3, <2>1, <2>2, <2>4, <2>6, <2>7, <2>8
         DEF CalmCall
    <2>10. Accounted'
      <3> SUFFICES ASSUME api.status.lastAppliedTag \in Tags, Composable
                   PROVE  Deploying(call) \/ \E j \in JobNames : Created(j)'
        BY <1>1, <2>1 DEF Accounted, Composable, Deploying
      <3>1. CASE ~Deploying(op[o])
        BY <1>0, <1>3, <2>4, <3>1
      <3>2. CASE Deploying(op[o]) /\ call.pc # "trackJob"
        BY <2>2, <3>2 DEF Deploying, Moves
      <3>3. ASSUME call.pc = "trackJob" PROVE \E j \in JobNames : Created(j)'
        <4>1. op[o].pc = "createJob" /\ JobStored(o, call)
          BY <1>6, <2>2, <3>3 DEF Moved, Moves
        <4>2. PICK j \in JobNames : jobs' = [jobs EXCEPT ![j] = NewJob(o)]
          BY <3>3, <4>1 DEF JobStored
        <4>3. jobs'[j].outcome = "running"
          BY <4>2 DEF NewJob, TypeInv, TypeOK
        <4> QED BY <4>3 DEF Created
      <3> QED BY <3>1, <3>2, <3>3
    <2> QED BY <1>0, <1>4, <2>5, <2>9, <2>10 DEF AccountInv
  <1> QED BY <1>5, <1>6, LocalTable

\* The key is taken: the operator was not at rest.
LEMMA StartAccount ==
    ASSUME TypeInv, AccountInv, [Next]_vars, Calm', NEW o \in Operators,
           StartReconcile(o)
    PROVE  AccountInv'
  <1>0. /\ \A p \in Operators : p = o
        /\ CalmCopies /\ CalmJobs /\ Accounted /\ CalmCall(o)
        /\ registry'.tags = registry.tags
    BY CalmBefore
  <1>1. /\ UNCHANGED <<api, jobs, informer>> /\ op[o].pc = "idle"
        /\ queue[o].ready /\ ~queue'[o].ready
        /\ queue'[o].delayed = queue[o].delayed
    BY StartEffect DEF StartReconcile, TypeInv, TypeOK, Key
  <1>2. \A t : LatestTag(t)' <=> LatestTag(t)
    BY <1>0, <1>1, LatestStays
  <1>3. CalmCopies' /\ CalmJobs'
    BY <1>0, <1>1, <1>2 DEF CalmCopies, CalmJobs, Created
  <1>4. \/ op' = op
        \/ /\ op'[o].pc = FirstStep(informer[o].bundle)
           /\ op'[o].bundle = informer[o].bundle
    BY StartEffect
  <1>5. FirstStep(informer[o].bundle) \notin Tagged \union {"removeFinalizer"}
    BY <1>0 DEF FirstStep, AfterFinalizer, AfterNamespace, Tagged, CalmCopies
  <1>6. CalmCall(o)'
    BY <1>0, <1>1, <1>4, <1>5 DEF CalmCall, CalmCopies, Tagged
  <1>7. Accounted'
    BY <1>0, <1>1 DEF Accounted, Composable, Created, Deploying, Rests
  <1> QED BY <1>0, <1>3, <1>6, <1>7 DEF AccountInv

\* Timers and caches: a timer belongs to an operator that is not at rest, and
\* there is no event to deliver.
LEMMA RuntimeAccount ==
    ASSUME TypeInv, AccountInv, [Next]_vars, Calm', NEW o \in Operators,
           Runtime(o)
    PROVE  AccountInv'
  <1>0. /\ \A p \in Operators : p = o
        /\ CalmCopies /\ CalmJobs /\ Accounted /\ CalmCall(o)
        /\ registry'.tags = registry.tags /\ ~Crash(o)
    BY CalmBefore, CalmStep, QuietStep
  <1>1. UNCHANGED <<api, jobs, op>>
    BY <1>0 DEF Runtime, TimerFires, SyncInformer, SyncJob
  <1>2. \A t : LatestTag(t)' <=> LatestTag(t)
    BY <1>0, <1>1, LatestStays
  <1>3. \A p \in Operators :
           \/ informer'[p] = informer[p]
           \/ informer'[p] = [bundle |-> api, fresh |-> TRUE, event |-> FALSE]
    BY <1>0 DEF Runtime, TimerFires, SyncInformer, SyncJob, TypeInv, TypeOK
  <1>4. CalmCopies' /\ CalmJobs'
    BY <1>0, <1>1, <1>2, <1>3 DEF CalmCopies, CalmJobs, Created
  <1>5. \/ queue'[o] = queue[o]
        \/ /\ queue[o].delayed
           /\ queue'[o] = [ready |-> TRUE, delayed |-> FALSE]
    <2>1. CASE TimerFires(o)
      BY <2>1 DEF TimerFires, TypeInv, TypeOK
    <2>2. CASE SyncInformer(o)
      <3>1. queue' = [queue EXCEPT ![o].ready = @]
        BY <1>0, <2>2 DEF SyncInformer, CalmCopies
      <3> QED BY <3>1 DEF TypeInv, TypeOK, Key
    <2>3. CASE \E j \in JobNames : SyncJob(o, j)
      BY <2>3 DEF SyncJob
    <2> QED BY <1>0, <2>1, <2>2, <2>3 DEF Runtime
  <1>6. CalmCall(o)'
    BY <1>0, <1>1, <1>2, <1>5 DEF CalmCall, Created
  <1>7. Accounted'
    BY <1>0, <1>1, <1>5 DEF Accounted, Composable, Created, Deploying, Rests
  <1> QED BY <1>0, <1>4, <1>6, <1>7 DEF AccountInv

LEMMA NextAccount ==
    TypeInv /\ TypeInv' /\ ClaimInv /\ RefInv /\ ReportInv /\ TrackInv
      /\ AccountInv /\ [Next]_vars => AccountInv'
  <1> SUFFICES ASSUME TypeInv, TypeInv', ClaimInv, RefInv, ReportInv, TrackInv,
                      AccountInv, [Next]_vars, Calm'
               PROVE  AccountInv'
    BY DEF AccountInv
  <1>0. /\ Calm /\ Undisturbed /\ Undisturbed'
        /\ "api" \notin faults'.happened
        /\ registry'.tags = registry.tags /\ ~EditSpec /\ ~DeleteBundle
    BY CalmStep, QuietStep DEF Calm
  <1>1. ASSUME NEW o \in Operators, Write(o) PROVE AccountInv'
    <2>1. PICK bundle \in Bundle, next \in Plainly \union Outcomes :
             /\ Written(op[o], bundle, next)
             /\ \/ Persist(o, bundle, next)
                \/ /\ ~op[o].fresh \/ ~ValidStatus(bundle.status)
                   /\ op' = [op EXCEPT ![o] = Idle]
                   /\ UNCHANGED <<api, jobs, informer>>
      BY <1>0, <1>1, QuietWrite
    <2>2. CASE Persist(o, bundle, next)
      BY <1>1, <2>1, <2>2, StoredAccount
    <2>3. CASE /\ ~op[o].fresh \/ ~ValidStatus(bundle.status)
               /\ op' = [op EXCEPT ![o] = Idle]
               /\ UNCHANGED <<api, jobs, informer>>
      <3>1. op[o].pc \notin Committed
        BY <1>0, <2>1, <2>3, CommittedWrites
      <3> QED BY <1>1, <2>3, <3>1, RefusedAccount
    <2> QED BY <2>1, <2>2, <2>3
  <1>2. ASSUME UNCHANGED <<api, informer, queue, op>>,
               \A j \in JobNames : /\ Created(j)' <=> Created(j)
                                   /\ jobs'[j].tag = jobs[j].tag
        PROVE  AccountInv'
    <2>1. \A t : LatestTag(t)' <=> LatestTag(t)
      BY <1>0, <1>2, LatestStays
    <2>2. CalmCopies' /\ CalmJobs'
      BY <1>0, <1>2, <2>1 DEF AccountInv, CalmCopies, CalmJobs
    <2>3. \A o \in Operators : CalmCall(o)'
      BY <1>0, <1>2, <2>1 DEF AccountInv, CalmCall
    <2>4. Accounted'
      BY <1>0, <1>2 DEF AccountInv, Accounted, Composable, Deploying, Rests
    <2> QED BY <2>2, <2>3, <2>4 DEF AccountInv
  <1>3. CASE Outside
    <2>1. /\ UNCHANGED <<api, informer, queue, op>>
          /\ \A j \in JobNames : /\ Created(j)' <=> Created(j)
                                 /\ jobs'[j].tag = jobs[j].tag
      <3>1. /\ UNCHANGED <<api, informer, queue, op>> /\ JobsGrow
            /\ \A j \in JobNames : /\ jobs'[j].tag = jobs[j].tag
                                   /\ jobs[j].outcome = "unused" =>
                                         jobs'[j].outcome = "unused"
        BY <1>3, OutsideEffect
      <3>2. \A j \in JobNames : Created(j)' <=> Created(j)
        BY <3>1 DEF Created, JobsGrow
      <3> QED BY <3>1, <3>2
    <2> QED BY <1>2, <2>1
  <1>4. CASE UNCHANGED vars
    BY <1>2, <1>4 DEF vars, Created
  <1> QED BY <1>0, <1>1, <1>3, <1>4, StartAccount, LocalAccount,
             RuntimeAccount, StepCases

(***************************************************************************)
(* With one operator process, as long as nothing disturbs it and no tag    *)
(* comes or goes, a tag that LastAppliedTag claims and that a Job can be   *)
(* composed for has its Job, or is being deployed, or is reported Failed:  *)
(* every error path of ensureJobExists after the claim ends in a report    *)
(* that nothing overwrites.                                                *)
(***************************************************************************)
THEOREM ClaimsAreAccountedFor == Spec => []ClaimIsAccountedFor
  <1>1. Init => AccountInv
    <2> SUFFICES ASSUME Init PROVE AccountInv
      OBVIOUS
    <2>1. /\ ~api.deleting /\ api.status.lastAppliedTag \notin Tags
          /\ \A o \in Operators : /\ ~informer[o].event
                                  /\ informer[o].bundle = api
                                  /\ op[o].pc = "idle" /\ ~queue[o].delayed
          /\ \A j \in JobNames : ~Created(j)
      <3>1. ~api.deleting /\ api.status = NoStatus
        BY DEF Init, NewBundle
      <3>2. api.status.lastAppliedTag \notin Tags
        BY <3>1, TagsAssumption DEF NoStatus, NoTag
      <3>3. \A o \in Operators : /\ ~informer[o].event
                                 /\ informer[o].bundle = api
                                 /\ op[o].pc = "idle" /\ ~queue[o].delayed
        BY DEF Init, Idle
      <3>4. \A j \in JobNames : ~Created(j)
        BY DEF Init, Unused, Created
      <3> QED BY <3>1, <3>2, <3>3, <3>4
    <2> QED BY <2>1 DEF AccountInv, CalmCopies, CalmJobs, CalmCall, Accounted,
                        Tagged
  <1>2. TypeInv /\ AccountInv => ClaimIsAccountedFor
    <2> SUFFICES ASSUME TypeInv, AccountInv, Undisturbed,
                        Spared({"push", "withdraw"}),
                        api.status.lastAppliedTag \in Tags, Composable
                 PROVE  \/ \E j \in JobNames :
                              /\ Created(j)
                              /\ jobs[j].tag = api.status.lastAppliedTag
                        \/ api.status.phase = "Failed"
                        \/ \E o \in Operators : Deploying(op[o])
      BY DEF ClaimIsAccountedFor, Composable
    <2>1. CalmCopies /\ CalmJobs /\ Accounted
      BY DEF AccountInv, Calm
    <2>2. \A j \in JobNames :
             Created(j) => jobs[j].tag = api.status.lastAppliedTag
      BY <2>1, LatestIsOne DEF CalmCopies, CalmJobs
    <2> QED BY <2>1, <2>2 DEF Accounted
  <1>3. Init => TrackInv
    BY IdleTracked DEF Init, TrackInv, Created, Running, Unused
  <1> QED BY InitType, NextType, InitClaim, NextClaim, InitRef, NextRef,
             InitReport, NextReport, NextTrack, NextAccount, <1>1, <1>2, <1>3,
             PTL DEF Spec

-----------------------------------------------------------------------------
(* A tag is deployed once.                                                 *)

\* LastAppliedTag of a copy is in the list.
ListedCopy(bundle, tags) ==
    \/ bundle.status.lastAppliedTag = NoTag
    \/ bundle.status.lastAppliedTag \in tags[bundle.spec.url]

\* The labels at which a call may still write the tag that it found.
Recording == Found \union {"captureLogs", "recordSuccess"}

\* The tag that a call found is listed, and no older than that of its copy.
LaterCall(call, tags) ==
    /\ call.pc # "registryRetry"
    /\ ListedCopy(call.bundle, tags)
    /\ call.pc \in Recording =>
          /\ call.tag \in tags[call.bundle.spec.url]
          /\ call.bundle.status.lastAppliedTag <= call.tag

SteadyInv ==
    Steady => /\ ListedCopy(api, registry.tags)
              /\ \A o \in Operators :
                    /\ ListedCopy(informer[o].bundle, registry.tags)
                    /\ LaterCall(op[o], registry.tags)

\* LastAppliedTag is at least as late as every tag that was claimed, no tag
\* is claimed or deployed twice, and the claim of a process that is alone is
\* the value of LastAppliedTag.
OnceInv ==
    LET applied == api.status.lastAppliedTag IN
    Steady =>
        /\ \A o \in Operators : Claimed(op[o]) <= applied
        /\ \A j \in JobNames : jobs[j].tag <= applied
        /\ \A o, p \in Operators :
              Claimed(op[o]) # NoTag /\ Claimed(op[o]) = Claimed(op[p]) => o = p
        /\ \A j, k \in JobNames :
              jobs[j].tag # NoTag /\ jobs[j].tag = jobs[k].tag => j = k
        /\ \A o \in Operators, j \in JobNames :
              Claimed(op[o]) # NoTag => Claimed(op[o]) # jobs[j].tag
        /\ OneOperator => \A o \in Operators : Claimed(op[o]) \in {NoTag, applied}

\* A registry that has answered all the time did before, and had no tag more.
LEMMA SteadyStep ==
    ASSUME TypeInv, [Next]_vars, Steady'
    PROVE  /\ Steady
           /\ \A url \in Repositories :
                 registry.tags[url] \subseteq registry'.tags[url]
  <1>1. {"registry", "withdraw"} \intersect faults'.happened = {}
    BY DEF Steady, Spared
  <1>2. Spared({"registry", "withdraw"})
    BY <1>1, FaultsGrow DEF Spared
  <1>3. ASSUME NEW o \in Operators,
               StartReconcile(o) \/ Write(o) \/ Local(o) \/ Runtime(o)
        PROVE  UNCHANGED registry
    BY <1>3, StartEffect, WriteEffect, LocalTable, RuntimeEffect DEF cluster
  <1>4. ASSUME Outside PROVE registry'.up = registry.up
    <2>1. ~RegistryFlips
      BY <1>1 DEF RegistryFlips, Disrupt
    <2>2. CASE PushTag \/ WithdrawTag
      BY <2>2 DEF PushTag, WithdrawTag, TypeInv, TypeOK, Registry
    <2>3. CASE \/ ServiceAccountFlips \/ ConfigMapsCollected
               \/ \E j \in JobNames : JobFinishes(j) \/ JobRemoved(j)
      BY <2>3 DEF ServiceAccountFlips, ConfigMapsCollected, JobFinishes,
                  JobRemoved, cluster
    <2> QED BY <1>4, <2>1, <2>2, <2>3 DEF Outside
  <1>5. ASSUME EditSpec \/ DeleteBundle PROVE UNCHANGED registry
    BY <1>5, UserEffect DEF cluster
  <1>6. registry'.up = registry.up
    BY <1>3, <1>4, <1>5, StepCases DEF vars
  <1>7. Steady
    BY <1>2, <1>6 DEF Steady
  <1>8. \A url \in Repositories :
           registry.tags[url] \subseteq registry'.tags[url]
    BY <1>1, TagsGrow
  <1> QED BY <1>7, <1>8

\* All specs have the same repository, whose tags are ranks.
LEMMA OneList ==
    ASSUME TypeInv, Steady, NEW s \in Specs, NEW t \in Specs
    PROVE  /\ registry.tags[s.url] = registry.tags[t.url]
           /\ s.url \in Repositories
           /\ registry.tags[s.url] \subseteq Tags
           /\ \A tag \in registry.tags[s.url] : tag \in Nat \ {0}
  <1>1. s.url = t.url /\ s.url \in Repositories
    BY SpecsAssumption DEF Steady, BundleSpec
  <1>2. registry.tags[s.url] \subseteq Tags
    BY <1>1 DEF TypeInv, TypeOK, Registry
  <1> QED BY <1>1, <1>2, TagsAssumption

\* What is listed stays listed.
LEMMA ListGrows ==
    ASSUME TypeInv, [Next]_vars, Steady'
    PROVE  /\ \A bundle \in Bundle :
                 ListedCopy(bundle, registry.tags) =>
                    ListedCopy(bundle, registry'.tags)
           /\ \A call \in Call :
                 LaterCall(call, registry.tags) =>
                    LaterCall(call, registry'.tags)
  <1>1. ASSUME NEW bundle \in Bundle
        PROVE  registry.tags[bundle.spec.url]
                 \subseteq registry'.tags[bundle.spec.url]
    BY SteadyStep, SpecsAssumption DEF Bundle, BundleSpec
  <1>2. \A bundle \in Bundle :
           ListedCopy(bundle, registry.tags) =>
              ListedCopy(bundle, registry'.tags)
    BY <1>1 DEF ListedCopy
  <1>3. \A call \in Call : call.bundle \in Bundle
    BY DEF Call
  <1> QED BY <1>1, <1>2, <1>3 DEF LaterCall

LEMMA IdleLater ==
    ASSUME NEW tags PROVE LaterCall(Idle, tags)
  BY DEF LaterCall, ListedCopy, Recording, Found, Idle, Blank, NewBundle,
         NoStatus

\* What a write stores in LastAppliedTag is listed and no older than what was
\* in the copy.
LEMMA StoredLater ==
    ASSUME TypeInv, Steady, NEW o \in Operators, LaterCall(op[o], registry.tags),
           RefInv, NEW bundle \in Bundle, NEW next, Written(op[o], bundle, next)
    PROVE  /\ ListedCopy(bundle, registry.tags)
           /\ op[o].bundle.status.lastAppliedTag <= bundle.status.lastAppliedTag
           /\ bundle.spec = op[o].bundle.spec
  <1>1. /\ op[o].bundle.spec \in Specs
        /\ op[o].bundle.status.lastAppliedTag \in Tags \union {NoTag, ErrorText}
    BY CallType DEF Bundle, Status
  <1>2. op[o].bundle.status.lastAppliedTag \in Nat
    BY <1>1, OneList DEF LaterCall, ListedCopy, NoTag
  <1>3. bundle.spec = op[o].bundle.spec
    BY DEF Written
  <1>4. \/ bundle.status.lastAppliedTag = op[o].bundle.status.lastAppliedTag
        \/ op[o].pc \in Recording /\ bundle.status.lastAppliedTag = op[o].tag
    <2>1. op[o].pc # "registryRetry" /\ (op[o].pc = "claim" => op[o].tag # NoTag)
      BY DEF LaterCall, RefInv, GoodCall, Tagged
    <2> QED BY <2>1 DEF Written, Reported, Recording, Found
  <1> QED BY <1>2, <1>3, <1>4 DEF LaterCall, ListedCopy

\* SteadyInv after a step, from what it does to the copies.
LEMMA CopiesLater ==
    ASSUME TypeInv, TypeInv', SteadyInv, [Next]_vars, Steady',
           ListedCopy(api', registry.tags),
           \A p \in Operators :
              informer'[p].bundle \in {informer[p].bundle, api},
           \A p \in Operators :
              \/ /\ op'[p].pc = op[p].pc /\ op'[p].bundle = op[p].bundle
                 /\ op'[p].tag = op[p].tag
              \/ op'[p] = Idle
              \/ LaterCall(op'[p], registry.tags)
    PROVE  SteadyInv'
  <1>1. Steady
    BY SteadyStep
  <1>2. /\ api' \in Bundle
        /\ \A p \in Operators : informer'[p].bundle \in Bundle
        /\ \A p \in Operators : op'[p] \in Call
    BY DEF TypeInv, TypeOK, Cache
  <1>3. ListedCopy(api', registry'.tags)
    BY <1>2, ListGrows
  <1>4. \A p \in Operators : ListedCopy(informer'[p].bundle, registry'.tags)
    <2>1. \A p \in Operators : ListedCopy(informer'[p].bundle, registry.tags)
      BY <1>1 DEF SteadyInv
    <2> QED BY <1>2, <2>1, ListGrows
  <1>5. \A p \in Operators : LaterCall(op'[p], registry'.tags)
    <2>1. ASSUME NEW p \in Operators PROVE LaterCall(op'[p], registry.tags)
      <3>1. LaterCall(op[p], registry.tags)
        BY <1>1 DEF SteadyInv
      <3>2. CASE /\ op'[p].pc = op[p].pc /\ op'[p].bundle = op[p].bundle
                 /\ op'[p].tag = op[p].tag
        BY <3>1, <3>2 DEF LaterCall
      <3> QED BY <3>2, IdleLater
    <2> QED BY <1>2, <2>1, ListGrows
  <1> QED BY <1>3, <1>4, <1>5 DEF SteadyInv

\* A call that moves on without a write stays with the tag it found, or has
\* just found the latest.
LEMMA MovedLater ==
    ASSUME TypeInv, Steady, NEW o \in Operators,
           LaterCall(op[o], registry.tags), NEW call, Moved(o, call),
           call.pc # "registryRetry"
    PROVE  LaterCall(call, registry.tags)
  <1> DEFINE tags == registry.tags[op[o].bundle.spec.url]
             was == op[o].bundle.status.lastAppliedTag
  <1>1. /\ call.bundle.spec = op[o].bundle.spec
        /\ call.bundle.status.lastAppliedTag = was
        /\ Moves(op[o].pc, call.pc)
    BY DEF Moved
  <1>2. ListedCopy(call.bundle, registry.tags)
    BY <1>1 DEF LaterCall, ListedCopy
  <1>3. was = NoTag \/ was \in tags
    BY DEF LaterCall, ListedCopy
  <1>4. \A t \in tags : t \in Nat
    BY CallType, OneList DEF Bundle
  <1>5. ASSUME call.pc \in Recording PROVE call.tag \in tags /\ was <= call.tag
    <2>1. CASE op[o].pc = "poll"
      <3>1. call.pc \in Found
        BY <1>1, <1>5, <2>1 DEF Moves, Recording, Found
      <3>2. PollFound(o, call.pc, call.tag)
        BY <2>1, <3>1 DEF Moved
      <3>3. call.tag \in tags /\ \A t \in tags : t <= call.tag
        BY <3>2 DEF PollFound
      <3> QED BY <1>3, <1>4, <3>3 DEF NoTag
    <2>2. CASE op[o].pc # "poll"
      <3>1. op[o].pc \in Recording
        BY <1>1, <1>5, <2>2 DEF Moves, Recording, Found
      <3>2. call.tag = op[o].tag
        BY <2>2 DEF Moved
      <3> QED BY <3>1, <3>2 DEF LaterCall
    <2> QED BY <2>1, <2>2
  <1> QED BY <1>1, <1>2, <1>5 DEF LaterCall

\* The registry answers, so no poll fails.
LEMMA NoRetry ==
    ASSUME TypeInv, registry.up, NEW o \in Operators, Local(o),
           NEW call, op' = [op EXCEPT ![o] = call], Moved(o, call)
    PROVE  call.pc # "registryRetry"
  <1>0. op[o] \in Call /\ op'[o] = call
    BY CallType DEF TypeInv, TypeOK
  <1>1. CASE op[o].pc # "poll"
    BY <1>1 DEF Moved, Moves
  <1>2. CASE op[o].pc = "poll"
    <2>1. \/ PollNotModified(o) \/ PollFindsNoTags(o)
          \/ \E latestTag \in Tags : PollFindsTag(o, latestTag)
      BY <1>2 DEF Local, CheckServiceAccount, PollFails, GetActiveJob, Build,
                  CreateJob, CaptureLogs
    <2>2. \/ op' = [op EXCEPT ![o] = Idle]
          \/ \E bundle : op' = [op EXCEPT ![o] = [@ EXCEPT !.pc = "noTags",
                                                        !.bundle = bundle]]
          \/ \E latestTag \in Tags : op' = [op EXCEPT ![o] =
                                                TagFound(@, latestTag)]
      BY <2>1 DEF PollNotModified, PollFindsNoTags, PollFindsTag, Return, Goto
    <2>3. \A tag \in Tags : TagFound(op[o], tag).pc \in Found
      BY <1>0 DEF TagFound, Call, Found
    <2>4. CASE op' = [op EXCEPT ![o] = Idle]
      BY <1>0, <2>4 DEF Idle, TypeInv, TypeOK
    <2>5. ASSUME NEW bundle,
                 op' = [op EXCEPT ![o] = [@ EXCEPT !.pc = "noTags",
                                                   !.bundle = bundle]]
          PROVE  call.pc = "noTags"
      <3>1. op'[o] = [op[o] EXCEPT !.pc = "noTags", !.bundle = bundle]
        BY <2>5 DEF TypeInv, TypeOK
      <3> QED BY <1>0, <3>1 DEF Call
    <2>6. ASSUME NEW tag \in Tags, op' = [op EXCEPT ![o] = TagFound(@, tag)]
          PROVE  call.pc \in Found
      BY <1>0, <2>3, <2>6 DEF TypeInv, TypeOK
    <2> QED BY <2>2, <2>4, <2>5, <2>6 DEF Found
  <1> QED BY <1>1, <1>2

\* What a step may do to LastAppliedTag: it does not go back, and a call that
\* changes it has not claimed a tag before.
Advances ==
    LET was == api.status.lastAppliedTag
        is == api'.status.lastAppliedTag
    IN  is = was \/ (was <= is /\ \E o \in Operators : op[o].pc \notin Claiming)

LEMMA NextSteady ==
    ASSUME TypeInv, TypeInv', ClaimInv, RefInv, SteadyInv, [Next]_vars, Steady'
    PROVE  SteadyInv' /\ Advances
  <1>0. /\ Steady /\ ListedCopy(api, registry.tags)
        /\ \A p \in Operators : LaterCall(op[p], registry.tags)
    BY SteadyStep DEF SteadyInv
  <1>1. ASSUME NEW o \in Operators, StartReconcile(o) PROVE SteadyInv' /\ Advances
    <2>1. /\ UNCHANGED <<api, informer>>
          /\ \/ op' = op
             \/ /\ \A p \in Operators \ {o} : op'[p] = op[p]
                /\ op'[o].pc = FirstStep(informer[o].bundle)
                /\ op'[o].bundle = informer[o].bundle
      BY <1>1, StartEffect
    <2>2. FirstStep(informer[o].bundle) \notin Recording \union {"registryRetry"}
      BY DEF FirstStep, AfterFinalizer, AfterNamespace, Recording, Found
    <2>3. op' = op \/ LaterCall(op'[o], registry.tags)
      BY <1>0, <2>1, <2>2 DEF SteadyInv, LaterCall
    <2>4. \A p \in Operators : op'[p] = op[p] \/ LaterCall(op'[p], registry.tags)
      BY <2>1, <2>3
    <2>5. SteadyInv'
      BY <1>0, <2>1, <2>4, CopiesLater
    <2> QED BY <2>1, <2>5 DEF Advances
  <1>2. ASSUME NEW o \in Operators, Write(o) PROVE SteadyInv' /\ Advances
    <2>1. CASE op' = [op EXCEPT ![o] = Idle] /\ UNCHANGED <<api, jobs, informer>>
      <3>1. \A p \in Operators : op'[p] = op[p] \/ op'[p] = Idle
        BY <2>1 DEF TypeInv, TypeOK
      <3>2. SteadyInv'
        BY <1>0, <2>1, <3>1, CopiesLater
      <3> QED BY <2>1, <3>2 DEF Advances
    <2>2. ASSUME NEW bundle \in Bundle, NEW next \in Plainly \union Outcomes,
                 Written(op[o], bundle, next), Persist(o, bundle, next)
          PROVE  SteadyInv' /\ Advances
      <3>1. /\ ListedCopy(bundle, registry.tags)
            /\ op[o].bundle.status.lastAppliedTag
                 <= bundle.status.lastAppliedTag
        BY <1>0, <2>2, StoredLater
      <3>2. api.status.lastAppliedTag = op[o].bundle.status.lastAppliedTag
        BY <2>2, PersistEffect DEF ClaimInv, FreshCalls, Agrees
      <3>3. op[o].pc \notin Claiming
        BY <2>2 DEF Written, Reported, Plain, Failing, Claiming
      <3>4. Advances
        BY <2>2, <3>1, <3>2, <3>3, PersistEffect DEF Advances
      <3>5. op'[o] = Idle \/ LaterCall(op'[o], registry.tags)
        <4>1. CASE next \in Outcomes
          BY <2>2, <4>1, PersistEffect
        <4>2. CASE next \notin Outcomes
          <5>1. op'[o].pc = next /\ op'[o].bundle = bundle
            BY <2>2, <4>2, PersistEffect
          <5>2. next \notin Recording \union {"registryRetry"}
            BY <2>2, <4>2 DEF Written, AfterFinalizer, AfterNamespace,
                              Recording, Found
          <5> QED BY <3>1, <5>1, <5>2 DEF LaterCall
        <4> QED BY <4>1, <4>2
      <3>6. SteadyInv'
        BY <1>0, <2>2, <3>1, <3>5, PersistEffect, CopiesLater
      <3> QED BY <3>4, <3>6
    <2> QED BY <1>2, <2>1, <2>2, WriteEffect
  <1>3. ASSUME NEW o \in Operators, Local(o) PROVE SteadyInv' /\ Advances
    <2>1. UNCHANGED <<api, informer>>
      BY <1>3, LocalTable
    <2>2. \A p \in Operators : \/ op'[p] = op[p] \/ op'[p] = Idle
                               \/ LaterCall(op'[p], registry.tags)
      <3>1. CASE op' = [op EXCEPT ![o] = Idle]
        BY <3>1 DEF TypeInv, TypeOK
      <3>2. ASSUME NEW call, op' = [op EXCEPT ![o] = call], Moved(o, call)
            PROVE  LaterCall(call, registry.tags)
        BY <1>0, <1>3, <3>2, NoRetry, MovedLater DEF Steady
      <3> QED BY <1>3, <3>1, <3>2, LocalTable DEF TypeInv, TypeOK
    <2>3. SteadyInv'
      BY <1>0, <2>1, <2>2, CopiesLater
    <2> QED BY <2>1, <2>3 DEF Advances
  <1>4. ASSUME NEW o \in Operators, Runtime(o) PROVE SteadyInv' /\ Advances
    <2>1. /\ UNCHANGED api /\ \A p \in Operators : op'[p] \in {op[p], Idle}
          /\ \A p \in Operators :
                informer'[p].bundle \in {informer[p].bundle, api}
      BY <1>4, RuntimeEffect
    <2>2. SteadyInv'
      BY <1>0, <2>1, CopiesLater
    <2> QED BY <2>1, <2>2 DEF Advances
  <1>5. ASSUME EditSpec \/ DeleteBundle PROVE SteadyInv' /\ Advances
    <2>1. /\ api'.status = api.status
          /\ \A p \in Operators : informer'[p].bundle = informer[p].bundle
          /\ \A p \in Operators :
                /\ op'[p].pc = op[p].pc /\ op'[p].bundle = op[p].bundle
                /\ op'[p].tag = op[p].tag
      BY <1>5, UserEffect
    <2>2. api.spec \in Specs /\ api'.spec \in Specs
      BY DEF TypeInv, TypeOK, Bundle
    <2>3. ListedCopy(api', registry.tags)
      BY <1>0, <2>1, <2>2, OneList DEF ListedCopy
    <2>4. SteadyInv'
      BY <2>1, <2>3, CopiesLater
    <2> QED BY <2>1, <2>4 DEF Advances
  <1>6. ASSUME Outside \/ UNCHANGED vars PROVE SteadyInv' /\ Advances
    <2>1. UNCHANGED <<api, informer, op>>
      BY <1>6, OutsideEffect DEF vars
    <2>2. SteadyInv'
      BY <1>0, <2>1, CopiesLater
    <2> QED BY <2>1, <2>2 DEF Advances
  <1> QED BY <1>1, <1>2, <1>3, <1>4, <1>5, <1>6, StepCases

LEMMA InitSteady == Init => SteadyInv
  <1> SUFFICES ASSUME Init PROVE SteadyInv
    OBVIOUS
  <1>1. \A spec, tags : ListedCopy(NewBundle(spec), tags)
    BY DEF ListedCopy, NewBundle, NoStatus
  <1>2. \A o \in Operators : op[o] = Idle /\ informer[o].bundle = api
    BY DEF Init
  <1>3. \E spec \in Specs : api = NewBundle(spec)
    BY DEF Init
  <1> QED BY <1>1, <1>2, <1>3, IdleLater DEF SteadyInv

LEMMA InitOnce == Init => OnceInv
  <1>1. ASSUME Init
        PROVE  /\ api.status.lastAppliedTag = NoTag
               /\ \A o \in Operators : Claimed(op[o]) = NoTag
               /\ \A j \in JobNames : jobs[j].tag = NoTag
    BY <1>1 DEF Init, NewBundle, NoStatus, Claimed, Idle, Unused
  <1> QED BY <1>1 DEF OnceInv, NoTag

\* The tags that OnceInv compares are numbers.
LEMMA TagsAreRanks ==
    ASSUME TypeInv, TypeInv'
    PROVE  /\ {api.status.lastAppliedTag, api'.status.lastAppliedTag} \subseteq Int
           /\ \A o \in Operators :
                 Claimed(op[o]) \in Nat /\ Claimed(op'[o]) \in Nat
           /\ \A j \in JobNames : jobs[j].tag \in Nat /\ jobs'[j].tag \in Nat
  <1>1. Tags \union {NoTag} \subseteq Nat /\ ErrorText \in Int
    BY TagsAssumption DEF NoTag, ErrorText
  <1>2. ASSUME NEW bundle \in Bundle PROVE bundle.status.lastAppliedTag \in Int
    BY <1>1, <1>2 DEF Bundle, Status
  <1>3. ASSUME NEW call \in Call PROVE Claimed(call) \in Nat
    BY <1>1, <1>3 DEF Claimed, Call
  <1>4. ASSUME NEW job \in Job PROVE job.tag \in Nat
    BY <1>1, <1>4 DEF Job
  <1> QED BY <1>2, <1>3, <1>4 DEF TypeInv, TypeOK

(***************************************************************************)
(* The controller implements Deployments, so a step claims, deploys, gives *)
(* up or overwrites.  As LastAppliedTag does not go back, a tag that is    *)
(* claimed is later than all that were claimed before.                     *)
(***************************************************************************)
LEMMA NextOnce ==
    ASSUME TypeInv, TypeInv', ClaimInv, RefInv, SteadyInv, OnceInv,
           [Next]_vars
    PROVE  OnceInv'
  <1> DEFINE was == api.status.lastAppliedTag
             is == api'.status.lastAppliedTag
             held(o) == Claimed(op[o])
             holds(o) == Claimed(op'[o])
  <1> SUFFICES ASSUME Steady' PROVE OnceInv'
    BY DEF OnceInv
  <1>0. Steady /\ Advances /\ Step
    BY SteadyStep, NextSteady, NextRef
  <1>1. /\ was \in Int /\ is \in Int /\ was <= is
        /\ \A o \in Operators : held(o) \in Nat /\ holds(o) \in Nat
        /\ \A j \in JobNames : jobs[j].tag \in Nat /\ jobs'[j].tag \in Nat
    BY <1>0, TagsAreRanks DEF Advances
  <1>2. /\ \A o \in Operators : held(o) <= was
        /\ \A j \in JobNames : jobs[j].tag <= was
        /\ \A o, p \in Operators : held(o) # NoTag /\ held(o) = held(p) => o = p
        /\ \A j, k \in JobNames :
              jobs[j].tag # NoTag /\ jobs[j].tag = jobs[k].tag => j = k
        /\ \A o \in Operators, j \in JobNames :
              held(o) # NoTag => held(o) # jobs[j].tag
        /\ OneOperator => \A o \in Operators : held(o) \in {NoTag, was}
    BY <1>0 DEF OnceInv
  <1> DEFINE Once ==
        /\ \A o \in Operators : holds(o) <= is
        /\ \A j \in JobNames : jobs'[j].tag <= is
        /\ \A o, p \in Operators :
              holds(o) # NoTag /\ holds(o) = holds(p) => o = p
        /\ \A j, k \in JobNames :
              jobs'[j].tag # NoTag /\ jobs'[j].tag = jobs'[k].tag => j = k
        /\ \A o \in Operators, j \in JobNames :
              holds(o) # NoTag => holds(o) # jobs'[j].tag
        /\ OneOperator => \A o \in Operators : holds(o) \in {NoTag, is}
  <1>3. OneOperator /\ is # was => \A o \in Operators : held(o) = NoTag
    BY <1>0 DEF Advances, OneOperator, Claimed, Claiming
  <1>4. ASSUME NEW o \in Operators, NEW t \in Tags, Promise!Claim(o, t)
        PROVE  Once
    <2>1. /\ is = t /\ was # t /\ held(o) = NoTag /\ holds(o) = t
          /\ \A p \in Operators \ {o} : holds(p) = held(p)
          /\ \A j \in JobNames : jobs'[j].tag = jobs[j].tag
      BY <1>4 DEF Promise!Claim
    <2>2. was < t
      BY <1>1, <2>1
    <2>3. OneOperator => \A p \in Operators : p = o
      BY DEF OneOperator
    <2> HIDE DEF was, is, held, holds
    <2> QED BY <1>1, <1>2, <2>1, <2>2, <2>3
  <1>5. ASSUME NEW o \in Operators, NEW n \in JobNames, Promise!Deploy(o, n)
        PROVE  Once
    <2>1. /\ is = was /\ held(o) # NoTag /\ holds(o) = NoTag
          /\ \A p \in Operators \ {o} : holds(p) = held(p)
          /\ jobs'[n].tag = held(o)
          /\ \A j \in JobNames \ {n} : jobs'[j].tag = jobs[j].tag
      BY <1>5 DEF Promise!Deploy
    <2>2. 0 <= was
      BY <1>1, <1>2
    <2> HIDE DEF was, is, held, holds
    <2> QED BY <1>1, <1>2, <2>1, <2>2 DEF NoTag
  <1>6. ASSUME NEW o \in Operators, Promise!GiveUp(o) PROVE Once
    <2>1. /\ is = was /\ holds(o) = NoTag
          /\ \A p \in Operators \ {o} : holds(p) = held(p)
          /\ \A j \in JobNames : jobs'[j].tag = jobs[j].tag
      BY <1>6 DEF Promise!GiveUp
    <2>2. 0 <= was
      BY <1>1, <1>2
    <2> HIDE DEF was, is, held, holds
    <2> QED BY <1>1, <1>2, <2>1, <2>2 DEF NoTag
  <1>7. ASSUME \/ \E t \in Tags \union {ErrorText} : Promise!Overwrite(t)
               \/ Promise!Remove \/ UNCHANGED Promise!vars
        PROVE  Once
    <2>1. /\ \A p \in Operators : holds(p) = held(p)
          /\ \A j \in JobNames : jobs'[j].tag = jobs[j].tag
      BY <1>7 DEF Promise!Overwrite, Promise!Remove, Promise!vars
    <2> HIDE DEF was, is, held, holds
    <2> QED BY <1>1, <1>2, <1>3, <2>1
  <1>8. Once
    BY <1>0, <1>4, <1>5, <1>6, <1>7 DEF Step, Promise!Next
  <1> QED BY <1>8 DEF OnceInv, OneOperator

\* All that the two theorems rest on.
OnceBase == TypeInv /\ ClaimInv /\ RefInv /\ ListedInv /\ SteadyInv /\ OnceInv

LEMMA BaseHolds == Spec => []OnceBase
  <1>1. Init => OnceBase
    BY InitType, InitClaim, InitRef, InitSteady, InitOnce
       DEF OnceBase, Init, ListedInv, ListedCall, ListedJob, Idle, Unused,
           Polling, Found
  <1>2. OnceBase /\ [Next]_vars => OnceBase'
    <2> SUFFICES ASSUME OnceBase, [Next]_vars PROVE OnceBase'
      OBVIOUS
    <2>1. TypeInv' /\ ClaimInv' /\ RefInv'
      BY NextType, NextClaim, NextRef DEF OnceBase
    <2>2. ListedInv'
      BY <2>1, NextListed DEF OnceBase
    <2>3. SteadyInv'
      <3>1. CASE Steady'
        BY <2>1, <3>1, NextSteady DEF OnceBase
      <3>2. CASE ~Steady'
        BY <3>2 DEF SteadyInv
      <3> QED BY <3>1, <3>2
    <2>4. OnceInv'
      BY <2>1, NextOnce DEF OnceBase
    <2> QED BY <2>1, <2>2, <2>3, <2>4 DEF OnceBase
  <1> QED BY <1>1, <1>2, PTL DEF Spec

\* A Job that exists has a tag.
LEMMA CreatedHasTag ==
    ASSUME OnceBase, Steady, NEW j \in JobNames, Created(j)
    PROVE  jobs[j].tag # NoTag
  <1>1. jobs[j].spec \in Specs /\ Spared({"withdraw"})
    BY DEF OnceBase, TypeInv, TypeOK, Job, Steady, Spared
  <1>2. jobs[j].tag \in registry.tags[jobs[j].spec.url]
    BY <1>1 DEF OnceBase, ListedInv, ListedJob, Created
  <1> QED BY <1>1, <1>2, OneList DEF OnceBase, NoTag

(***************************************************************************)
(* For any number of operators, tags, Jobs, crashes, lost answers and      *)
(* deletions: as long as the registry answers, loses no tag and edits keep *)
(* the url, no two Jobs converge the same tag.                             *)
(***************************************************************************)
THEOREM DeployedOnce == Spec => []TagsAreDeployedOnce
  <1>1. OnceBase => TagsAreDeployedOnce
    BY CreatedHasTag DEF OnceBase, OnceInv, TagsAreDeployedOnce
  <1> QED BY <1>1, BaseHolds, PTL

(***************************************************************************)
(* And one operator process creates Jobs in the order of their tags,       *)
(* however often it crashes or loses an answer (Reconcile takes the latest *)
(* tag and ends, in one way or another, before it polls again).            *)
(***************************************************************************)
THEOREM NeverRollsBack == Spec => NoRollback
  <1>1. ASSUME OnceBase, [Next]_vars, Steady, OneOperator,
               NEW j \in JobNames, NEW k \in JobNames,
               ~Created(j), Created(j)', Created(k)
        PROVE  jobs[k].tag < jobs'[j].tag
    <2>1. PICK p \in Operators :
             op[p].pc = "createJob" /\ jobs'[j].tag = op[p].tag
      BY <1>1, Origins DEF OnceBase, JobOrigin, Created
    <2>2. Claimed(op[p]) = op[p].tag /\ op[p].tag # NoTag
      BY <1>1, <2>1 DEF Claimed, OnceBase, RefInv, GoodCall, Tagged
    <2>3. /\ op[p].tag = api.status.lastAppliedTag
          /\ jobs[k].tag <= op[p].tag /\ jobs[k].tag # op[p].tag
      BY <1>1, <2>2 DEF OnceBase, OnceInv
    <2>4. op[p].tag \in Nat /\ jobs[k].tag \in Nat
      BY <1>1, <2>2, NextType, TagsAreRanks DEF OnceBase
    <2> QED BY <2>1, <2>3, <2>4
  <1>2. OnceBase /\ [Next]_vars =>
           [Steady /\ OneOperator =>
               \A j, k \in JobNames :
                   ~Created(j) /\ Created(j)' /\ Created(k) =>
                       jobs[k].tag < jobs'[j].tag]_vars
    BY <1>1
  <1> QED BY <1>2, BaseHolds, PTL DEF Spec, NoRollback
=============================================================================
