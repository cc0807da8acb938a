----------------------------- MODULE Deployments ------------------------------
(***************************************************************************)
(* What the WerfBundle controller promises about deployments, without the  *)
(* copies, caches, queues and calls it needs to keep the promise.          *)
(*                                                                         *)
(* There is one register, the bundle's LastAppliedTag.  A deployer claims  *)
(* a tag by swapping it into the register in one step, and only if the     *)
(* register holds something else; a claim is worth at most one Job, of the *)
(* tag that was claimed; and nobody claims for a bundle that is gone.  The *)
(* controller also writes the register without a claim (an error message,  *)
(* the tag under which a finished Job is recorded), which creates no Job.  *)
(***************************************************************************)
CONSTANTS
    Deployers,   \* who claims and creates
    Tags,        \* what can be deployed
    Names,       \* names of Jobs
    NoTag,       \* no tag: nothing claimed, name not in use
    ErrorText    \* what the register holds after a registry error

VARIABLES
    applied,     \* the register
    pending,     \* the tag each deployer has claimed and not yet used
    deployed,    \* the tag of the Job under each name
    removed      \* is the bundle gone

vars == <<applied, pending, deployed, removed>>

Init ==
    /\ applied = NoTag
    /\ pending = [d \in Deployers |-> NoTag]
    /\ deployed = [n \in Names |-> NoTag]
    /\ removed = FALSE

-----------------------------------------------------------------------------
\* A tag that the register does not hold goes in, and the deployer may use it.
Claim(d, t) ==
    /\ ~removed /\ pending[d] = NoTag /\ applied # t
    /\ applied' = t
    /\ pending' = [pending EXCEPT ![d] = t]
    /\ UNCHANGED <<deployed, removed>>

\* A claim becomes a Job under a name that was never used.
Deploy(d, n) ==
    /\ pending[d] # NoTag /\ deployed[n] = NoTag
    /\ deployed' = [deployed EXCEPT ![n] = pending[d]]
    /\ pending' = [pending EXCEPT ![d] = NoTag]
    /\ UNCHANGED <<applied, removed>>

\* A claim comes to nothing.
GiveUp(d) ==
    /\ pending[d] # NoTag
    /\ pending' = [pending EXCEPT ![d] = NoTag]
    /\ UNCHANGED <<applied, deployed, removed>>

\* The register changes and nobody may deploy because of it.
Overwrite(t) ==
    /\ ~removed /\ applied' = t
    /\ UNCHANGED <<pending, deployed, removed>>

\* The bundle goes for good.
Remove ==
    /\ ~removed /\ removed' = TRUE
    /\ UNCHANGED <<applied, pending, deployed>>

Next ==
    \/ \E d \in Deployers :
          \/ \E t \in Tags : Claim(d, t)
          \/ \E n \in Names : Deploy(d, n)
          \/ GiveUp(d)
    \/ \E t \in Tags \union {ErrorText} : Overwrite(t)
    \/ Remove

Spec == Init /\ [][Next]_vars
=============================================================================
