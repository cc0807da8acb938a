------------------------------- MODULE JobLogs --------------------------------
(***************************************************************************)
(* The logs of a finished Job: CaptureJobLogs and getPodLogs               *)
(* (internal/converge/logs.go), then storeJobLogs and the status write of  *)
(* monitorJobCompletion (controllers/werfbundle_controller.go).  A status  *)
(* write that fails makes the next Reconcile do it all again, by then      *)
(* perhaps with fewer pods, and so does a cache that does not have it yet. *)
(* A log is a sequence of pieces; the constants give the code's limits in  *)
(* pieces.                                                                 *)
(***************************************************************************)
EXTENDS Integers, Sequences

CONSTANTS
    NumPods,         \* the pods of the Job are 1..NumPods, as they are listed
    MaxPodLog,       \* bound: the longest log getPodLogs returns
    MaxLogSize,      \* maxLogSize, 1 MiB
    NoticeSize,      \* the length of the truncation notice
    StatusLimit,     \* what storeJobLogs puts in the status, 5120
    ConfigMapLimit   \* the most data the API server takes, 1 MiB

ASSUME SizesAssumption ==
    /\ NumPods \in Nat /\ MaxPodLog \in Nat
    /\ {MaxLogSize, NoticeSize, StatusLimit, ConfigMapLimit} \subseteq Nat \ {0}

Pods == 1..NumPods

VARIABLES
    size,        \* the length of each pod's log
    present,     \* the pods that are still there
    pc,          \* what monitorJobCompletion does next
    unread,      \* the listed pods whose log is still to be read
    allLogs,     \* the logs read so far, joined
    logs,        \* what CaptureJobLogs returned last
    statusLogs,  \* LastJobLogs in memory
    configMap,   \* the data of "<job>-logs", << >> if it does not exist
    status,      \* LastJobLogs in the API server
    failed,      \* a request to store the last captured logs has failed
    stale        \* a Reconcile has read the bundle without its last status

vars ==
    <<size, present, pc, unread, allLogs, logs, statusLogs, configMap, status,
      failed, stale>>

PodLog(p) == [i \in 1..size[p] |-> <<p, i>>]
Pieces == Pods \X (1..MaxPodLog)
Separator == <<0, 0>>
Notice == [i \in 1..NoticeSize |-> <<0, 1>>]
Reference == <<<<0, 2>>>>

AllPieces == Pieces \union {Separator, <<0, 1>>}
Text == Seq(AllPieces)

TypeOK ==
    /\ size \in [Pods -> 0..MaxPodLog]
    /\ present \subseteq Pods
    /\ pc \in {"idle", "read", "store", "write", "done"}
    /\ unread \subseteq Pods
    /\ allLogs \in Text
    /\ logs \in Text /\ Len(logs) <= MaxLogSize + NoticeSize
    /\ configMap \in Text /\ Len(configMap) <= ConfigMapLimit
    /\ statusLogs \in Text \union {Reference}
    /\ status \in Text \union {Reference}
    /\ failed \in BOOLEAN /\ stale \in BOOLEAN

Init ==
    /\ size \in [Pods -> 0..MaxPodLog]
    /\ present = Pods
    /\ pc = "idle"
    /\ unread = {} /\ allLogs = << >> /\ logs = << >>
    /\ statusLogs = << >> /\ configMap = << >> /\ status = << >>
    /\ failed = FALSE /\ stale = FALSE

-----------------------------------------------------------------------------
(* CaptureJobLogs                                                          *)

\* c.List of the Job's pods; none, or an error, ends the capture.
ListPods ==
    /\ pc = "idle"
    /\ statusLogs' = IF stale THEN << >> ELSE status
    /\ unread' \in {present, {}}
    /\ pc' = IF unread' = {} THEN "write" ELSE "read"
    /\ allLogs' = << >>
    /\ failed' = FALSE
    /\ UNCHANGED <<size, present, logs, configMap, status, stale>>

\* strings.Join(allLogs, "\n---\n"), one log at a time: none of them is empty.
Combined(log) ==
    IF allLogs = << >> THEN log ELSE allLogs \o <<Separator>> \o log

\* A pod that is gone, cannot be read or has no log is skipped.
ReadPod(p) ==
    /\ pc = "read" /\ p \in unread /\ \A q \in unread : p <= q
    /\ \/ allLogs' = allLogs
       \/ p \in present /\ size[p] > 0 /\ allLogs' = Combined(PodLog(p))
    /\ unread' = unread \ {p}
    /\ UNCHANGED <<size, present, pc, logs, statusLogs, configMap, status,
                   failed, stale>>

\* Mutant of Truncate: the first 1 MiB is kept.
TruncateEnd(text) ==
    IF Len(text) <= MaxLogSize THEN text
    ELSE Notice \o SubSeq(text, 1, MaxLogSize)

\* Mutant of Truncate: the length is not checked.
TruncateNever(text) == text

Truncate(text) ==
    IF Len(text) <= MaxLogSize THEN text
    ELSE Notice \o SubSeq(text, Len(text) - MaxLogSize + 1, Len(text))

Combine ==
    /\ pc = "read" /\ unread = {}
    /\ IF allLogs = << >> THEN pc' = "write" /\ UNCHANGED logs
                          ELSE pc' = "store" /\ logs' = Truncate(allLogs)
    /\ UNCHANGED <<size, present, unread, allLogs, statusLogs, configMap,
                   status, failed, stale>>

-----------------------------------------------------------------------------
(* storeJobLogs and the status write                                       *)

StoreInStatus ==
    /\ pc = "store" /\ Len(logs) <= StatusLimit
    /\ statusLogs' = logs
    /\ pc' = "write"
    /\ UNCHANGED <<size, present, unread, allLogs, logs, configMap, status,
                   failed, stale>>

\* Mutant of StoreInConfigMap: a ConfigMap that exists is left as it is.
StoreInConfigMapOnce ==
    /\ pc = "store" /\ Len(logs) > StatusLimit /\ Len(logs) <= ConfigMapLimit
    /\ configMap' = IF configMap = << >> THEN logs ELSE configMap
    /\ statusLogs' = Reference
    /\ pc' = "write"
    /\ UNCHANGED <<size, present, unread, allLogs, logs, status, failed, stale>>

\* r.Create, or r.Update if the ConfigMap exists from an earlier attempt.
StoreInConfigMap ==
    /\ pc = "store" /\ Len(logs) > StatusLimit /\ Len(logs) <= ConfigMapLimit
    /\ configMap' = logs
    /\ statusLogs' = Reference
    /\ pc' = "write"
    /\ UNCHANGED <<size, present, unread, allLogs, logs, status, failed, stale>>

\* The API server refuses a ConfigMap that is too large: LastJobLogs stays
\* what it was.
StoreRefused ==
    /\ pc = "store" /\ Len(logs) > StatusLimit /\ Len(logs) > ConfigMapLimit
    /\ pc' = "write"
    /\ UNCHANGED <<size, present, unread, allLogs, logs, statusLogs, configMap,
                   status, failed, stale>>

\* The request fails, perhaps after it was carried out.
StoreFails ==
    /\ pc = "store" /\ Len(logs) > StatusLimit
    /\ \/ UNCHANGED configMap
       \/ Len(logs) <= ConfigMapLimit /\ configMap' = logs
    /\ pc' = "write"
    /\ failed' = TRUE
    /\ UNCHANGED <<size, present, unread, allLogs, logs, statusLogs, status,
                   stale>>

\* updateStatusSynced or updateStatusFailed.
WriteStatus ==
    /\ pc = "write" /\ ~stale
    /\ status' = statusLogs
    /\ pc' = "done"
    /\ UNCHANGED <<size, present, unread, allLogs, logs, statusLogs, configMap,
                   failed, stale>>

\* The error, a conflict if the bundle read was an old one, is returned and
\* the key is queued again.
WriteFails ==
    /\ pc = "write"
    /\ pc' = IF stale THEN "done" ELSE "idle"
    /\ UNCHANGED <<size, present, unread, allLogs, logs, statusLogs, configMap,
                   status, failed, stale>>

\* A queued Reconcile reads the bundle from a cache that does not have the
\* last status write yet, and finds the Job still active.
StaleReconcile ==
    /\ pc = "done"
    /\ pc' = "idle"
    /\ stale' = TRUE
    /\ UNCHANGED <<size, present, unread, allLogs, logs, statusLogs, configMap,
                   status, failed>>

\* Someone deletes a pod.
PodRemoved(p) ==
    /\ p \in present
    /\ present' = present \ {p}
    /\ UNCHANGED <<size, pc, unread, allLogs, logs, statusLogs, configMap,
                   status, failed, stale>>

Next ==
    \/ ListPods \/ Combine
    \/ StoreInStatus \/ StoreInConfigMap \/ StoreRefused \/ StoreFails
    \/ WriteStatus \/ WriteFails \/ StaleReconcile
    \/ \E p \in Pods : ReadPod(p) \/ PodRemoved(p)

Spec == Init /\ [][Next]_vars

-----------------------------------------------------------------------------
\* What a reader of the status finds.
Shown == IF status = Reference THEN configMap ELSE status

\* The last Reconcile captured logs, no request of it failed, and its outcome
\* is in the status.
Recorded == pc = "done" /\ ~stale /\ ~failed /\ allLogs # << >>

(***************************************************************************)
(* The end of a log, where werf says why it failed, is not lost: what is   *)
(* captured, cut or not, and what a reader of the status finds, if         *)
(* anything, end with the last piece of some pod's log, captured twice or  *)
(* stored elsewhere; and captured logs that the API server accepts in a    *)
(* ConfigMap are what the reader finds once the outcome is recorded        *)
(* (CaptureJobLogs keeps the last 1MB, storeJobLogs).  With the code's     *)
(* limits a cut log and its notice are more than the API server accepts,   *)
(* and the reader finds nothing of it, although the comments of both       *)
(* functions say that it is cut so that it fits: the last part leaves      *)
(* these logs out.                                                         *)
(***************************************************************************)
EndIsKept ==
    /\ \A text \in {logs, Shown} \ {<< >>} :
          \E p \in Pods : size[p] > 0 /\ text[Len(text)] = <<p, size[p]>>
    /\ Recorded /\ Len(logs) <= ConfigMapLimit => Shown = logs

(***************************************************************************)
(* "See ConfigMap ... for full logs" refers to what was captured together  *)
(* with the status that says it, also when an earlier attempt left its own *)
(* ConfigMap behind (storeJobLogs updates a ConfigMap that exists).  A     *)
(* Reconcile that does not know of the status may capture the logs anew,   *)
(* but never leaves the reference without logs too long for the status.    *)
(***************************************************************************)
ReferenceIsCurrent ==
    status = Reference =>
        Len(configMap) > StatusLimit /\ (~stale => configMap = logs)
=============================================================================
