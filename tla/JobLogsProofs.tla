---------------------------- MODULE JobLogsProofs -----------------------------
(***************************************************************************)
(* Proofs about the logs of a Job, for any number of pods, logs of any     *)
(* length and any limits.                                                  *)
(***************************************************************************)
EXTENDS JobLogs, SequenceTheorems, TLAPS

USE SizesAssumption

-----------------------------------------------------------------------------
(* Texts                                                                   *)

LEMMA FunctionIsSeq ==
    ASSUME NEW S, NEW n \in Nat, NEW f \in [1..n -> S]
    PROVE  f \in Seq(S) /\ Len(f) = n
  <1>1. f \in Seq(S)
    BY SeqDef
  <1>2. DOMAIN f = 1..Len(f) /\ DOMAIN f = 1..n /\ Len(f) \in Nat
    BY <1>1, LenProperties
  <1> QED BY <1>1, <1>2

\* A text is empty or has a last piece.
LEMMA TextLength ==
    ASSUME NEW text \in Text
    PROVE  /\ Len(text) \in Nat
           /\ text # << >> => Len(text) >= 1
           /\ Len(text) >= 1 => text # << >>
  BY LenProperties, EmptySeq DEF Text

\* What follows a text brings its own end.
LEMMA ConcatEnd ==
    ASSUME NEW s \in Text, NEW t \in Text, t # << >>
    PROVE  /\ s \o t \in Text
           /\ Len(s \o t) = Len(s) + Len(t)
           /\ (s \o t)[Len(s \o t)] = t[Len(t)]
  <1>1. /\ s \o t \in Text
        /\ Len(s \o t) = Len(s) + Len(t)
        /\ \A i \in 1..Len(s) + Len(t) :
              (s \o t)[i] = IF i <= Len(s) THEN s[i] ELSE t[i - Len(s)]
    BY ConcatProperties DEF Text
  <1>2. Len(s) \in Nat /\ Len(t) \in Nat /\ Len(t) >= 1
    BY TextLength
  <1>3. Len(s) + Len(t) \in 1..Len(s) + Len(t) /\ ~(Len(s) + Len(t) <= Len(s))
        /\ Len(s) + Len(t) - Len(s) = Len(t)
    BY <1>2
  <1> QED BY <1>1, <1>3

LEMMA NoticeIsText == Notice \in Text /\ Len(Notice) = NoticeSize
  <1>1. Notice \in [1..NoticeSize -> AllPieces]
    BY DEF Notice, AllPieces
  <1> QED BY <1>1, FunctionIsSeq DEF Text

LEMMA SeparatorIsText == <<Separator>> \in Text /\ <<Separator>> # << >>
  BY DEF Text, AllPieces

\* No captured text is mistaken for a reference to the ConfigMap.
LEMMA ReferenceIsNoText == Reference \notin Text
  <1> SUFFICES ASSUME Reference \in Text
               PROVE  FALSE
    OBVIOUS
  <1>1. <<0, 2>> \in AllPieces
    BY DEF Reference, Text
  <1>2. <<0, 2>> \notin Pieces
    BY DEF Pieces, Pods
  <1>3. <<0, 2>> # <<0, 0>> /\ <<0, 2>> # <<0, 1>>
    OBVIOUS
  <1> QED BY <1>1, <1>2, <1>3 DEF AllPieces, Separator

\* A pod's log ends with its last piece.
LEMMA PodLogIsText ==
    ASSUME TypeOK, NEW p \in Pods, size[p] > 0
    PROVE  /\ PodLog(p) \in Text
           /\ PodLog(p) # << >>
           /\ PodLog(p)[Len(PodLog(p))] = <<p, size[p]>>
  <1>1. size[p] \in Nat /\ size[p] <= MaxPodLog /\ size[p] \in 1..size[p]
    BY DEF TypeOK
  <1>2. \A i \in 1..size[p] : <<p, i>> \in AllPieces
    BY <1>1 DEF Pieces, AllPieces
  <1>3. PodLog(p) \in [1..size[p] -> AllPieces]
    BY <1>2 DEF PodLog
  <1>4. PodLog(p) \in Seq(AllPieces) /\ Len(PodLog(p)) = size[p]
    BY <1>1, <1>3, FunctionIsSeq
  <1>5. PodLog(p)[size[p]] = <<p, size[p]>>
    BY <1>1 DEF PodLog
  <1>6. PodLog(p) \in Text
    BY <1>4 DEF Text
  <1> HIDE DEF PodLog
  <1> QED BY <1>1, <1>4, <1>5, <1>6, TextLength

-----------------------------------------------------------------------------
(* Ends                                                                    *)

\* The text ends as some pod's log does.
Ends(text) ==
    text # << >> =>
        \E p \in Pods : size[p] > 0 /\ text[Len(text)] = <<p, size[p]>>

\* Joining keeps the end of the log that comes last.
LEMMA CombinedEnds ==
    ASSUME TypeOK, NEW p \in Pods, size[p] > 0
    PROVE  Combined(PodLog(p)) \in Text /\ Ends(Combined(PodLog(p)))
  <1> DEFINE log == PodLog(p)
  <1>1. log \in Text /\ log # << >> /\ log[Len(log)] = <<p, size[p]>>
    BY PodLogIsText
  <1> HIDE DEF log
  <1>2. CASE allLogs = << >>
    BY <1>1, <1>2 DEF Combined, Ends, log
  <1>3. CASE allLogs # << >>
    <2>1. allLogs \in Text
      BY DEF TypeOK
    <2>2. allLogs \o <<Separator>> \in Text
      BY <2>1, SeparatorIsText, ConcatEnd
    <2>3. /\ (allLogs \o <<Separator>>) \o log \in Text
          /\ ((allLogs \o <<Separator>>) \o log)[Len((allLogs \o <<Separator>>) \o log)]
               = log[Len(log)]
      BY <1>1, <2>2, ConcatEnd
    <2>4. Combined(log) = (allLogs \o <<Separator>>) \o log
      BY <1>3 DEF Combined
    <2>5. Combined(log) \in Text /\ Combined(log)[Len(Combined(log))] = <<p, size[p]>>
      BY <1>1, <2>3, <2>4
    <2> QED BY <2>5 DEF Ends, log
  <1> QED BY <1>2, <1>3

\* Cutting keeps the end, and keeps to the limit.
LEMMA TruncateEnds ==
    ASSUME NEW text \in Text, text # << >>, Ends(text)
    PROVE  /\ Truncate(text) \in Text /\ Ends(Truncate(text))
           /\ Len(Truncate(text)) <= MaxLogSize + NoticeSize
  <1>1. Len(text) \in Nat /\ Len(text) >= 1
    BY TextLength
  <1>2. CASE Len(text) <= MaxLogSize
    <2>1. Truncate(text) = text
      BY <1>2 DEF Truncate
    <2> QED BY <1>1, <1>2, <2>1
  <1>3. CASE ~(Len(text) <= MaxLogSize)
    <2> DEFINE first == Len(text) - MaxLogSize + 1
               rest == SubSeq(text, first, Len(text))
    <2>1. first \in Int /\ first >= 1 /\ first <= Len(text) /\ Len(text) - first + 1 = MaxLogSize
      BY <1>1, <1>3
    <2>2. \A i \in first..Len(text) : text[i] \in AllPieces
      <3> TAKE i \in first..Len(text)
      <3>1. i \in 1..Len(text)
        BY <1>1, <2>1
      <3> QED BY <3>1, ElementOfSeq DEF Text
    <2> HIDE DEF first
    <2>3. /\ rest \in Seq(AllPieces)
          /\ Len(rest) = IF first <= Len(text) THEN Len(text) - first + 1 ELSE 0
          /\ \A i \in 1..Len(text) - first + 1 : rest[i] = text[first + i - 1]
      BY <1>1, <2>1, <2>2, SubSeqProperties
    <2> HIDE DEF rest
    <2>4. Len(rest) = MaxLogSize /\ rest \in Text
      BY <2>1, <2>3 DEF Text
    <2>5. rest[MaxLogSize] = text[first + MaxLogSize - 1] /\ first + MaxLogSize - 1 = Len(text)
      BY <1>1, <2>1, <2>3
    <2>6. rest # << >>
      BY <2>4, TextLength
    <2>7. Truncate(text) = Notice \o rest
      BY <1>3 DEF Truncate, rest, first
    <2>8. /\ Notice \o rest \in Text
          /\ Len(Notice \o rest) = NoticeSize + MaxLogSize
          /\ (Notice \o rest)[Len(Notice \o rest)] = text[Len(text)]
      BY <2>4, <2>5, <2>6, NoticeIsText, ConcatEnd
    <2> QED BY <2>7, <2>8 DEF Ends
  <1> QED BY <1>2, <1>3

-----------------------------------------------------------------------------
(* The inductive invariant                                                 *)

(***************************************************************************)
(* The status says what was captured or refers to it.  It refers to the    *)
(* ConfigMap once the Job is recorded, and until a Reconcile that does not *)
(* know of it captures again, the ConfigMap has what was captured then.    *)
(* Captured logs that fit are stored if no request fails.                  *)
(***************************************************************************)
Stored(text) == text # Reference => Ends(text)

\* The last capture found logs that fit, and no request to store them failed.
Storable ==
    ~stale /\ ~failed /\ allLogs # << >> /\ Len(logs) <= ConfigMapLimit

LogsInv ==
    /\ TypeOK
    /\ Ends(allLogs) /\ Ends(logs) /\ Ends(configMap)
    /\ Stored(statusLogs) /\ Stored(status)
    /\ pc \in {"read", "store"} => statusLogs # Reference
    /\ pc \in {"write", "done"} /\ ~stale /\ statusLogs = Reference =>
          Len(configMap) > StatusLimit /\ configMap = logs
    /\ status = Reference => pc = "done" \/ stale
    /\ ReferenceIsCurrent
    /\ pc = "write" /\ Storable => statusLogs \in {logs, Reference}
    /\ pc = "done" /\ Storable => status \in {logs, Reference}

LEMMA LogsInit == Init => LogsInv
  <1> SUFFICES ASSUME Init PROVE LogsInv
    OBVIOUS
  <1>1. << >> \in Text /\ Len(<< >>) = 0
    BY EmptySeq DEF Text
  <1>2. << >> # Reference
    BY <1>1, ReferenceIsNoText
  <1>3. TypeOK
    <2>1. 0 <= MaxLogSize + NoticeSize /\ 0 <= ConfigMapLimit
      OBVIOUS
    <2>2. logs = << >> /\ configMap = << >> /\ Len(logs) = 0 /\ Len(configMap) = 0
      BY <1>1 DEF Init
    <2> QED BY <1>1, <2>1, <2>2 DEF Init, TypeOK
  <1> QED BY <1>2, <1>3
             DEF Init, LogsInv, Ends, Stored, ReferenceIsCurrent, Storable

LEMMA ListPodsKeeps == ASSUME LogsInv, ListPods PROVE LogsInv'
  <1> USE DEF LogsInv, ListPods
  <1>1. << >> \in Text /\ << >> # Reference
    BY EmptySeq, ReferenceIsNoText DEF Text
  <1>2. status # Reference \/ stale
    OBVIOUS
  <1>3. TypeOK'
    BY <1>1 DEF TypeOK
  <1>4. statusLogs' # Reference
    BY <1>1, <1>2
  <1>5. Stored(statusLogs)' /\ Ends(allLogs)' /\ Ends(logs)' /\ Ends(configMap)' /\ Stored(status)'
    BY DEF Stored, Ends
  <1> QED BY <1>3, <1>4, <1>5 DEF ReferenceIsCurrent, Storable

LEMMA ReadPodKeeps == ASSUME LogsInv, NEW p \in Pods, ReadPod(p) PROVE LogsInv'
  <1> USE DEF LogsInv, ReadPod
  <1>1. allLogs' \in Text /\ Ends(allLogs)'
    <2>1. CASE allLogs' = allLogs
      BY <2>1 DEF TypeOK, Ends
    <2>2. CASE size[p] > 0 /\ allLogs' = Combined(PodLog(p))
      <3>1. Combined(PodLog(p)) \in Text /\ Ends(Combined(PodLog(p)))
        BY <2>2, CombinedEnds
      <3> QED BY <2>2, <3>1 DEF Ends
    <2> QED BY <2>1, <2>2
  <1>2. TypeOK'
    BY <1>1 DEF TypeOK
  <1> QED BY <1>1, <1>2 DEF Stored, Ends, ReferenceIsCurrent, Storable

LEMMA CombineKeeps == ASSUME LogsInv, Combine PROVE LogsInv'
  <1> USE DEF LogsInv, Combine
  <1>1. CASE allLogs = << >>
    <2>1. TypeOK'
      BY <1>1 DEF TypeOK
    <2> QED BY <1>1, <2>1 DEF Stored, Ends, ReferenceIsCurrent, Storable
  <1>2. CASE allLogs # << >>
    <2>1. logs' = Truncate(allLogs) /\ pc' = "store"
      BY <1>2
    <2>2. /\ logs' \in Text /\ Ends(Truncate(allLogs))
          /\ Len(logs') <= MaxLogSize + NoticeSize
      BY <1>2, <2>1, TruncateEnds DEF TypeOK
    <2>3. TypeOK'
      BY <2>1, <2>2 DEF TypeOK
    <2>4. Ends(logs)'
      BY <2>1, <2>2 DEF Ends
    <2> QED BY <2>1, <2>3, <2>4 DEF Stored, Ends, ReferenceIsCurrent, Storable
  <1> QED BY <1>1, <1>2

LEMMA StoreKeeps ==
    ASSUME LogsInv,
           StoreInStatus \/ StoreInConfigMap \/ StoreRefused \/ StoreFails
    PROVE  LogsInv'
  <1> USE DEF LogsInv
  <1>1. CASE StoreInStatus
    <2>1. TypeOK'
      BY <1>1 DEF TypeOK, StoreInStatus
    <2>2. statusLogs' # Reference
      BY <1>1, ReferenceIsNoText DEF TypeOK, StoreInStatus
    <2> QED BY <1>1, <2>1, <2>2
               DEF StoreInStatus, Stored, Ends, ReferenceIsCurrent, Storable
  <1>2. CASE StoreInConfigMap
    <2>1. TypeOK'
      BY <1>2 DEF TypeOK, StoreInConfigMap
    <2> QED BY <1>2, <2>1
               DEF StoreInConfigMap, Stored, Ends, ReferenceIsCurrent, Storable
  <1>3. CASE StoreRefused
    <2>1. TypeOK'
      BY <1>3 DEF TypeOK, StoreRefused
    <2>2. ~Storable'
      <3>1. Len(logs) \in Nat /\ Len(logs) > ConfigMapLimit /\ logs' = logs
        BY <1>3, TextLength DEF TypeOK, StoreRefused
      <3> QED BY <3>1 DEF Storable
    <2> QED BY <1>3, <2>1, <2>2
            DEF StoreRefused, Stored, Ends, ReferenceIsCurrent
  <1>4. CASE StoreFails
    <2>1. TypeOK'
      BY <1>4 DEF TypeOK, StoreFails
    <2>2. ~Storable'
      BY <1>4 DEF StoreFails, Storable
    <2> QED BY <1>4, <2>1, <2>2
            DEF StoreFails, Stored, Ends, ReferenceIsCurrent
  <1> QED BY <1>1, <1>2, <1>3, <1>4

LEMMA WriteKeeps ==
    ASSUME LogsInv, WriteStatus \/ WriteFails \/ StaleReconcile
    PROVE  LogsInv'
  <1> USE DEF LogsInv
  <1>1. CASE WriteStatus
    <2>1. TypeOK'
      BY <1>1 DEF TypeOK, WriteStatus
    <2> QED BY <1>1, <2>1
               DEF WriteStatus, Stored, Ends, ReferenceIsCurrent, Storable
  <1>2. CASE WriteFails
    <2>1. TypeOK'
      BY <1>2 DEF TypeOK, WriteFails
    <2> QED BY <1>2, <2>1
               DEF WriteFails, Stored, Ends, ReferenceIsCurrent, Storable
  <1>3. CASE StaleReconcile
    <2>1. TypeOK'
      BY <1>3 DEF TypeOK, StaleReconcile
    <2> QED BY <1>3, <2>1
               DEF StaleReconcile, Stored, Ends, ReferenceIsCurrent, Storable
  <1> QED BY <1>1, <1>2, <1>3

LEMMA LogsStep == LogsInv /\ [Next]_vars => LogsInv'
  <1> SUFFICES ASSUME LogsInv, [Next]_vars
               PROVE  LogsInv'
    OBVIOUS
  <1>1. ASSUME NEW p \in Pods, PodRemoved(p)
        PROVE  LogsInv'
    <2>1. TypeOK'
      BY <1>1 DEF LogsInv, TypeOK, PodRemoved
    <2> QED BY <1>1, <2>1
               DEF LogsInv, PodRemoved, Stored, Ends, ReferenceIsCurrent, Storable
  <1>2. CASE UNCHANGED vars
    <2>1. TypeOK'
      BY <1>2 DEF LogsInv, TypeOK, vars
    <2> QED BY <1>2, <2>1
               DEF LogsInv, vars, Stored, Ends, ReferenceIsCurrent, Storable
  <1> QED BY <1>1, <1>2, ListPodsKeeps, ReadPodKeeps, CombineKeeps, StoreKeeps, WriteKeeps
          DEF Next

LEMMA LogsInvariant == Spec => []LogsInv
  BY LogsInit, LogsStep, PTL DEF Spec

-----------------------------------------------------------------------------
(* The theorems                                                            *)

(***************************************************************************)
(* Captured logs keep to the limit of CaptureJobLogs with its notice, and  *)
(* the ConfigMap to that of the API server.                                *)
(***************************************************************************)
THEOREM LogsTypeCorrect == Spec => []TypeOK
  <1>1. LogsInv => TypeOK
    BY DEF LogsInv
  <1> QED BY <1>1, LogsInvariant, PTL

(***************************************************************************)
(* The end of a log survives joining, cutting, storing and capturing anew, *)
(* and a recorded outcome shows the captured logs whole if they fit into a *)
(* ConfigMap (CaptureJobLogs, storeJobLogs), whatever the limits.          *)
(***************************************************************************)
THEOREM EndsAreKept == Spec => []EndIsKept
  <1>1. LogsInv => EndIsKept
    <2> SUFFICES ASSUME LogsInv PROVE EndIsKept
      OBVIOUS
    <2>1. ASSUME NEW text \in {logs, Shown} \ {<< >>}
          PROVE  \E p \in Pods : size[p] > 0 /\ text[Len(text)] = <<p, size[p]>>
      BY <2>1 DEF LogsInv, Shown, Stored, Ends
    <2>2. ASSUME Recorded, Len(logs) <= ConfigMapLimit
          PROVE  Shown = logs
      <3>1. pc = "done" /\ Storable /\ ~stale
        BY <2>2 DEF Recorded, Storable
      <3>2. CASE status = Reference
        BY <3>1, <3>2 DEF LogsInv, ReferenceIsCurrent, Shown
      <3>3. CASE status # Reference
        BY <3>1, <3>3 DEF LogsInv, Shown
      <3> QED BY <3>2, <3>3
    <2> QED BY <2>1, <2>2 DEF EndIsKept
  <1> QED BY <1>1, LogsInvariant, PTL

(***************************************************************************)
(* "See ConfigMap ... for full logs" refers to what was captured with the  *)
(* status that says it, and never to a ConfigMap without logs              *)
(* (storeJobLogs).                                                         *)
(***************************************************************************)
THEOREM ReferencesAreCurrent == Spec => []ReferenceIsCurrent
  <1>1. LogsInv => ReferenceIsCurrent
    BY DEF LogsInv
  <1> QED BY <1>1, LogsInvariant, PTL
=============================================================================
