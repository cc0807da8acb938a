-------------------------- MODULE PollScheduleProofs --------------------------
(***************************************************************************)
(* Proofs about the schedule of the polls, for any poll interval, any      *)
(* lateness of the worker, any length of time, any pattern of outages and  *)
(* any number of edits and restarts.                                       *)
(***************************************************************************)
EXTENDS PollSchedule, TLAPS

\* The waiting times of CalculateBackoff, one by one.
LEMMA Backoffs ==
    /\ CalculateBackoff(1) = 2 /\ CalculateBackoff(2) = 4
    /\ CalculateBackoff(3) = 8 /\ CalculateBackoff(4) = 16
    /\ CalculateBackoff(5) = 16
  <1>1. 2^1 = 2 /\ 2^2 = 4 /\ 2^3 = 8 /\ 2^4 = 16 /\ 2^5 = 32
    BY SMT
  <1> QED BY <1>1 DEF CalculateBackoff, BaseDuration, MaxDuration

\* Jitter makes an interval at most a tenth longer.
LEMMA JitterBounds ==
    ASSUME NEW interval \in Nat \ {0}, NEW delay \in AddJitter(interval)
    PROVE  /\ delay \in Nat
           /\ delay <= (11 * interval + 9) \div 10
  <1>1. /\ (9 * interval) \div 10 \in Nat
        /\ (11 * interval + 9) \div 10 \in Nat
    OBVIOUS
  <1>2. delay \in ((9 * interval) \div 10)..((11 * interval + 9) \div 10)
    BY DEF AddJitter
  <1> QED BY <1>1, <1>2

LEMMA Later ==
    ASSUME NEW a \in Nat, NEW b \in Nat, NEW c \in Nat, a <= b
    PROVE  a <= b + c
  OBVIOUS

\* How long the retries have bridged, at least, after so many failures.
Bridged(failures) ==
    CASE failures = 1 -> 2
      [] failures = 2 -> 6
      [] failures = 3 -> 14
      [] failures = 4 -> 30
      [] failures = 5 -> 46

LEMMA BridgedNat == \A failures \in 1..5 : Bridged(failures) \in Nat
  <1> TAKE failures \in 1..5
  <1>1. failures \in {1, 2, 3, 4, 5}
    OBVIOUS
  <1> QED BY <1>1 DEF Bridged

(***************************************************************************)
(* While retries are left, the bundle is handed to a worker at most        *)
(* LongestDelay after the last poll and is not overdue by more than        *)
(* MaxLateness; and if nothing queued it ahead of the timer, it is handed  *)
(* over by the timer, after the waiting times of all failures so far.      *)
(***************************************************************************)
Waiting ==
    /\ consecutiveFailures <= MaxConsecutiveFailures
    /\ pace = "timed" => due = timer
    /\ consecutiveFailures >= 1 /\ pace = "timed" =>
          due >= firstFailure + Bridged(consecutiveFailures)
    /\ timer <= polled + LongestDelay
    /\ now <= due + MaxLateness

ScheduleInv ==
    /\ TypeOK
    /\ phase = "Syncing" => Waiting
    /\ OutageTolerated

LEMMA LongestDelayBounds ==
    /\ LongestDelay \in Nat /\ 16 <= LongestDelay
    /\ MaxConsecutiveFailures = 5
    /\ MaxLateness \in Nat /\ MaxTime \in Nat /\ MaxWakes \in Nat
  <1>1. /\ PollInterval \in Nat \ {0}
        /\ MaxLateness \in Nat /\ MaxTime \in Nat /\ MaxWakes \in Nat
    BY ScheduleAssumption
  <1>2. (11 * PollInterval + 9) \div 10 \in Nat
    BY <1>1
  <1> QED BY <1>1, <1>2 DEF LongestDelay, MaxDuration, MaxConsecutiveFailures

\* No jittered interval exceeds LongestDelay.
LEMMA JitterFits ==
    ASSUME NEW delay \in AddJitter(PollInterval)
    PROVE  delay \in Nat /\ delay <= LongestDelay
  <1>1. PollInterval \in Nat \ {0}
    BY ScheduleAssumption
  <1>2. delay \in Nat /\ delay <= (11 * PollInterval + 9) \div 10
    BY <1>1, JitterBounds
  <1>3. /\ (11 * PollInterval + 9) \div 10 \in Nat
        /\ (11 * PollInterval + 9) \div 10 <= LongestDelay
    BY <1>1 DEF LongestDelay, MaxDuration
  <1> QED BY <1>2, <1>3, LongestDelayBounds

LEMMA InitSchedule == Init => ScheduleInv
  BY LongestDelayBounds
     DEF Init, ScheduleInv, TypeOK, Waiting, OutageTolerated

\* What the work queue makes of a delay.
LEMMA TimerIsSet ==
    ASSUME TypeOK, NEW delay \in Nat, AddAfter(delay)
    PROVE  /\ timer' \in Nat /\ due' = timer'
           /\ timer' >= now /\ timer' <= now + delay
           /\ timer <= now => timer' = now + delay
  BY LongestDelayBounds DEF TypeOK, AddAfter

\* An edit or a restart only brings the next poll forward.
LEMMA WakeSchedule ==
    ASSUME ScheduleInv, Wake, timer' \in {timer, now},
           UNCHANGED <<now, up, changed, polled, consecutiveFailures,
                       firstFailure, phase>>
    PROVE  ScheduleInv'
  <1>1. /\ now \in Nat /\ timer \in Nat /\ due \in Nat /\ due <= timer
        /\ now < timer /\ phase = "Syncing" /\ pace' = "hurried"
        /\ wakes \in Nat /\ wakes' \in 0..MaxWakes
    BY LongestDelayBounds DEF ScheduleInv, TypeOK, Wake
  <1>2. /\ due' \in Nat /\ due' <= now /\ due' <= timer' /\ timer' \in Nat
        /\ timer' <= timer /\ (due' = now \/ due' = due)
    BY <1>1 DEF Wake
  <1>3. TypeOK'
    BY <1>1, <1>2 DEF ScheduleInv, TypeOK
  <1>4. Waiting'
    <2>1. /\ consecutiveFailures <= MaxConsecutiveFailures
          /\ timer <= polled + LongestDelay /\ polled \in Nat
          /\ now <= due + MaxLateness
      BY <1>1 DEF ScheduleInv, TypeOK, Waiting
    <2>2. timer' <= polled' + LongestDelay
      BY <1>1, <1>2, <2>1, LongestDelayBounds
    <2>3. now' <= due' + MaxLateness
      <3>1. CASE due' = now
        BY <1>1, <3>1, LongestDelayBounds
      <3>2. CASE due' = due
        BY <2>1, <3>2
      <3> QED BY <1>2, <3>1, <3>2
    <2> QED BY <1>1, <2>1, <2>2, <2>3 DEF Waiting
  <1> QED BY <1>1, <1>3, <1>4 DEF ScheduleInv, OutageTolerated

LEMMA NextSchedule == ScheduleInv /\ [Next]_vars => ScheduleInv'
  <1> SUFFICES ASSUME ScheduleInv, [Next]_vars PROVE ScheduleInv'
    OBVIOUS
  <1>0. /\ now \in Nat /\ now <= MaxTime /\ changed \in Nat /\ changed <= now
        /\ polled \in Nat /\ polled <= now
        /\ firstFailure \in Nat /\ firstFailure <= now
        /\ timer \in Nat /\ due \in Nat /\ due <= timer
        /\ up \in BOOLEAN /\ pace \in {"timed", "hurried"} /\ wakes \in 0..MaxWakes
        /\ consecutiveFailures \in Nat
        /\ consecutiveFailures <= MaxConsecutiveFailures + 1
        /\ phase \in {"Syncing", "Failed", "Deploying"}
    BY LongestDelayBounds DEF ScheduleInv, TypeOK
  <1>1. CASE Tick
    BY <1>0, <1>1, LongestDelayBounds
       DEF Tick, ScheduleInv, TypeOK, Waiting, OutageTolerated, Bridged
  <1>2. CASE RegistryFlips
    BY <1>0, <1>2, LongestDelayBounds
       DEF RegistryFlips, ScheduleInv, TypeOK, Waiting, OutageTolerated, Bridged
  <1>3. CASE Edit
    BY <1>3, WakeSchedule DEF Edit
  <1>4. CASE Restart
    BY <1>4, WakeSchedule DEF Restart
  <1>5. CASE PollUnchanged
    <2>0. /\ phase = "Syncing" /\ Waiting /\ now >= due /\ polled' = now
          /\ UNCHANGED <<now, up, changed, pace, wakes, consecutiveFailures,
                         firstFailure, phase>>
      BY <1>5 DEF PollUnchanged, ScheduleInv
    <2>1. PICK delay \in AddJitter(PollInterval) : AddAfter(delay)
      BY <1>5 DEF PollUnchanged
    <2>2. delay \in Nat /\ delay <= LongestDelay
      BY JitterFits
    <2>3. /\ timer' \in Nat /\ due' = timer'
          /\ timer' >= now /\ timer' <= now + LongestDelay
      BY <1>0, <2>1, <2>2, TimerIsSet, LongestDelayBounds DEF ScheduleInv
    <2>4. TypeOK' /\ OutageTolerated'
      BY <1>0, <2>0, <2>3, LongestDelayBounds DEF TypeOK, OutageTolerated
    <2>5. Waiting'
      <3>1. consecutiveFailures >= 1 => consecutiveFailures \in 1..5
        BY <1>0, <2>0, LongestDelayBounds DEF Waiting
      <3>2. consecutiveFailures >= 1 => Bridged(consecutiveFailures) \in Nat
        BY <3>1, BridgedNat
      <3>3. due' >= due
        BY <1>0, <2>0, <2>3
      <3>4. /\ consecutiveFailures' <= MaxConsecutiveFailures
            /\ timer' <= polled' + LongestDelay
        BY <2>0, <2>3 DEF Waiting
      <3>5. now' <= due' + MaxLateness
        <4>1. now' = now /\ now \in Nat /\ due' \in Nat /\ now <= due'
          BY <1>0, <2>0, <2>3
        <4>2. MaxLateness \in Nat
          BY LongestDelayBounds
        <4> QED BY <4>1, <4>2, Later
      <3>6. consecutiveFailures >= 1 /\ pace = "timed" =>
               due' >= firstFailure + Bridged(consecutiveFailures)
        BY <1>0, <2>0, <2>3, <3>2, <3>3 DEF Waiting
      <3> QED BY <2>0, <2>3, <3>4, <3>5, <3>6 DEF Waiting
    <2> QED BY <2>4, <2>5 DEF ScheduleInv
  <1>6. CASE PollFindsTag
    BY <1>0, <1>6, LongestDelayBounds
       DEF PollFindsTag, ScheduleInv, TypeOK, OutageTolerated
  <1>7. CASE PollFails
    <2> DEFINE failures == consecutiveFailures + 1
    <2>1. /\ phase = "Syncing" /\ now >= due /\ polled' = now
          /\ consecutiveFailures' = failures
          /\ firstFailure' = IF failures = 1 THEN now ELSE firstFailure
          /\ pace' = IF failures # 1 THEN pace
                     ELSE IF now < timer THEN "hurried" ELSE "timed"
          /\ UNCHANGED <<now, up, changed, wakes>> /\ Waiting
      BY <1>7 DEF PollFails, FirstFailure, ScheduleInv
    <2>2. pace' \in {"timed", "hurried"}
      BY <1>0, <2>1
    <2>3. pace' = "timed" => timer <= now
      BY <1>0, <2>1 DEF Waiting
    <2>4. CASE failures > 5
      <3>1. phase' = "Failed" /\ UNCHANGED <<due, timer>>
        BY <1>7, <2>4 DEF PollFails, GivesUp, MaxConsecutiveFailures
      <3>2. consecutiveFailures = 5
        BY <1>0, <2>1, <2>4, LongestDelayBounds DEF Waiting
      <3>3. pace = "timed" => due >= firstFailure + 46
        BY <2>1, <3>2 DEF Waiting, Bridged
      <3> QED BY <1>0, <2>1, <2>2, <3>1, <3>2, <3>3, LongestDelayBounds
              DEF ScheduleInv, TypeOK, OutageTolerated
    <2>5. CASE failures <= 5
      <3>1. phase' = phase /\ AddAfter(CalculateBackoff(failures))
        BY <1>0, <1>7, <2>5 DEF PollFails, GivesUp, MaxConsecutiveFailures
      <3>2. failures \in 1..5
        BY <1>0, <2>5
      <3>3. /\ CalculateBackoff(failures) \in Nat
            /\ CalculateBackoff(failures) <= 16
        <4> HIDE DEF failures
        <4>1. failures \in {1, 2, 3, 4, 5}
          BY <3>2
        <4> QED BY <4>1, Backoffs
      <3>4. /\ timer' \in Nat /\ due' = timer'
            /\ timer' >= now /\ timer' <= now + 16
            /\ pace' = "timed" => due' = now + CalculateBackoff(failures)
        BY <1>0, <2>3, <3>1, <3>3, TimerIsSet DEF ScheduleInv
      <3>5. pace' = "timed" => due' >= firstFailure' + Bridged(failures)
        <4> SUFFICES ASSUME pace' = "timed"
                     PROVE  due' >= firstFailure' + Bridged(failures)
          OBVIOUS
        <4>0. due' = now + CalculateBackoff(failures)
          BY <3>4
        <4> HIDE DEF failures
        <4>1. CASE failures = 1
          BY <1>0, <2>1, <4>0, <4>1, Backoffs DEF Bridged
        <4>2. CASE failures = 2
          BY <1>0, <2>1, <4>0, <4>2, Backoffs DEF Bridged, Waiting, failures
        <4>3. CASE failures = 3
          BY <1>0, <2>1, <4>0, <4>3, Backoffs DEF Bridged, Waiting, failures
        <4>4. CASE failures = 4
          BY <1>0, <2>1, <4>0, <4>4, Backoffs DEF Bridged, Waiting, failures
        <4>5. CASE failures = 5
          BY <1>0, <2>1, <4>0, <4>5, Backoffs DEF Bridged, Waiting, failures
        <4> QED BY <3>2, <4>1, <4>2, <4>3, <4>4, <4>5
      <3>6. Waiting'
        <4>1. timer' <= polled' + LongestDelay
          BY <1>0, <2>1, <3>4, LongestDelayBounds
        <4>2. now' <= due' + MaxLateness
          <5>1. now' = now /\ now \in Nat /\ due' \in Nat /\ now <= due'
            BY <1>0, <2>1, <3>4
          <5>2. MaxLateness \in Nat
            BY LongestDelayBounds
          <5> QED BY <5>1, <5>2, Later
        <4>3. consecutiveFailures' <= MaxConsecutiveFailures
          BY <2>1, <2>5, LongestDelayBounds
        <4> QED BY <2>1, <3>4, <3>5, <4>1, <4>2, <4>3 DEF Waiting
      <3>7. TypeOK'
        BY <1>0, <2>1, <2>2, <2>5, <3>1, <3>4, LongestDelayBounds DEF TypeOK
      <3> QED BY <2>1, <3>1, <3>6, <3>7 DEF ScheduleInv, OutageTolerated
    <2> QED BY <1>0, <2>4, <2>5
  <1>8. CASE UNCHANGED vars
    BY <1>8 DEF vars, ScheduleInv, TypeOK, Waiting, OutageTolerated, Bridged
  <1> QED BY <1>1, <1>2, <1>3, <1>4, <1>5, <1>6, <1>7, <1>8 DEF Next

\* The counter stays within what the CRD accepts, however often edits and
\* restarts poll early while the bundle waits (handleRegistryError).
THEOREM ScheduleTypeCorrect == Spec => []TypeOK
  <1>1. ScheduleInv => TypeOK
    BY DEF ScheduleInv
  <1> QED BY InitSchedule, NextSchedule, <1>1, PTL DEF Spec

(***************************************************************************)
(* A bundle that was not queued ahead of its timer since its first failure *)
(* is given up no sooner than 23 minutes after it, for every poll interval *)
(* and pattern of outages, 304 answers in between included, which leave    *)
(* the counter and postpone the next retry (handleRegistryError with       *)
(* CalculateBackoff).  An edit before the first failure may leave a timer  *)
(* running that shortens the first wait: that too counts as queued early.  *)
(***************************************************************************)
THEOREM OutagesAreTolerated == Spec => []OutageTolerated
  <1>1. ScheduleInv => OutageTolerated
    BY DEF ScheduleInv
  <1> QED BY InitSchedule, NextSchedule, <1>1, PTL DEF Spec

(***************************************************************************)
(* A recovery is noticed within the longest delay there is, the capped     *)
(* backoff or the jittered poll interval, unless the bundle was given up   *)
(* before, whatever edits and restarts do meanwhile (CalculateBackoff,     *)
(* AddJitter, the work queue's AddAfter).                                  *)
(***************************************************************************)
THEOREM RecoveriesAreNoticed == Spec => []RecoveryNoticed
  <1>1. ScheduleInv => RecoveryNoticed
    BY LongestDelayBounds DEF ScheduleInv, TypeOK, Waiting, RecoveryNoticed
  <1> QED BY InitSchedule, NextSchedule, <1>1, PTL DEF Spec
=============================================================================
