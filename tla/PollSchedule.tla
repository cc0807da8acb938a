----------------------------- MODULE PollSchedule -----------------------------
(***************************************************************************)
(* When the registry is polled for a bundle that waits for a new tag:      *)
(* CalculateBackoff and AddJitter (internal/registry/backoff.go) as        *)
(* Reconcile and handleRegistryError use them, with the work queue's timer *)
(* and what queues the bundle ahead of it.  Time is counted in half        *)
(* minutes, the unit of the backoff.  The wait ends when a poll finds a    *)
(* tag or the retries are used up.  Writes of the status succeed here:     *)
(* Reconciler has the ones that fail.                                      *)
(***************************************************************************)
EXTENDS Integers

CONSTANTS
    PollInterval,  \* spec.registry.pollInterval; 0 turns polling off
    MaxLateness,   \* bound: how long a due key waits for a worker
    MaxTime,       \* bound: where the clock stops
    MaxWakes       \* bound: the edits and restarts

ASSUME ScheduleAssumption ==
    /\ PollInterval \in Nat \ {0}
    /\ {MaxLateness, MaxTime, MaxWakes} \subseteq Nat

VARIABLES
    now,                  \* the time
    up,                   \* does the registry answer
    changed,              \* when that last changed
    due,                  \* when the bundle is next handed to a worker
    timer,                \* when the work queue's timer fires, or last fired
    pace,                 \* "hurried" if the timer was, or will be, preceded
                          \* in this run of failures; else "timed"
    wakes,                \* how many edits and restarts there were
    polled,               \* when the last poll was
    consecutiveFailures,  \* status.consecutiveFailures
    firstFailure,         \* when the current run of failures began
    phase                 \* status.phase; "Deploying" once a tag is found

vars == <<now, up, changed, due, timer, pace, wakes, polled,
          consecutiveFailures, firstFailure, phase>>

MaxConsecutiveFailures == 5
BaseDuration == 1
MaxDuration == 16

\* Mutant of CalculateBackoff: no cap.
CalculateBackoffUncapped(failures) ==
    IF failures <= 0 THEN BaseDuration ELSE BaseDuration * 2^failures

CalculateBackoff(failures) ==
    IF failures <= 0 THEN BaseDuration
    ELSE LET duration == BaseDuration * 2^failures
         IN  IF duration > MaxDuration THEN MaxDuration ELSE duration

\* The results of AddJitter, a tenth less to a tenth more, in half minutes:
\* the code's nanoseconds are rounded to either side.
AddJitter(interval) ==
    IF interval <= 0 THEN {interval}
    ELSE ((9 * interval) \div 10)..((11 * interval + 9) \div 10)

TypeOK ==
    /\ now \in 0..MaxTime /\ changed \in 0..now
    /\ polled \in 0..now /\ firstFailure \in 0..now
    /\ up \in BOOLEAN /\ pace \in {"timed", "hurried"}
    /\ wakes \in 0..MaxWakes
    /\ timer \in Nat /\ due \in 0..timer
    /\ consecutiveFailures \in 0..(MaxConsecutiveFailures + 1)
    /\ phase \in {"Syncing", "Failed", "Deploying"}

Init ==
    /\ now = 0 /\ changed = 0 /\ due = 0 /\ timer = 0
    /\ polled = 0 /\ firstFailure = 0
    /\ up \in BOOLEAN
    /\ pace = "timed" /\ wakes = 0
    /\ consecutiveFailures = 0
    /\ phase = "Syncing"

\* Time passes; a due poll is at most MaxLateness late.
Tick ==
    /\ phase = "Syncing"
    /\ now < MaxTime /\ now < due + MaxLateness
    /\ now' = now + 1
    /\ UNCHANGED <<up, changed, due, timer, pace, wakes, polled,
                   consecutiveFailures, firstFailure, phase>>

RegistryFlips ==
    /\ phase = "Syncing"
    /\ changed < now
    /\ up' = ~up
    /\ changed' = now
    /\ UNCHANGED <<now, due, timer, pace, wakes, polled,
                   consecutiveFailures, firstFailure, phase>>

\* Something queues the bundle while it waits for its timer.
Wake ==
    /\ phase = "Syncing" /\ now < timer
    /\ wakes < MaxWakes /\ wakes' = wakes + 1
    /\ pace' = "hurried"
    /\ due' = IF due < now THEN due ELSE now

\* The bundle is edited: it is queued at once, and the timer runs on.
Edit ==
    /\ Wake
    /\ UNCHANGED <<now, up, changed, timer, polled, consecutiveFailures,
                   firstFailure, phase>>

\* The operator restarts: every bundle is queued, and the timer is lost.
Restart ==
    /\ Wake
    /\ timer' = now
    /\ UNCHANGED <<now, up, changed, polled, consecutiveFailures, firstFailure,
                   phase>>

\* RequeueAfter; the queue keeps the earlier of the timer that still runs and
\* the new one.
AddAfter(delay) ==
    /\ timer' = IF now < timer /\ timer < now + delay THEN timer ELSE now + delay
    /\ due' = timer'

\* 304 Not Modified, or no tags while Syncing: nothing is written, not even
\* the failure counter.
PollUnchanged ==
    /\ phase = "Syncing" /\ now >= due /\ up
    /\ polled' = now
    /\ \E delay \in AddJitter(PollInterval) : AddAfter(delay)
    /\ UNCHANGED <<now, up, changed, pace, wakes, consecutiveFailures,
                   firstFailure, phase>>

\* A tag is found; ensureJobExists writes the counter back as 0.
PollFindsTag ==
    /\ phase = "Syncing" /\ now >= due /\ up
    /\ polled' = now
    /\ consecutiveFailures' = 0
    /\ phase' = "Deploying"
    /\ UNCHANGED <<now, up, changed, due, timer, pace, wakes, firstFailure>>

\* Mutant of GivesUp: the last retry is not made.
GivesUpEarly(failures) == failures >= MaxConsecutiveFailures

\* Mutant of GivesUp: one retry too many, whose count the CRD refuses.
GivesUpLate(failures) == failures > MaxConsecutiveFailures + 1

GivesUp(failures) == failures > MaxConsecutiveFailures

\* A run of failures begins; a timer that still runs will cut its first wait
\* short.
FirstFailure(failures) ==
    /\ firstFailure' = IF failures = 1 THEN now ELSE firstFailure
    /\ pace' = IF failures # 1 THEN pace
               ELSE IF now < timer THEN "hurried" ELSE "timed"

\* handleRegistryError; what becomes of a Failed bundle is Reconciler's.
PollFails ==
    LET failures == consecutiveFailures + 1 IN
    /\ phase = "Syncing" /\ now >= due /\ ~up
    /\ consecutiveFailures' = failures
    /\ polled' = now
    /\ FirstFailure(failures)
    /\ IF GivesUp(failures)
       THEN phase' = "Failed" /\ UNCHANGED <<due, timer>>
       ELSE AddAfter(CalculateBackoff(failures)) /\ UNCHANGED phase
    /\ UNCHANGED <<now, up, changed, wakes>>

Next ==
    \/ Tick \/ RegistryFlips
    \/ Edit \/ Restart
    \/ PollUnchanged \/ PollFindsTag \/ PollFails

Spec == Init /\ [][Next]_vars

-----------------------------------------------------------------------------
(***************************************************************************)
(* The retries bridge 1 + 2 + 4 + 8 + 8 minutes: however the registry      *)
(* comes and goes, a bundle that nobody edits and whose operator does not  *)
(* restart meanwhile is marked Failed no sooner than 23 minutes after the  *)
(* first failure (handleRegistryError with CalculateBackoff).  An edit or  *)
(* a restart polls at once and uses up a retry early: with five of them a  *)
(* bundle can be given up at once, so nothing is said of that case.  The   *)
(* timeline of docs/configuration.md, 30 seconds, 1, 2, 4 and 8 minutes,   *)
(* is not the code's: the counter is incremented before the first wait.    *)
(***************************************************************************)
OutageTolerated ==
    phase = "Failed" /\ pace = "timed" => polled - firstFailure >= 46

(***************************************************************************)
(* The cap of 8 minutes bounds how long a recovery goes unnoticed: a       *)
(* registry that has been back for longer, and longer than the jittered    *)
(* poll interval, has been polled, unless the bundle was given up before   *)
(* (CalculateBackoff, AddJitter).  An edit or a restart never postpones    *)
(* the next poll.                                                          *)
(***************************************************************************)
LongestDelay ==
    LET jittered == (11 * PollInterval + 9) \div 10
    IN  IF jittered > MaxDuration THEN jittered ELSE MaxDuration

RecoveryNoticed ==
    phase = "Syncing" /\ up /\ polled <= changed =>
        now - changed <= LongestDelay + MaxLateness
=============================================================================
