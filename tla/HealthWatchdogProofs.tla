------------------------ MODULE HealthWatchdogProofs ------------------------
(***************************************************************************)
(* The health supervision accuses no task that keeps its period, and the   *)
(* watchdog expires for a cause it has on record, for any number of tasks  *)
(* and any periods that satisfy Timely.                                    *)
(***************************************************************************)
EXTENDS HealthWatchdog, WellFoundedInduction, TLAPS

(***************************************************************************)
(* What the periods of main.c have to satisfy.  A task that keeps its      *)
(* period and is late by at most Late moves its epoch within MissLimit     *)
(* samples; the boot, the monitor's sleep and its lateness fit in the      *)
(* timeout of the watchdog.                                                *)
(***************************************************************************)
Timely ==
    /\ \A t \in Tasks : Period[t] + Late < MissLimit * Sample
    /\ BootTime + Sample + Late < Timeout

(* No thread that did not freeze is overdue, a boot begins with none       *)
(* frozen, and no sample counts as missed in the startup grace.            *)
OnTime ==
    /\ cpu = "boot" =>
         /\ \A t \in Threads : left[t] \in 0 .. BootTime
         /\ froze = {} /\ moved = {} /\ tracker = NewTracker
    /\ cpu = "run" =>
         /\ \A t \in Threads \ froze : left[t] >= -Late
         /\ \A t \in Tasks : left[t] <= Period[t]
    /\ tracker.grace > 0 => \A t \in Tasks : tracker.missed[t] = 0

(* A task whose epoch has not moved ran its loop at least as long ago as   *)
(* the samples it has missed took.                                         *)
Overlooked ==
    cpu = "run" =>
      \A t \in Tasks \ (moved \cup froze) :
        Period[t] - left[t] >= tracker.missed[t] * Sample + (Sample - left[Health])

(* While the monitor finds nothing wrong, the watchdog outlasts its sleep. *)
Petted ==
    Health \notin froze /\ overload = {} /\ tracker.stuck = NoTask /\ wdt # Off =>
      wdt > left[Health] + Late + (IF cpu = "boot" THEN Sample ELSE 0)

(* A failure that was counted is on record, and the record names a task    *)
(* that froze.                                                             *)
Evident ==
    /\ reported = tracker.failures
    /\ tracker.failures > 0 => noted
    /\ tracker.latched => tracker.failures > 0
    /\ noted => retained.stuck \in froze

(* The inductive invariant. *)
HealthInv ==
    /\ TypeOK
    /\ OnTime
    /\ Overlooked
    /\ NoFalseAlarm
    /\ Petted
    /\ Evident

-----------------------------------------------------------------------------
(* A non-empty set of tasks has a lowest one, so the loop over the tasks   *)
(* in vams_health_tracker_update finds it.                                 *)
LEMMA LowestIsMember ==
    ASSUME NEW S \in SUBSET Tasks
    PROVE  /\ S = {} => LowestOf(S) = NoTask
           /\ S # {} => LowestOf(S) \in S
<1> DEFINE less == OpToRel(<, Nat)
<1>1. ASSUME S # {} PROVE \E t \in S : \A u \in S : t <= u
  <2>1. S \subseteq Nat
    BY HealthAssumption DEF Tasks
  <2>2. IsWellFoundedOn(less, Nat)
    BY NatLessThanWellFounded, Zenon
  <2> HIDE DEF less
  <2>3. PICK t \in S : \A u \in S : ~ (<<u, t>> \in less)
    BY <1>1, <2>1, <2>2, WFMin, Zenon
  <2>4. \A u \in S : ~ (u < t)
    BY <2>1, <2>3, Zenon DEF less, OpToRel
  <2> QED BY <2>1, <2>4
<1> QED BY <1>1 DEF LowestOf

(* Missing more samples takes no less time. *)
LEMMA MoreSamples ==
    ASSUME NEW m \in Nat, NEW n \in Nat, NEW s \in Nat, m >= n
    PROVE  m * s >= n * s /\ (n + 1) * s = n * s + s
OBVIOUS
-----------------------------------------------------------------------------
(* A saturating counter stays in its range and does not go down. *)
LEMMA Increment ==
    ASSUME NEW n \in 0 .. MaxCount
    PROVE  /\ CounterIncrement(n) \in 0 .. MaxCount
           /\ CounterIncrement(n) > 0
           /\ CounterIncrement(n) >= n /\ n + 1 >= CounterIncrement(n)
BY HealthAssumption DEF CounterIncrement

(* What vams_health_tracker_init sets up. *)
LEMMA NewTrackerType ==
    /\ NewTracker \in [grace : 0 .. Grace, missed : [Tasks -> 0 .. MaxCount],
                       stuck : Tasks \cup {NoTask}, latched : BOOLEAN,
                       failures : 0 .. MaxCount]
    /\ NewTracker.latched = FALSE /\ NewTracker.stuck = NoTask
    /\ NewTracker.failures = 0
    /\ \A t \in Tasks : NewTracker.missed[t] = 0
<1>1. Grace \in 0 .. Grace /\ 0 \in 0 .. MaxCount
  BY HealthAssumption
<1> QED BY <1>1 DEF NewTracker

(* It holds after a cold start. *)
LEMMA InitInv == Init => HealthInv
<1> SUFFICES ASSUME Init PROVE HealthInv
  OBVIOUS
<1> USE HealthAssumption
<1>1. TypeOK
  <2>1. retained \in [stuck : Tasks \cup {NoTask}, failures : 0 .. MaxCount]
    BY DEF Init
  <2>2. wdt \in Off .. Timeout /\ reset \in Off .. AckTime /\ reported \in 0 .. MaxCount
    BY DEF Init, Off
  <2>3. left \in [Threads -> Int]
    BY DEF Init
  <2> QED BY <2>1, <2>2, <2>3, NewTrackerType, Zenon DEF Init, TypeOK
<1>2. OnTime
  BY NewTrackerType DEF Init, OnTime
<1>3. Overlooked /\ NoFalseAlarm /\ Petted /\ Evident
  BY NewTrackerType DEF Init, Overlooked, NoFalseAlarm, Petted, Evident
<1> QED BY <1>1, <1>2, <1>3 DEF HealthInv

(* What vams_health_tracker_update returns for a monitor that wakes up:    *)
(* every task it finds to have missed too many samples did freeze, since a *)
(* task that did not has run its loop less than a period and the lateness  *)
(* ago.                                                                    *)
LEMMA TrackedSound ==
    ASSUME Timely, HealthInv, cpu = "run", left[Health] <= 0,
           NEW d, d = Tracked(tracker)
    PROVE  /\ d \in [grace : 0 .. Grace, missed : [Tasks -> 0 .. MaxCount],
                     stuck : Tasks \cup {NoTask}, latched : BOOLEAN,
                     failures : 0 .. MaxCount]
           /\ d.latched <=> d.stuck # NoTask
           /\ d.stuck # NoTask => d.stuck \in froze
           /\ d.grace > 0 => \A t \in Tasks : d.missed[t] = 0
           /\ \A t \in Tasks \ froze :
                Period[t] - left[t] >= d.missed[t] * Sample
           /\ d.failures # tracker.failures => d.stuck # NoTask
           /\ d.failures >= tracker.failures
           /\ d.latched => d.failures > 0
<1> USE HealthAssumption
<1>t. TypeOK /\ OnTime /\ Overlooked /\ NoFalseAlarm /\ Evident
  BY DEF HealthInv
<1>n. /\ Sample \in Nat /\ Late \in Nat /\ MissLimit \in Nat \ {0}
      /\ MaxCount \in Nat /\ MissLimit <= MaxCount
      /\ left[Health] \in Int /\ NoTask \notin Tasks
      /\ \A t \in Tasks :
           /\ left[t] \in Int /\ Period[t] \in Nat /\ tracker.missed[t] \in 0 .. MaxCount
           /\ left[t] <= Period[t]
           /\ t \notin froze => left[t] >= -Late
           /\ t \notin moved \cup froze =>
                Period[t] - left[t] >= tracker.missed[t] * Sample + (Sample - left[Health])
  <2>1. /\ Sample \in Nat /\ Late \in Nat /\ MissLimit \in Nat \ {0}
        /\ MaxCount \in Nat /\ MissLimit <= MaxCount /\ NoTask \notin Tasks
    BY DEF NoTask, Tasks
  <2>2. /\ left[Health] \in Int
        /\ \A t \in Tasks : left[t] \in Int /\ Period[t] \in Nat
    BY <1>t DEF TypeOK, Threads, Tasks, Health
  <2>3. \A t \in Tasks : tracker.missed[t] \in 0 .. MaxCount
    BY <1>t DEF TypeOK
  <2>4. \A t \in Tasks :
          /\ left[t] <= Period[t]
          /\ t \notin froze => left[t] >= -Late
    BY <1>t DEF OnTime, Threads, Tasks, Health
  <2>5. \A t \in Tasks \ (moved \cup froze) :
           Period[t] - left[t] >= tracker.missed[t] * Sample + (Sample - left[Health])
    BY <1>t DEF Overlooked
  <2> QED BY <2>1, <2>2, <2>3, <2>4, <2>5, Zenon
<1>1. CASE tracker.grace > 0
  <2>1. d = [tracker EXCEPT !.grace = @ - 1]
    BY <1>1 DEF Tracked
  <2>2. /\ d.missed = tracker.missed /\ d.stuck = tracker.stuck
        /\ d.latched = tracker.latched /\ d.failures = tracker.failures
        /\ d.grace = tracker.grace - 1
        /\ d \in [grace : 0 .. Grace, missed : [Tasks -> 0 .. MaxCount],
                  stuck : Tasks \cup {NoTask}, latched : BOOLEAN,
                  failures : 0 .. MaxCount]
    BY <2>1, <1>1, <1>t DEF TypeOK
  <2>3. \A t \in Tasks : tracker.missed[t] = 0
    BY <1>1, <1>t DEF OnTime
  <2> QED BY <2>2, <2>3, <1>n, <1>t DEF TypeOK, NoFalseAlarm, Evident
<1>2. CASE ~(tracker.grace > 0)
  <2> DEFINE missed == [t \in Tasks |-> IF t \in moved THEN 0
                                      ELSE CounterIncrement(tracker.missed[t])]
             late == {t \in Tasks : missed[t] >= MissLimit}
             stuck == LowestOf(late)
  <2>1. /\ d.missed = missed /\ d.stuck = stuck /\ d.latched = (stuck # NoTask)
        /\ d.failures = IF stuck # NoTask /\ ~tracker.latched
                        THEN CounterIncrement(tracker.failures) ELSE tracker.failures
        /\ d.grace = tracker.grace
        /\ d = [tracker EXCEPT !.missed = missed, !.stuck = stuck,
                               !.latched = stuck # NoTask, !.failures = d.failures]
    BY <1>2, <1>t DEF Tracked, TypeOK
  <2>2. missed \in [Tasks -> 0 .. MaxCount]
    <3>1. \A t \in Tasks : CounterIncrement(tracker.missed[t]) \in 0 .. MaxCount
      BY <1>n, Increment
    <3> QED BY <3>1, <1>n
  <2>3. ASSUME NEW t \in Tasks \ froze
        PROVE  Period[t] - left[t] >= missed[t] * Sample
    <3>1. CASE t \in moved
      BY <3>1, <1>n
    <3>2. CASE t \notin moved
      <4>1. missed[t] \in Nat /\ tracker.missed[t] + 1 >= missed[t] /\ tracker.missed[t] \in Nat
        BY <3>2, <1>n, Increment
      <4>2. (tracker.missed[t] + 1) * Sample >= missed[t] * Sample
        BY <4>1, <1>n, MoreSamples
      <4>3. (tracker.missed[t] + 1) * Sample = tracker.missed[t] * Sample + Sample
        BY <4>1, <1>n
      <4> DEFINE a == (tracker.missed[t] + 1) * Sample
                 b == missed[t] * Sample
                 c == tracker.missed[t] * Sample
      <4>4. a \in Nat /\ b \in Nat /\ c \in Nat
        BY <4>1, <1>n
      <4>5. Period[t] - left[t] >= c + (Sample - left[Health])
        BY <3>2, <1>n
      <4>6. a >= b /\ a = c + Sample
        BY <4>2, <4>3
      <4>7. Period[t] \in Nat /\ left[t] \in Int
        BY <1>n
      <4> HIDE DEF a, b, c
      <4>8. Period[t] - left[t] >= b
        BY <4>4, <4>5, <4>6, <4>7, <1>n
      <4> QED BY <4>8 DEF b
    <3> QED BY <3>1, <3>2
  <2>4. late \subseteq froze
    <3> SUFFICES ASSUME NEW t \in late, t \notin froze PROVE FALSE
      OBVIOUS
    <3>1. /\ Period[t] - left[t] >= missed[t] * Sample /\ left[t] >= -Late
          /\ Period[t] \in Nat /\ left[t] \in Int /\ missed[t] \in Nat
      BY <2>2, <2>3, <1>n
    <3>2. missed[t] * Sample >= MissLimit * Sample
      BY <3>1, <1>n, MoreSamples
    <3>3. Period[t] + Late < MissLimit * Sample
      BY DEF Timely
    <3> DEFINE a == missed[t] * Sample
               b == MissLimit * Sample
    <3>4. a \in Nat /\ b \in Nat
      BY <3>1, <1>n
    <3>5. /\ Period[t] - left[t] >= a /\ left[t] >= -Late /\ a >= b
          /\ Period[t] + Late < b
      BY <3>1, <3>2, <3>3
    <3> HIDE DEF a, b
    <3> QED BY <3>1, <3>4, <3>5, <1>n
  <2>5. stuck \in late \cup {NoTask} /\ late \subseteq Tasks
    BY LowestIsMember
  <2>6. d.failures \in 0 .. MaxCount /\ d.failures >= tracker.failures
        /\ (d.failures # tracker.failures => stuck # NoTask)
        /\ (stuck # NoTask => d.failures > 0)
    <3> HIDE DEF stuck
    <3>1. tracker.failures \in 0 .. MaxCount
      BY <1>t DEF TypeOK
    <3>2. tracker.latched => tracker.failures > 0
      BY <1>t DEF Evident
    <3> QED BY <2>1, <3>1, <3>2, Increment
  <2> HIDE DEF missed, stuck, late
  <2>7. d \in [grace : 0 .. Grace, missed : [Tasks -> 0 .. MaxCount],
               stuck : Tasks \cup {NoTask}, latched : BOOLEAN,
               failures : 0 .. MaxCount]
    BY <2>1, <2>2, <2>5, <2>6, <1>t, Zenon DEF TypeOK
  <2> QED BY <1>2, <2>1, <2>3, <2>4, <2>5, <2>6, <2>7, <1>t DEF TypeOK
<1> QED BY <1>1, <1>2
-----------------------------------------------------------------------------
(* Every reading of a timer is a number. *)
LEMMA Numbers ==
    ASSUME TypeOK
    PROVE  /\ Sample \in Nat \ {0} /\ Late \in Nat /\ Timeout \in Nat \ {0}
           /\ AckTime \in Nat /\ BootTime \in Nat /\ MaxCount \in Nat \ {0}
           /\ Health \in Threads /\ Health \notin Tasks /\ NoTask \notin Tasks
           /\ Tasks \subseteq Threads
           /\ \A t \in Threads : left[t] \in Int
           /\ \A t \in Tasks : /\ Period[t] \in Nat \ {0}
                               /\ tracker.missed[t] \in 0 .. MaxCount
                               /\ tracker.missed[t] * Sample \in Nat
           /\ wdt \in Int /\ -1 <= wdt /\ wdt <= Timeout
           /\ reset \in Int /\ -1 <= reset /\ reset <= AckTime /\ Off = -1
<1>1. \A t \in Tasks : tracker.missed[t] \in 0 .. MaxCount
  BY DEF TypeOK
<1>2. Sample \in Nat /\ MaxCount \in Nat
  BY HealthAssumption
<1>3. \A n \in 0 .. MaxCount : n * Sample \in Nat
  BY <1>2
<1>4. /\ Health \in Threads /\ Health \notin Tasks /\ NoTask \notin Tasks
      /\ Tasks \subseteq Threads
  BY HealthAssumption DEF Threads, Tasks, Health, NoTask
<1>5. \A t \in Tasks : Period[t] \in Nat \ {0}
  BY HealthAssumption
<1>6. /\ wdt \in Int /\ -1 <= wdt /\ wdt <= Timeout
      /\ reset \in Int /\ -1 <= reset /\ reset <= AckTime /\ Off = -1
  BY HealthAssumption DEF TypeOK, Off
<1>7. \A t \in Threads : left[t] \in Int
  BY DEF TypeOK
<1> QED
  BY <1>1, <1>3, <1>4, <1>5, <1>6, <1>7, HealthAssumption

(* A reset of the processor starts a boot with no thread frozen and the    *)
(* whole timeout of the watchdog ahead.                                    *)
LEMMA BootedInv ==
    ASSUME Timely, HealthInv, Booted, reset' = Off, wdt' = Timeout
    PROVE  HealthInv'
<1>t. TypeOK
  BY DEF HealthInv
<1>n. /\ BootTime \in Nat /\ Timeout \in Nat /\ AckTime \in Nat
      /\ Sample \in Nat /\ Late \in Nat /\ MaxCount \in Nat /\ Health \in Threads
      /\ BootTime + Sample + Late < Timeout
  BY <1>t, Numbers DEF Timely
<1>1. TypeOK'
  <2>1. wdt' \in Off .. Timeout /\ reset' \in Off .. AckTime /\ reported' \in 0 .. MaxCount
    BY <1>n DEF Booted, Off
  <2>2. left' \in [Threads -> Int]
    BY <1>n DEF Booted
  <2> QED BY <1>t, <2>1, <2>2, NewTrackerType, Zenon DEF Booted, TypeOK
<1>2. OnTime'
  BY <1>n, NewTrackerType DEF Booted, OnTime
<1>3. Overlooked' /\ NoFalseAlarm' /\ Evident'
  BY NewTrackerType DEF Booted, Overlooked, NoFalseAlarm, Evident
<1>4. Petted'
  <2>1. left'[Health] = BootTime
    BY <1>n DEF Booted
  <2> QED BY <2>1, <1>n DEF Booted, Petted
<1> QED BY <1>1, <1>2, <1>3, <1>4 DEF HealthInv

(* The firmware starts: its first sample comes in time for the watchdog. *)
LEMMA StartInv ==
    ASSUME Timely, HealthInv, Start
    PROVE  HealthInv'
<1>t. TypeOK /\ OnTime /\ NoFalseAlarm /\ Evident /\ Petted
  BY DEF HealthInv
<1>n. /\ BootTime \in Nat /\ Timeout \in Nat \ {0} /\ AckTime \in Nat
      /\ Sample \in Nat /\ Late \in Nat /\ MaxCount \in Nat /\ Health \in Threads
      /\ Health \notin Tasks /\ Tasks \subseteq Threads
      /\ \A t \in Tasks : Period[t] \in Nat
      /\ wdt \in Int /\ -1 <= wdt /\ wdt <= Timeout /\ Off = -1
      /\ BootTime + Sample + Late < Timeout
  BY <1>t, Numbers DEF Timely
<1>l. /\ left' \in [Threads -> Int] /\ left'[Health] = Sample
      /\ \A t \in Tasks : left'[t] = 0
      /\ \A t \in Threads : left'[t] >= 0
  BY <1>n DEF Start, NewLeft
<1>b. /\ froze = {} /\ moved = {} /\ tracker = NewTracker
      /\ left[Health] \in 0 .. BootTime
  BY <1>t, <1>n DEF Start, OnTime
<1>1. TypeOK'
  <2>1. wdt' \in Off .. Timeout
    BY <1>n DEF Start
  <2> QED BY <1>t, <1>l, <2>1 DEF Start, TypeOK
<1>2. OnTime'
  BY <1>t, <1>l, <1>n, <1>b, NewTrackerType DEF Start, OnTime
<1>3. Overlooked'
  <2> SUFFICES ASSUME NEW t \in Tasks
               PROVE Period[t] - left'[t] >= tracker'.missed[t] * Sample + (Sample - left'[Health])
    BY DEF Overlooked
  <2>1. tracker'.missed[t] = 0
    BY <1>b, NewTrackerType DEF Start
  <2>2. /\ 0 * Sample = 0 /\ left'[t] = 0 /\ left'[Health] = Sample
        /\ Period[t] \in Nat /\ Sample \in Nat
    BY <1>l, <1>n
  <2> QED BY <2>1, <2>2
<1>4. NoFalseAlarm' /\ Evident'
  BY <1>t DEF Start, NoFalseAlarm, Evident
<1>5. Petted'
  BY <1>t, <1>l, <1>n, <1>b, NewTrackerType DEF Start, Petted
<1> QED BY <1>1, <1>2, <1>3, <1>4, <1>5 DEF HealthInv

(* A turn of a task's loop, which moves its epoch, keeps the invariant. *)
LEMMA TaskLoopInv ==
    ASSUME HealthInv, NEW u \in Tasks, TaskLoop(u)
    PROVE  HealthInv'
<1>t. TypeOK /\ OnTime /\ Overlooked /\ NoFalseAlarm /\ Evident /\ Petted
  BY DEF HealthInv
<1>n. /\ Late \in Nat /\ Health \in Threads /\ Health # u /\ u \in Threads
      /\ Period[u] \in Nat
  BY <1>t, Numbers
<1>l. /\ left' \in [Threads -> Int] /\ left'[u] = Period[u]
      /\ \A t \in Threads \ {u} : left'[t] = left[t]
      /\ left'[Health] = left[Health]
  BY <1>t, <1>n DEF TaskLoop, TypeOK
<1>1. TypeOK'
  BY <1>t, <1>l DEF TaskLoop, TypeOK
<1>2. OnTime'
  BY <1>t, <1>l, <1>n, Numbers DEF TaskLoop, OnTime
<1>3. Overlooked'
  BY <1>t, <1>l, <1>n, Numbers DEF TaskLoop, Overlooked
<1>4. NoFalseAlarm' /\ Evident'
  BY <1>t DEF TaskLoop, NoFalseAlarm, Evident
<1>5. Petted'
  BY <1>t, <1>l DEF TaskLoop, Petted
<1> QED BY <1>1, <1>2, <1>3, <1>4, <1>5 DEF HealthInv

(* A sample of vams_health_monitor keeps it: a failure is noted in the     *)
(* retained record before the watchdog goes unpetted for it.               *)
LEMMA HealthSampleInv ==
    ASSUME Timely, HealthInv, HealthSample
    PROVE  HealthInv'
<1>t. TypeOK /\ OnTime /\ Overlooked /\ NoFalseAlarm /\ Evident /\ Petted
  BY DEF HealthInv
<1>n. /\ Late \in Nat /\ Health \in Threads /\ Health \notin Tasks
      /\ BootTime \in Nat /\ Tasks \subseteq Threads
      /\ Sample \in Nat /\ Timeout \in Nat
      /\ BootTime + Sample + Late < Timeout
  BY <1>t, Numbers DEF Timely
<1>l. /\ left' \in [Threads -> Int] /\ left'[Health] = Sample
      /\ \A t \in Threads \ {Health} : left'[t] = left[t]
  BY <1>t, <1>n DEF HealthSample, TypeOK, SamplePeriod
<1> DEFINE k == Tracked(tracker)
<1>k. /\ k \in [grace : 0 .. Grace, missed : [Tasks -> 0 .. MaxCount],
                stuck : Tasks \cup {NoTask}, latched : BOOLEAN,
                failures : 0 .. MaxCount]
      /\ k.latched <=> k.stuck # NoTask
      /\ k.stuck # NoTask => k.stuck \in froze
      /\ k.grace > 0 => \A t \in Tasks : k.missed[t] = 0
      /\ \A t \in Tasks \ froze : Period[t] - left[t] >= k.missed[t] * Sample
      /\ k.failures # tracker.failures => k.stuck # NoTask
      /\ k.failures >= tracker.failures
      /\ k.latched => k.failures > 0
  <2>1. cpu = "run" /\ left[Health] <= 0
    BY DEF HealthSample
  <2> QED BY <2>1, TrackedSound
<1>a. /\ tracker' = k /\ moved' = {} /\ Note(k) /\ Pet(k.stuck = NoTask)
      /\ UNCHANGED <<cpu, overload, reset, frozen, froze>> /\ cpu = "run"
  BY DEF HealthSample
<1> HIDE DEF k
<1>1. TypeOK'
  <2>1. wdt' \in Off .. Timeout
    BY <1>t, <1>n, <1>a DEF TypeOK, Pet, Off
  <2>2. /\ reported' \in 0 .. MaxCount /\ noted' \in BOOLEAN
        /\ retained' \in [stuck : Tasks \cup {NoTask}, failures : 0 .. MaxCount]
    <3>1. CASE k.stuck # NoTask /\ k.failures # reported
      <4>1. /\ reported' = k.failures /\ noted' = TRUE
            /\ retained' = [stuck |-> k.stuck, failures |-> k.failures]
        BY <3>1, <1>a DEF Note
      <4>2. k.failures \in 0 .. MaxCount /\ k.stuck \in Tasks \cup {NoTask}
        BY <1>k
      <4> QED BY <4>1, <4>2
    <3>2. CASE ~(k.stuck # NoTask /\ k.failures # reported)
      BY <3>2, <1>t, <1>a DEF TypeOK, Note
    <3> QED BY <3>1, <3>2
  <2> QED BY <1>t, <1>l, <1>k, <1>a, <2>1, <2>2 DEF TypeOK
<1>2. OnTime'
  BY <1>t, <1>l, <1>n, <1>k, <1>a DEF OnTime
<1>3. Overlooked'
  <2> SUFFICES ASSUME NEW t \in Tasks \ froze
               PROVE  Period[t] - left'[t] >= k.missed[t] * Sample + (Sample - left'[Health])
    BY <1>a DEF Overlooked
  <2>1. Period[t] - left'[t] >= k.missed[t] * Sample
    BY <1>k, <1>l, <1>n
  <2>2. k.missed[t] * Sample \in Nat
    <3>1. k.missed[t] \in Nat
      BY <1>k
    <3> QED BY <3>1, <1>n
  <2> QED BY <2>1, <2>2, <1>l, <1>n
<1>4. NoFalseAlarm'
  BY <1>k, <1>a DEF NoFalseAlarm
<1>5. Evident'
  <2>1. CASE k.stuck # NoTask /\ k.failures # reported
    BY <2>1, <1>t, <1>k, <1>a DEF Evident, Note
  <2>2. CASE ~(k.stuck # NoTask /\ k.failures # reported)
    <3>1. UNCHANGED <<reported, retained, noted>>
      BY <2>2, <1>a DEF Note
    <3>2. k.failures = tracker.failures
      BY <2>2, <1>k, <1>t DEF Evident
    <3> QED BY <3>1, <3>2, <1>t, <1>k, <1>a DEF Evident
  <2> QED BY <2>1, <2>2
<1>6. Petted'
  BY <1>t, <1>l, <1>n, <1>k, <1>a DEF Petted, Pet
<1> QED BY <1>1, <1>2, <1>3, <1>4, <1>5, <1>6 DEF HealthInv

(* vams_request_overload_reset keeps it: the task that asks for the reset  *)
(* waits for it, and counts as frozen from then on.                        *)
LEMMA OverloadInv ==
    ASSUME HealthInv, NEW u \in Tasks, RequestOverloadReset(u)
    PROVE  HealthInv'
<1>t. TypeOK /\ OnTime /\ Overlooked /\ NoFalseAlarm /\ Evident /\ Petted
  BY DEF HealthInv
<1>n. u \in Threads /\ Off = -1 /\ AckTime \in Nat /\ Timeout \in Nat
  BY <1>t, Numbers
<1>1. TypeOK'
  <2>1. wdt' \in Off .. Timeout /\ reset' \in Off .. AckTime
    BY <1>t, <1>n DEF RequestOverloadReset, ManagementReset, TypeOK
  <2> QED BY <1>t, <1>n, <2>1 DEF RequestOverloadReset, TypeOK
<1>2. OnTime' /\ Overlooked'
  BY <1>t DEF RequestOverloadReset, OnTime, Overlooked
<1>3. NoFalseAlarm' /\ Evident' /\ Petted'
  BY <1>t DEF RequestOverloadReset, NoFalseAlarm, Evident, Petted
<1> QED BY <1>1, <1>2, <1>3 DEF HealthInv

(* A thread that freezes is one the invariant no longer speaks for. *)
LEMMA FreezeInv ==
    ASSUME HealthInv, NEW u \in Threads, Freeze(u)
    PROVE  HealthInv'
<1>t. TypeOK /\ OnTime /\ Overlooked /\ NoFalseAlarm /\ Evident /\ Petted
  BY DEF HealthInv
<1>1. TypeOK'
  BY <1>t DEF Freeze, TypeOK
<1>2. OnTime' /\ Overlooked'
  BY <1>t DEF Freeze, OnTime, Overlooked
<1>3. NoFalseAlarm' /\ Evident' /\ Petted'
  BY <1>t DEF Freeze, NoFalseAlarm, Evident, Petted
<1> QED BY <1>1, <1>2, <1>3 DEF HealthInv

(* A thread that goes on has frozen in this boot all the same. *)
LEMMA ThawInv ==
    ASSUME HealthInv, NEW u \in Threads, Thaw(u)
    PROVE  HealthInv'
<1>t. TypeOK /\ OnTime /\ Overlooked /\ NoFalseAlarm /\ Evident /\ Petted
  BY DEF HealthInv
<1>u. u \in froze
  BY <1>t DEF Thaw, TypeOK
<1>c. cpu = "run"
  BY <1>t, <1>u DEF OnTime, TypeOK
<1>l. /\ left' \in [Threads -> Int] /\ left'[u] = IF left[u] < 0 THEN 0 ELSE left[u]
      /\ \A t \in Threads \ {u} : left'[t] = left[t]
  BY <1>t DEF Thaw, TypeOK
<1>1. TypeOK'
  BY <1>t, <1>l DEF Thaw, TypeOK
<1>2. OnTime'
  <2>1. \A t \in Threads \ froze : left'[t] >= -Late
    BY <1>t, <1>l, <1>c, <1>u DEF OnTime
  <2>2. \A t \in Tasks : left'[t] <= Period[t]
    BY <1>t, <1>l, <1>c, Numbers DEF OnTime
  <2> QED BY <1>t, <1>c, <2>1, <2>2 DEF Thaw, OnTime
<1>3. Overlooked'
  <2> SUFFICES ASSUME NEW t \in Tasks \ (moved \cup froze)
               PROVE  Period[t] - left'[t] >= tracker.missed[t] * Sample + (Sample - left'[Health])
    BY DEF Thaw, Overlooked
  <2> DEFINE a == tracker.missed[t] * Sample
  <2>1. Period[t] - left[t] >= a + (Sample - left[Health])
    BY <1>t, <1>c DEF Overlooked
  <2>2. left'[t] = left[t] /\ left'[Health] >= left[Health]
    BY <1>t, <1>l, <1>u, Numbers
  <2>3. /\ a \in Nat /\ Period[t] \in Nat /\ left[t] \in Int /\ left[Health] \in Int
        /\ left'[Health] \in Int /\ Sample \in Nat
    BY <1>t, <1>l, Numbers
  <2> HIDE DEF a
  <2>4. Period[t] - left'[t] >= a + (Sample - left'[Health])
    BY <2>1, <2>2, <2>3
  <2> QED BY <2>4 DEF a
<1>4. NoFalseAlarm' /\ Evident'
  BY <1>t DEF Thaw, NoFalseAlarm, Evident
<1>5. Petted'
  BY <1>t, <1>l, <1>u, Numbers DEF Thaw, Petted
<1> QED BY <1>1, <1>2, <1>3, <1>4, <1>5 DEF HealthInv

(* A unit of time takes from every timer alike, and passes only while no   *)
(* thread is overdue and no timer of the devices is at zero.               *)
LEMMA TickInv ==
    ASSUME HealthInv, Tick
    PROVE  HealthInv'
<1>t. TypeOK /\ OnTime /\ Overlooked /\ NoFalseAlarm /\ Evident /\ Petted
  BY DEF HealthInv
<1>f. frozen \subseteq froze /\ UNCHANGED <<cpu, moved, tracker, overload, frozen, froze>>
  BY <1>t DEF TypeOK, Tick
<1>l. /\ left' \in [Threads -> Int]
      /\ \A t \in Threads : left'[t] \in {left[t], left[t] - 1}
      /\ \A t \in Threads \ froze : left'[t] = left[t] - 1
      /\ \A t \in Threads \ froze : left[t] > IF cpu = "run" THEN -Late ELSE 0
  BY <1>t, <1>f DEF Tick, TypeOK
<1>1. TypeOK'
  <2>1. wdt' \in Off .. Timeout /\ reset' \in Off .. AckTime
    BY <1>t, Numbers DEF Tick
  <2> QED BY <1>t, <1>l, <2>1 DEF Tick, TypeOK
<1>2. OnTime'
  <2>1. cpu = "run" => \A t \in Threads \ froze : left'[t] >= -Late
    BY <1>t, <1>l, Numbers
  <2>2. cpu = "run" => \A t \in Tasks : left'[t] <= Period[t]
    BY <1>t, <1>l, Numbers DEF OnTime
  <2>3. cpu = "boot" => \A t \in Threads : left'[t] \in 0 .. BootTime
    BY <1>t, <1>l, Numbers DEF OnTime
  <2> QED BY <1>t, <1>f, <2>1, <2>2, <2>3 DEF OnTime
<1>3. Overlooked'
  <2> SUFFICES ASSUME NEW t \in Tasks \ (moved \cup froze), cpu = "run"
               PROVE  Period[t] - left'[t] >= tracker.missed[t] * Sample + (Sample - left'[Health])
    BY <1>f DEF Overlooked
  <2> DEFINE a == tracker.missed[t] * Sample
  <2>1. Period[t] - left[t] >= a + (Sample - left[Health])
    BY <1>t DEF Overlooked
  <2>2. left'[t] = left[t] - 1 /\ left'[Health] \in {left[Health], left[Health] - 1}
    BY <1>t, <1>l, Numbers
  <2>3. /\ a \in Nat /\ Period[t] \in Nat /\ left[t] \in Int /\ left[Health] \in Int
        /\ Sample \in Nat
    BY <1>t, Numbers
  <2> HIDE DEF a
  <2>4. Period[t] - left'[t] >= a + (Sample - left'[Health])
    BY <2>1, <2>2, <2>3
  <2> QED BY <2>4 DEF a
<1>4. NoFalseAlarm' /\ Evident'
  BY <1>t DEF Tick, NoFalseAlarm, Evident
<1>5. Petted'
  <2> SUFFICES ASSUME Health \notin froze, overload = {}, tracker.stuck = NoTask,
                      wdt' # Off
               PROVE  wdt' > left'[Health] + Late + (IF cpu = "boot" THEN Sample ELSE 0)
    BY <1>f DEF Petted
  <2>1. left'[Health] = left[Health] - 1 /\ wdt # Off /\ wdt' = wdt - 1
    BY <1>t, <1>l, Numbers DEF Tick
  <2>2. wdt > left[Health] + Late + (IF cpu = "boot" THEN Sample ELSE 0)
    BY <2>1, <1>t DEF Petted
  <2> QED BY <2>1, <2>2, <1>t, Numbers
<1> QED BY <1>1, <1>2, <1>3, <1>4, <1>5 DEF HealthInv

(* The watchdog's expiry, vams_watchdog_expired, stops its timer and asks  *)
(* for a reset.                                                            *)
LEMMA ExpiredInv ==
    ASSUME HealthInv, WatchdogExpired
    PROVE  HealthInv'
<1>t. TypeOK /\ OnTime /\ Overlooked /\ NoFalseAlarm /\ Evident /\ Petted
  BY DEF HealthInv
<1>1. TypeOK'
  <2>1. wdt' \in Off .. Timeout /\ reset' \in Off .. AckTime
    BY <1>t, Numbers DEF WatchdogExpired
  <2> QED BY <1>t, <2>1 DEF WatchdogExpired, TypeOK
<1>2. OnTime' /\ Overlooked'
  BY <1>t DEF WatchdogExpired, OnTime, Overlooked
<1>3. NoFalseAlarm' /\ Evident' /\ Petted'
  BY <1>t DEF WatchdogExpired, NoFalseAlarm, Evident, Petted
<1> QED BY <1>1, <1>2, <1>3 DEF HealthInv

(* Every step keeps the invariant. *)
LEMMA NextInv ==
    ASSUME Timely, HealthInv, [Next]_vars
    PROVE  HealthInv'
<1>1. CASE UNCHANGED vars
  BY <1>1 DEF HealthInv, TypeOK, OnTime, Overlooked, NoFalseAlarm, Petted, Evident, vars
<1>2. CASE FinishReset
  <2>1. Booted /\ reset' = Off /\ wdt' = Timeout
    BY <1>2 DEF FinishReset
  <2> QED BY <2>1, BootedInv
<1>3. CASE WatchdogExpired \/ Start \/ HealthSample \/ Tick
  BY <1>3, ExpiredInv, StartInv, HealthSampleInv, TickInv
<1>4. CASE \E t \in Tasks : TaskLoop(t) \/ RequestOverloadReset(t)
  BY <1>4, TaskLoopInv, OverloadInv
<1>5. CASE \E t \in Threads : Freeze(t) \/ Thaw(t)
  BY <1>5, FreezeInv, ThawInv
<1> QED BY <1>1, <1>2, <1>3, <1>4, <1>5 DEF Next

(* The invariant holds in every state. *)
LEMMA SpecInv ==
    ASSUME Timely
    PROVE  Spec => []HealthInv
<1>1. Init => HealthInv
  BY InitInv
<1>2. HealthInv /\ [Next]_vars => HealthInv'
  BY NextInv
<1> QED BY <1>1, <1>2, PTL DEF Spec

(* Under a running monitor that finds no task stuck the watchdog does not  *)
(* run down: the monitor's next sample comes first.                        *)
LEMMA NoExpiry ==
    ASSUME HealthInv, wdt = 0, Health \notin froze, overload = {}
    PROVE  tracker.stuck # NoTask
<1>t. TypeOK /\ OnTime /\ Petted
  BY DEF HealthInv
<1> SUFFICES ASSUME tracker.stuck = NoTask PROVE FALSE
  OBVIOUS
<1>1. wdt > left[Health] + Late + (IF cpu = "boot" THEN Sample ELSE 0)
  BY <1>t, Numbers DEF Petted
<1>2. left[Health] >= -Late
  BY <1>t, Numbers DEF OnTime, TypeOK
<1> QED BY <1>1, <1>2, <1>t, Numbers

(* The health tracker accuses no task that did not freeze in this boot,    *)
(* for any number of tasks, any periods, lateness, sampling period and     *)
(* limit of misses that satisfy Timely.                                    *)
THEOREM NoFalseAlarmTheorem ==
    ASSUME Timely
    PROVE  Spec => []NoFalseAlarm
<1>1. HealthInv => NoFalseAlarm
  BY DEF HealthInv
<1> QED BY <1>1, SpecInv, PTL

(* The watchdog expires only in a boot in which some thread did freeze: a  *)
(* boot, the startup grace and an accurate monitor never outlast its       *)
(* timeout.                                                                *)
THEOREM ExpiryTheorem ==
    ASSUME Timely
    PROVE  Spec => []ExpiryHasCause
<1>1. HealthInv => ExpiryHasCause
  <2> SUFFICES ASSUME HealthInv, wdt = 0, froze = {} PROVE FALSE
    BY DEF ExpiryHasCause
  <2>1. TypeOK /\ NoFalseAlarm
    BY DEF HealthInv
  <2>2. overload = {} /\ tracker.stuck = NoTask
    BY <2>1 DEF TypeOK, NoFalseAlarm
  <2> QED BY <2>2, NoExpiry
<1> QED BY <1>1, SpecInv, PTL

(* When the watchdog expires under a running monitor, the retained record  *)
(* names a task that froze in this boot: vams_health_monitor writes it in  *)
(* the sample that first goes without a pet.                               *)
THEOREM EvidenceTheorem ==
    ASSUME Timely
    PROVE  Spec => []EvidenceBeforeReset
<1>1. HealthInv => EvidenceBeforeReset
  <2> SUFFICES ASSUME HealthInv, wdt = 0, Health \notin froze, overload = {}
               PROVE  noted /\ retained.stuck \in froze
    BY DEF EvidenceBeforeReset
  <2>1. tracker.latched
    BY NoExpiry DEF HealthInv, TypeOK
  <2> QED BY <2>1 DEF HealthInv, Evident
<1> QED BY <1>1, SpecInv, PTL
=============================================================================
