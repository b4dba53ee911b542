--------------------------- MODULE HealthWatchdog ---------------------------
(***************************************************************************)
(* The health supervision of the firmware: the essential tasks and their   *)
(* progress epochs, the health monitor that samples them, the watchdog of  *)
(* the management device it pets, and the reset that ends in a reboot.     *)
(*                                                                         *)
(* Time is counted in ticks.  A task that is due runs within Late ticks,   *)
(* the time the tasks of higher priority may keep the hart.  An epoch is   *)
(* kept as whether it differs from the one the monitor saw last: it does   *)
(* not come round to the same 32-bit value within a sample.  The retained  *)
(* record is what vams_retained_note_health writes of it; the writing is   *)
(* the matter of RetainedRecord.                                           *)
(***************************************************************************)
EXTENDS Integers, FiniteSets

CONSTANTS
    N,          \* the essential tasks are 1 .. N
    Pollers,    \* those that wait for work, for at most their period
    Period,     \* of each task, in ticks
    Sample,     \* VAMS_HEARTBEAT_PERIOD, of the health monitor
    Grace,      \* VAMS_HEALTH_STARTUP_GRACE
    MissLimit,  \* VAMS_HEALTH_MISS_LIMIT
    Timeout,    \* VAMS_WATCHDOG_TIMEOUT_MS
    AckTime,    \* VAMS_RESET_ACK_TIMEOUT_MS
    BootTime,   \* from the reset to the start of the tasks, at most
    Late,       \* a due task runs within this time
    MaxCount,   \* the value at which a counter saturates
    Faults      \* what may happen: "freeze", "thaw", "overload"

Tasks == 1 .. N
Health == 0
Threads == Tasks \cup {Health}
NoTask == 0     \* VAMS_HEALTH_TASK_NONE
Off == -1       \* the watchdog's timer is not armed

ASSUME HealthAssumption ==
    /\ N \in Nat \ {0} /\ Pollers \subseteq Tasks
    /\ Period \in [Tasks -> Nat \ {0}] /\ Sample \in Nat \ {0}
    /\ Grace \in Nat /\ MissLimit \in Nat \ {0} /\ MaxCount \in Nat \ {0}
    /\ MissLimit <= MaxCount
    /\ Timeout \in Nat \ {0} /\ AckTime \in Nat /\ BootTime \in Nat /\ Late \in Nat
    /\ Faults \subseteq {"freeze", "thaw", "overload"}

VARIABLES
    cpu,       \* "run", or "boot" until main has started the tasks
    left,      \* ticks until a thread is due, until the boot is over
    moved,     \* tasks whose epoch differs from last_epoch
    tracker,   \* struct vams_health_tracker
    reported,  \* reported_failure_count
    retained,  \* last_stuck_task and health_failure_count of the record
    overload,  \* tasks that set overload_reset_requested
    wdt,       \* ticks until the watchdog expires
    reset,     \* ticks until a pending reset is finished at the latest, or Off
    frozen,    \* threads that do not run
    froze,     \* history: threads that froze since the boot
    noted      \* history: the record was written since the boot

vars == <<cpu, left, moved, tracker, reported, retained, overload, wdt, reset,
          frozen, froze, noted>>

(* vams_health_tracker_init *)
NewTracker ==
    [grace |-> Grace, missed |-> [t \in Tasks |-> 0], stuck |-> NoTask,
     latched |-> FALSE, failures |-> 0]

(* the first loop of a task runs at once, the monitor sleeps first *)
NewLeft == [t \in Threads |-> IF t = Health THEN Sample ELSE 0]

(* The hart is reset: everything in its memory is new.                     *)
Booted ==
    /\ cpu' = "boot"
    /\ left' = [t \in Threads |-> BootTime]
    /\ moved' = {} /\ tracker' = NewTracker /\ reported' = 0
    /\ overload' = {}
    /\ frozen' = {} /\ froze' = {} /\ noted' = FALSE
    /\ UNCHANGED retained

Init ==
    /\ cpu = "boot"
    /\ left = [t \in Threads |-> BootTime]
    /\ moved = {} /\ tracker = NewTracker /\ reported = 0
    /\ retained = [stuck |-> NoTask, failures |-> 0]
    /\ overload = {}
    /\ wdt = Off /\ reset = Off
    /\ frozen = {} /\ froze = {} /\ noted = FALSE

-----------------------------------------------------------------------------
(* The management device *)

(* vams_management_reset: the reset waits for an acknowledgment if a       *)
(* command is active.                                                      *)
ManagementReset ==
    IF reset # Off THEN UNCHANGED <<reset, wdt>>
    ELSE reset' = AckTime /\ wdt' = Off

WatchdogExpired ==
    /\ wdt = 0
    /\ reset' = IF reset = Off THEN AckTime ELSE reset
    /\ wdt' = Off
    /\ UNCHANGED <<cpu, left, moved, tracker, reported, retained, overload,
                   frozen, froze, noted>>

(* vams_management_finish_reset: the acknowledgment or its timeout, or at  *)
(* once.  The watchdog stays enabled and starts anew.                      *)
FinishReset ==
    /\ reset # Off
    /\ reset' = Off /\ wdt' = Timeout
    /\ Booted

-----------------------------------------------------------------------------
(* The firmware *)

(* main: vams_management_watchdog_start enables the watchdog unless it has *)
(* been running since before the reset.                                    *)
Start ==
    /\ cpu = "boot"
    /\ cpu' = "run"
    /\ left' = NewLeft
    /\ wdt' = IF wdt = Off THEN Timeout ELSE wdt
    /\ UNCHANGED <<moved, tracker, reported, retained, overload, reset, frozen,
                   froze, noted>>

(* one turn of a task's loop, to vams_task_progress *)
TaskLoop(t) ==
    /\ cpu = "run" /\ t \notin frozen
    /\ left[t] <= 0 \/ t \in Pollers
    /\ left' = [left EXCEPT ![t] = Period[t]]
    /\ moved' = moved \cup {t}
    /\ UNCHANGED <<cpu, tracker, reported, retained, overload, wdt, reset,
                   frozen, froze, noted>>

(* Mutant: the monitor samples every tick. *)
SamplePeriodDocumented == 1

SamplePeriod == Sample

CounterIncrement(n) == IF n = MaxCount THEN n ELSE n + 1

LowestOf(S) == IF S = {} THEN NoTask ELSE CHOOSE t \in S : \A u \in S : t <= u

(* vams_health_tracker_update *)
Tracked(k) ==
    LET missed == [t \in Tasks |-> IF t \in moved THEN 0
                                   ELSE CounterIncrement(k.missed[t])]
        stuck == LowestOf({t \in Tasks : missed[t] >= MissLimit})
    IN  IF k.grace > 0 THEN [k EXCEPT !.grace = @ - 1]
        ELSE [k EXCEPT !.missed = missed, !.stuck = stuck,
                       !.latched = stuck # NoTask,
                       !.failures = IF stuck # NoTask /\ ~k.latched
                                    THEN CounterIncrement(@) ELSE @]

(* Mutant: the watchdog is petted at every sample. *)
PetAlways(healthy) == wdt' = Timeout

(* Mutant: no pet during the startup grace. *)
PetAfterGrace(healthy) ==
    wdt' = IF healthy /\ overload = {} /\ tracker.grace = 0 THEN Timeout ELSE wdt

(* Mutant: a stuck task is not noted before the reset. *)
NoteNothing(k) == UNCHANGED <<reported, retained, noted>>

(* the pet of vams_health_monitor; it rearms the timer even while a reset  *)
(* is pending                                                              *)
Pet(healthy) == wdt' = IF healthy /\ overload = {} THEN Timeout ELSE wdt

(* vams_health_monitor's call of vams_retained_note_health *)
Note(k) ==
    IF k.stuck # NoTask /\ k.failures # reported
    THEN /\ reported' = k.failures
         /\ retained' = [stuck |-> k.stuck, failures |-> k.failures]
         /\ noted' = TRUE
    ELSE UNCHANGED <<reported, retained, noted>>

(* one turn of vams_health_monitor *)
HealthSample ==
    /\ cpu = "run" /\ Health \notin frozen /\ left[Health] <= 0
    /\ tracker' = Tracked(tracker)
    /\ moved' = {}
    /\ Note(tracker')
    /\ Pet(tracker'.stuck = NoTask)
    /\ left' = [left EXCEPT ![Health] = SamplePeriod]
    /\ UNCHANGED <<cpu, overload, reset, frozen, froze>>

(* vams_request_overload_reset: the task does not come back from it *)
RequestOverloadReset(t) ==
    /\ "overload" \in Faults /\ cpu = "run" /\ t \notin frozen
    /\ overload' = overload \cup {t}
    /\ frozen' = frozen \cup {t} /\ froze' = froze \cup {t}
    /\ ManagementReset
    /\ UNCHANGED <<cpu, left, moved, tracker, reported, retained, noted>>

-----------------------------------------------------------------------------
(* Faults and time *)

(* a thread hangs, or waits for something that does not come *)
Freeze(t) ==
    /\ "freeze" \in Faults /\ cpu = "run" /\ t \notin frozen
    /\ frozen' = frozen \cup {t} /\ froze' = froze \cup {t}
    /\ UNCHANGED <<cpu, left, moved, tracker, reported, retained, overload, wdt,
                   reset, noted>>

(* and goes on after all *)
Thaw(t) ==
    /\ "thaw" \in Faults /\ t \in frozen \ overload
    /\ frozen' = frozen \ {t}
    /\ left' = [left EXCEPT ![t] = IF @ < 0 THEN 0 ELSE @]
    /\ UNCHANGED <<cpu, moved, tracker, reported, retained, overload, wdt, reset,
                   froze, noted>>

(* Time passes while nothing is overdue.                                   *)
Tick ==
    /\ wdt # 0 /\ reset # 0
    /\ \A t \in Threads \ frozen :
         left[t] > IF cpu = "run" THEN -Late ELSE 0
    /\ left' = [t \in Threads |->
                 IF t \in frozen /\ left[t] <= 0 THEN left[t] ELSE left[t] - 1]
    /\ wdt' = IF wdt = Off THEN Off ELSE wdt - 1
    /\ reset' = IF reset = Off THEN Off ELSE reset - 1
    /\ UNCHANGED <<cpu, moved, tracker, reported, retained, overload, frozen,
                   froze, noted>>

Next ==
    \/ WatchdogExpired \/ FinishReset \/ Start \/ HealthSample \/ Tick
    \/ \E t \in Tasks : TaskLoop(t) \/ RequestOverloadReset(t)
    \/ \E t \in Threads : Freeze(t) \/ Thaw(t)

Spec == Init /\ [][Next]_vars

(* What is due: a thread whose time has come, a timer that has run down.   *)
Due ==
    \/ WatchdogExpired \/ FinishReset \/ Start \/ HealthSample
    \/ \E t \in Tasks : left[t] <= 0 /\ TaskLoop(t)

(* Time passes or what is due is done, and while something is overdue time *)
(* waits: that a due thread runs is what Late says.  Nothing is assumed    *)
(* of freezing and thawing.                                                *)
FairSpec == Spec /\ WF_vars(Tick \/ Due)

-----------------------------------------------------------------------------
(* Properties *)

(* Types; a failure is latched exactly while a task is stuck, and no       *)
(* counter passes its limit.                                               *)
TypeOK ==
    /\ cpu \in {"run", "boot"} /\ left \in [Threads -> Int]
    /\ moved \subseteq Tasks
    /\ tracker \in [grace : 0 .. Grace, missed : [Tasks -> 0 .. MaxCount],
                    stuck : Tasks \cup {NoTask}, latched : BOOLEAN,
                    failures : 0 .. MaxCount]
    /\ tracker.latched <=> tracker.stuck # NoTask
    /\ reported \in 0 .. MaxCount
    /\ retained \in [stuck : Tasks \cup {NoTask}, failures : 0 .. MaxCount]
    /\ overload \subseteq frozen \cap Tasks /\ noted \in BOOLEAN
    /\ wdt \in Off .. Timeout /\ reset \in Off .. AckTime
    /\ frozen \subseteq froze /\ froze \subseteq Threads

(* No task that keeps its period is ever called stuck, however late the    *)
(* tasks and the monitor run against each other within Late.               *)
NoFalseAlarm == tracker.stuck # NoTask => tracker.stuck \in froze

(* The watchdog expires only in a boot in which a thread did freeze: boot, *)
(* startup grace, the monitor's sleep and its lateness fit in the timeout. *)
ExpiryHasCause == wdt = 0 => froze # {}

(* When the watchdog expires although the monitor runs, the record already *)
(* names a task that froze in this boot.                                   *)
EvidenceBeforeReset ==
    wdt = 0 /\ Health \notin froze /\ overload = {} =>
      noted /\ retained.stuck \in froze

(* A thread that froze does not stay so: it goes on by itself, or a reset  *)
(* follows.  The watchdog needs no help from a monitor that froze.         *)
FrozenIsEnded == \A t \in Threads : t \in frozen ~> t \notin frozen

(* "Two consecutive misses latch the stable lowest stuck-task ID": within  *)
(* an episode the identity does not change.                                *)
StuckTaskLatched ==
    [][tracker.latched /\ tracker'.latched => tracker'.stuck = tracker.stuck]_vars
=============================================================================
