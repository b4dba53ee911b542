--------------------------- MODULE RetainedRecord ---------------------------
(***************************************************************************)
(* The record the firmware keeps in the retention window of the management *)
(* device over a warm reset.  The tasks change a copy in memory under a    *)
(* spin lock and write the whole of it to the window, word by word; the    *)
(* hart may be reset between any two words, and boot has to tell a whole   *)
(* record from a torn one by its header and its CRC.  An event goes into   *)
(* the record and then into a bounded queue to the task that prints it;    *)
(* one that finds the queue full is counted as dropped.                    *)
(*                                                                         *)
(* Abstractions: words that are always set together are one field, the     *)
(* fields assertion and stack_failure, which no code sets, are left out,   *)
(* and a CRC is the contents it was computed over.  Of the queued events   *)
(* only the number is kept: the record has their order.  "completion" is   *)
(* the completion task and "task" any other one that emits.  Of the        *)
(* command service only what touches the record is here; the endpoint      *)
(* keeps one command in service, so that a command comes only after the    *)
(* answer to the last one.                                                 *)
(***************************************************************************)
EXTENDS Integers, Sequences, FiniteSets

CONSTANTS
    Commands, NoCommand,   \* last_command_id, and its value 0
    StuckTasks, NoTask,    \* last_stuck_task, and its value 0
    Events, NoEvent,       \* an entry of events, and a blank one
    NoCrc,                 \* the CRC of a cleared window, which fits no record
    Slots,                 \* VAMS_RETAINED_EVENT_COUNT
    QueueDepth,            \* VAMS_EVENT_QUEUE_DEPTH
    MaxCount,              \* the value at which a counter saturates
    MaxResets              \* bound on the resets

ASSUME RecordAssumption ==
    /\ NoCommand \notin Commands /\ NoTask \notin StuckTasks
    /\ NoEvent \notin Events
    /\ Slots \in Nat \ {0} /\ QueueDepth \in Nat \ {0}
    /\ MaxCount \in Nat \ {0} /\ MaxResets \in Nat

(* struct vams_retained_record, without its header and CRC *)
Contents ==
    [boots : 0 .. MaxCount, reset : 0 .. MaxResets,
     stuck : StuckTasks \cup {NoTask}, failures : 0 .. MaxCount,
     command : Commands \cup {NoCommand},
     head : 0 .. Slots - 1, count : 0 .. Slots,
     events : [0 .. Slots - 1 -> Events \cup {NoEvent}]]

(* the fields, in the order of their words *)
Fields == <<"header", "crc", "boots", "reset", "stuck", "failures", "command",
            "head", "count", "events">>

ASSUME NoCrcAssumption == NoCrc \notin Contents

NoEvents == [i \in 0 .. Slots - 1 |-> NoEvent]

Blank ==
    [boots |-> 0, reset |-> 0, stuck |-> NoTask, failures |-> 0,
     command |-> NoCommand, head |-> 0, count |-> 0, events |-> NoEvents]

VARIABLES
    window,     \* retention of the device: header, CRC and contents
    ram,        \* retained_record
    next,       \* the field to be written, 0 when no write is going on
    cpu,        \* "run", or "boot" when the hart has been reset
    resets,     \* reset_generation
    live,       \* the command the receiver has taken and no one answered
    answered,   \* how far the completion task is with the last command
    failures,   \* failure_count of the health monitor, of this boot
    committed,  \* history: the contents last written, or found, as a whole
    emit,       \* how far each emitter is in vams_event_emit
    queue,      \* the events in vams_event_queue
    drops,      \* event_drop_count
    lost        \* history: the events that found the queue full, up to Many

record == <<window, ram, next, committed>>
service == <<cpu, resets, live, answered, failures>>
log == <<emit, queue, drops, lost>>
vars == <<record, service, log>>

Emitters == {"completion", "task"}
Many == MaxCount + Cardinality(Emitters)

Idle == [step |-> "idle", seen |-> 0]

(* Power on clears the window; nothing has been written whole.             *)
Init ==
    /\ window = [header |-> FALSE, crc |-> NoCrc, contents |-> Blank]
    /\ ram = Blank /\ next = 1 /\ cpu = "boot" /\ resets = 0
    /\ live = NoCommand /\ answered = "no" /\ failures = 0 /\ committed = Blank
    /\ emit = [t \in Emitters |-> Idle] /\ queue = 0 /\ drops = 0 /\ lost = 0

CounterIncrement(n) == IF n = MaxCount THEN n ELSE n + 1

-----------------------------------------------------------------------------
(* Writing *)

(* Mutant: the CRC is not looked at. *)
ValidateHeader(w) == w.header

(* vams_retained_validate *)
Validate(w) == w.header /\ w.crc = w.contents

(* vams_retained_format *)
Format == [Blank EXCEPT !.boots = 1, !.reset = resets]

(* vams_retained_commit begins: the lock is held until the last word *)
Commit(r) == ram' = r /\ next' = 1

(* one turn of the loop of vams_management_retention_write *)
WriteField ==
    /\ cpu = "run" /\ next # 0
    /\ LET f == Fields[next] IN
       window' = CASE f = "header" -> [window EXCEPT !.header = TRUE]
                   [] f = "crc"    -> [window EXCEPT !.crc = ram]
                   [] OTHER        -> [window EXCEPT !.contents[f] = ram[f]]
    /\ IF next = Len(Fields) THEN next' = 0 /\ committed' = ram
       ELSE next' = next + 1 /\ UNCHANGED committed
    /\ UNCHANGED <<ram, service, log>>

(* A warm reset, between any two words.  What is in memory is lost when    *)
(* the boot writes it.                                                     *)
Reset ==
    /\ cpu = "run" /\ resets < MaxResets
    /\ cpu' = "boot" /\ resets' = resets + 1
    /\ emit' = [t \in Emitters |-> Idle] /\ queue' = 0 /\ drops' = 0 /\ lost' = 0
    /\ UNCHANGED <<record, live, answered, failures>>

(* vams_retained_boot, before any task runs *)
Boot ==
    /\ cpu = "boot"
    /\ cpu' = "run"
    /\ Commit(IF Validate(window)
              THEN [window.contents EXCEPT !.boots = CounterIncrement(@),
                                           !.reset = resets]
              ELSE Format)
    /\ live' = NoCommand /\ answered' = "no" /\ failures' = 0
    /\ committed' = IF Validate(window) THEN window.contents ELSE committed
    /\ UNCHANGED <<window, resets, log>>

-----------------------------------------------------------------------------
(* The tasks *)

Running == cpu = "run" /\ next = 0

(* vams_health_monitor: vams_retained_note_health.  The count is that of   *)
(* this boot and takes the place of the one of earlier boots; a count that *)
(* stays, because it is at its limit, is not reported again.               *)
NoteHealth(t) ==
    /\ Running /\ failures # MaxCount
    /\ failures' = CounterIncrement(failures)
    /\ Commit([ram EXCEPT !.stuck = t, !.failures = failures'])
    /\ UNCHANGED <<window, committed, cpu, resets, live, answered, log>>

(* vams_command_receiver takes a command: vams_retained_note_command.  It  *)
(* preempts the completion task.                                           *)
NoteCommand(c) ==
    /\ Running /\ live = NoCommand
    /\ live' = c
    /\ Commit([ram EXCEPT !.command = c])
    /\ UNCHANGED <<window, committed, cpu, resets, answered, failures, log>>

(* vams_command_completion publishes the completion of a command *)
Publish ==
    /\ Running /\ live # NoCommand /\ answered = "no"
    /\ live' = NoCommand /\ answered' = "published"
    /\ UNCHANGED <<record, cpu, resets, failures, log>>

(* and after its event vams_retained_clear_command *)
ClearCommand ==
    /\ Running /\ answered = "noted" /\ emit["completion"] = Idle
    /\ answered' = "no"
    /\ Commit([ram EXCEPT !.command = NoCommand])
    /\ UNCHANGED <<window, committed, cpu, resets, live, failures, log>>

-----------------------------------------------------------------------------
(* vams_event_emit and the logger *)

(* Mutant: the slot is the one after head. *)
NotedAfterHead(r, e) ==
    [r EXCEPT !.events[(r.head + 1) % Slots] = e,
              !.head = (r.head + 1) % Slots,
              !.count = IF @ < Slots THEN @ + 1 ELSE @]

(* vams_retained_note_event on the copy in memory *)
Noted(r, e) ==
    [r EXCEPT !.events[r.head] = e,
              !.head = (r.head + 1) % Slots,
              !.count = IF @ < Slots THEN @ + 1 ELSE @]

(* The event goes into the record.  The completion task emits when it has  *)
(* published, any other task at any time.                                  *)
NoteEvent(t, e) ==
    /\ Running /\ emit[t] = Idle
    /\ t = "completion" => answered = "published"
    /\ answered' = IF t = "completion" THEN "noted" ELSE answered
    /\ Commit(Noted(ram, e))
    /\ emit' = [emit EXCEPT ![t].step = "put"]
    /\ UNCHANGED <<window, committed, cpu, resets, live, failures, queue, drops, lost>>

(* It goes into the queue if there is room; else vams_event_record_drop    *)
(* reads the counter.                                                      *)
PutEvent(t) ==
    /\ Running /\ emit[t].step = "put"
    /\ IF queue < QueueDepth
       THEN /\ queue' = queue + 1 /\ emit' = [emit EXCEPT ![t] = Idle]
            /\ UNCHANGED lost
       ELSE /\ emit' = [emit EXCEPT ![t] = [step |-> "drop", seen |-> drops]]
            /\ lost' = IF lost < Many THEN lost + 1 ELSE lost
            /\ UNCHANGED queue
    /\ UNCHANGED <<record, service, drops>>

(* Mutant: the counter is stored without looking whether it has changed.   *)
RecordDropPlain(t) ==
    /\ Running /\ emit[t].step = "drop"
    /\ drops' = CounterIncrement(emit[t].seen)
    /\ emit' = [emit EXCEPT ![t] = Idle]
    /\ UNCHANGED <<record, service, queue, lost>>

(* one turn of the loop of vams_event_record_drop: a counter at its limit  *)
(* stays; the exchange fails when another task has counted meanwhile       *)
RecordDrop(t) ==
    /\ Running /\ emit[t].step = "drop"
    /\ LET seen == emit[t].seen IN
       IF seen # MaxCount /\ drops # seen
       THEN emit' = [emit EXCEPT ![t].seen = drops] /\ UNCHANGED drops
       ELSE /\ drops' = IF seen = MaxCount THEN drops ELSE CounterIncrement(seen)
            /\ emit' = [emit EXCEPT ![t] = Idle]
    /\ UNCHANGED <<record, service, queue, lost>>

(* vams_event_logger takes an event and prints it *)
LogEvent ==
    /\ Running /\ queue > 0
    /\ queue' = queue - 1
    /\ UNCHANGED <<record, service, emit, drops, lost>>

Next ==
    \/ WriteField \/ Reset \/ Boot \/ Publish \/ ClearCommand \/ LogEvent
    \/ \E t \in StuckTasks : NoteHealth(t)
    \/ \E c \in Commands : NoteCommand(c)
    \/ \E t \in Emitters :
         PutEvent(t) \/ RecordDrop(t) \/ \E e \in Events : NoteEvent(t, e)

Spec == Init /\ [][Next]_vars

-----------------------------------------------------------------------------
(* Properties *)

(* Types; the position in the ring and the number of events stay in range  *)
(* over torn records and saturated counters.                               *)
TypeOK ==
    /\ window \in [header : BOOLEAN, crc : Contents \cup {NoCrc}, contents : Contents]
    /\ ram \in Contents /\ committed \in Contents
    /\ next \in 0 .. Len(Fields) /\ cpu \in {"run", "boot"}
    /\ resets \in 0 .. MaxResets
    /\ live \in Commands \cup {NoCommand}
    /\ answered \in {"no", "published", "noted"} /\ failures \in 0 .. MaxCount
    /\ emit \in [Emitters -> [step : {"idle", "put", "drop"}, seen : 0 .. MaxCount]]
    /\ queue \in 0 .. QueueDepth /\ drops \in 0 .. MaxCount /\ lost \in 0 .. Many

(* "Invalid, partial, corrupt, or old records are reformatted without      *)
(* trusting their contents": what a boot accepts was written whole, or is  *)
(* all of what was being written; never a mixture of the two.  And a reset *)
(* that interrupts no write loses nothing: boot accepts what the tasks     *)
(* noted last.                                                             *)
BootTrustsWholeRecords ==
    cpu = "boot" =>
       /\ Validate(window) => window.contents \in {committed, ram}
       /\ next = 0 => Validate(window) /\ window.contents = ram

(* the events a reader of the record finds, oldest first *)
Recent(r) ==
    [i \in 1 .. r.count |-> r.events[(r.head + Slots - r.count + i - 1) % Slots]]

LastFew(s) == IF Len(s) <= Slots THEN s ELSE SubSeq(s, Len(s) - Slots + 1, Len(s))

(* While the firmware runs the ring changes only by a new last event, for  *)
(* which the oldest one goes when there is no slot left.                   *)
EventsInOrder ==
    [][cpu = "run" =>
         \/ Recent(ram') = Recent(ram)
         \/ \E e \in Events : Recent(ram') = LastFew(Append(Recent(ram), e))]_vars

(* "Queue saturation drops only diagnostics and increments a saturating    *)
(* counter": however the emitters preempt one another between reading the  *)
(* counter and writing it, each event that found the queue full is counted *)
(* once, apart from those whose emitter is just about to, until the        *)
(* counter is at its limit and stays there.                                *)
DropsExact ==
    LET counting == {t \in Emitters : emit[t].step = "drop"}
        due == lost - Cardinality(counting)
    IN  drops = IF due < MaxCount THEN due ELSE MaxCount

(* "preserves a versioned CRC record with ... last active command ...      *)
(* across warm reset": a whole record found at boot names the command that *)
(* was active when the reset came.                                         *)
NamesActiveCommand ==
    cpu = "boot" /\ next = 0 /\ live # NoCommand => window.contents.command = live
=============================================================================
