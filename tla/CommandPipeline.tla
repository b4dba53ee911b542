--------------------------- MODULE CommandPipeline ---------------------------
(***************************************************************************)
(* The command service of the Zephyr firmware (firmware/src/main.c with    *)
(* firmware/src/scheduler and firmware/drivers/vams_command_portal.c):     *)
(* five tasks hand one pool object per command from queue to queue,        *)
(*                                                                         *)
(*   receiver -> validator -> scheduler -> recovery manager -> completion, *)
(*                                                                         *)
(* and talk to the host through the portal registers of CommandPortal.     *)
(*                                                                         *)
(* A task body is cut where another task or the device can interleave with *)
(* an effect: the receiver and the validator take one step per command;    *)
(* publishing to the portal takes three (status check, window words,       *)
(* doorbell); an abort request takes the same three.  There is one hart    *)
(* and the priorities are fixed and preemptive, so a task takes a step     *)
(* only while no task of higher priority is ready to.                      *)
(***************************************************************************)
EXTENDS CommandPortal, FiniteSets

CONSTANTS
    Objects,    \* the blocks of vams_command_pool
    None,       \* no object
    MaxTime,    \* bound on the millisecond clock
    Horizon,    \* the latest deadline; within MaxTime, every command expires
    MaxSeq,     \* bound on the commands captured in one boot
    MaxLink     \* units the stream holds before a writer blocks

ASSUME PoolAssumption == IsFiniteSet(Objects) /\ None \notin Objects

ASSUME BoundAssumption ==
    MaxTime \in Nat /\ Horizon \in Nat /\ MaxSeq \in Nat /\ MaxLink \in Nat

CONSTANTS
    PeerSubmissions,  \* the submissions the peer may send
    PeerStatus,       \* the statuses of the results it may send
    Faults            \* which of the faults below an instance includes

ASSUME PeerAssumption ==
    /\ PeerSubmissions \subseteq Submission
    /\ PeerStatus \subseteq Status
    /\ Faults \subseteq {"watchdog", "garbage", "disconnect"}

VARIABLES
    now,          \* k_uptime_get()
    seq,          \* command_sequence
    bootGen,      \* command_generation, read once by main()
    pool,         \* free blocks of the slab
    cmd,          \* the object in each block
    validationQ,  \* vams_validation_queue
    readyQ,       \* vams_ready_queue
    ready,        \* the scheduler's local ready[] array
    runningQ,     \* vams_running_queue
    completionQ,  \* vams_completion_queue
    task,         \* where each multi-step task is and the object it holds
    halted,       \* "no", or the queue whose asserted put failed
    done          \* history: sequence numbers taken for published in this boot

fwVars == <<now, seq, bootGen, pool, cmd, validationQ, readyQ, ready,
            runningQ, completionQ, task, halted, done>>

vars == <<fwVars, portal, linkVars>>

-----------------------------------------------------------------------------
(* enum vams_command_state and struct vams_command_object.  The object's   *)
(* publication_count is set and cleared within CompletionRing; "done" keeps *)
(* its meaning beyond the life of the object.                              *)
State == {"FREE", "SUBMITTED", "VALIDATING", "QUEUED", "RUNNING", "ABORTING",
          "COMPLETED", "COMPLETED_ERROR", "CANCELLED"}

Terminal == {"COMPLETED", "COMPLETED_ERROR", "CANCELLED"}

Object == [state : State, sub : Submission, comp : Completion, gen : Nat,
           seq : Nat, deadline : Nat]

FreeObject == [state |-> "FREE", sub |-> GarbageSubmission,
               comp |-> ZeroCompletion, gen |-> 0, seq |-> 0,
               deadline |-> 0]

Tasks == {"scheduler", "recovery", "completion"}

TaskPC == {"idle", "picked", "retry", "write", "ring", "stuck",
           "wait", "abortcheck", "abortwrite", "abortring", "abortwait"}

Queues == {"no", "validation", "ready", "running", "completion"}

(* Mutant: the queues hold one entry less than the pool. *)
PoolSizeShort == Cardinality(Objects) - 1

PoolSize == Cardinality(Objects)

At(t, pc) == task[t].pc = pc

(* The task is between two of its steps and does not sleep there. *)
Busy(t) == task[t].pc \in {"picked", "write", "ring",
                           "abortcheck", "abortwrite", "abortring"}

(* A task that blocks on its queue is woken by the put.  The receiver and  *)
(* a task that polls the portal sleep for a millisecond between two looks  *)
(* and hold up nobody meanwhile.                                           *)
Runnable(t) ==
    CASE t = "recovery" ->
            Busy(t) \/ (At(t, "idle") /\ runningQ # << >>)
      [] t = "completion" ->
            Busy(t) \/ (At(t, "idle") /\ completionQ # << >>)
      [] t = "validator" -> validationQ # << >>

(* the tasks of higher priority *)
Higher(t) ==
    CASE t = "recovery" -> {}
      [] t \in {"receiver", "validator", "completion"} -> {"recovery"}
      [] t = "scheduler" -> {"recovery", "validator", "completion"}

CanRun(t) == halted = "no" /\ \A u \in Higher(t) : ~Runnable(u)

Goto(t, pc) == task' = [task EXCEPT ![t].pc = pc]

Release(t) == task' = [task EXCEPT ![t] = [pc |-> "idle", obj |-> None]]

-----------------------------------------------------------------------------
Init ==
    /\ now = 0
    /\ seq = 0
    /\ bootGen = 0
    /\ pool = Objects
    /\ cmd = [o \in Objects |-> FreeObject]
    /\ validationQ = << >>
    /\ readyQ = << >>
    /\ ready = {}
    /\ runningQ = << >>
    /\ completionQ = << >>
    /\ task = [t \in Tasks |-> [pc |-> "idle", obj |-> None]]
    /\ halted = "no"
    /\ done = {}
    /\ portal = PortalInit
    /\ LinkInit

(* vams_queue_put under __ASSERT_NO_MSG: a full queue stops the firmware *)
Room(q, capacity) == Len(q) < capacity

PutOrKeep(q, capacity, o) == IF Room(q, capacity) THEN Append(q, o) ELSE q

AssertRoom(q, capacity, name) ==
    halted' = IF Room(q, capacity) THEN halted ELSE name

-----------------------------------------------------------------------------
(* Receiver and validator *)

(* vams_scheduler_capture; the clock is bounded, so deadlines are too. *)
Deadline(s) ==
    LET t == now + IF s.timeout = 0 THEN DefaultTimeout ELSE s.timeout
    IN  IF t < Horizon THEN t ELSE Horizon

(* Mutant: the sequence number is read before it is incremented. *)
CapturedEarly(s) ==
    [state |-> "SUBMITTED", sub |-> s, comp |-> ZeroCompletion,
     gen |-> bootGen, seq |-> seq, deadline |-> Deadline(s)]

Captured(s) ==
    [state |-> "SUBMITTED", sub |-> s, comp |-> ZeroCompletion,
     gen |-> bootGen, seq |-> seq + 1, deadline |-> Deadline(s)]

(* vams_command_receiver: with a submission pending and a free block, copy *)
(* the submission, acknowledge it and queue it for validation.  Without a  *)
(* free block the submission stays in the portal.                          *)
ReceiverAdmit ==
    /\ CanRun("receiver")
    /\ portal.h2f
    /\ seq < MaxSeq
    /\ \E o \in pool :
        /\ pool' = pool \ {o}
        /\ cmd' = [cmd EXCEPT ![o] = Captured(portal.sub)]
        /\ validationQ' = PutOrKeep(validationQ, PoolSize, o)
    /\ AssertRoom(validationQ, PoolSize, "validation")
    /\ seq' = seq + 1
    /\ portal' = FwAck(portal)
    /\ UNCHANGED <<now, bootGen, readyQ, ready, runningQ, completionQ, task,
                   done, linkVars>>

(* vams_command_validator with vams_command_execute *)
ValidatorReject ==
    /\ CanRun("validator")
    /\ validationQ # << >>
    /\ LET o == Head(validationQ) IN
        /\ ~cmd[o].sub.valid
        /\ cmd' = [cmd EXCEPT
             ![o].state = "COMPLETED_ERROR",
             ![o].comp = MakeCompletion(cmd[o].sub.id, "INVALID")]
        /\ completionQ' = PutOrKeep(completionQ, PoolSize, o)
    /\ validationQ' = Tail(validationQ)
    /\ AssertRoom(completionQ, PoolSize, "completion")
    /\ UNCHANGED <<now, seq, bootGen, pool, readyQ, ready, runningQ, task,
                   done, portal, linkVars>>

ValidatorAccept ==
    /\ CanRun("validator")
    /\ validationQ # << >>
    /\ LET o == Head(validationQ) IN
        /\ cmd[o].sub.valid
        /\ cmd' = [cmd EXCEPT
             ![o].state = "QUEUED",
             ![o].comp = MakeCompletion(cmd[o].sub.id, "SUCCESS")]
        /\ readyQ' = PutOrKeep(readyQ, PoolSize, o)
    /\ validationQ' = Tail(validationQ)
    /\ AssertRoom(readyQ, PoolSize, "ready")
    /\ UNCHANGED <<now, seq, bootGen, pool, ready, runningQ, completionQ,
                   task, done, portal, linkVars>>

-----------------------------------------------------------------------------
(* Scheduler *)

(* vams_scheduler_precedes: earliest deadline first, then arrival order *)
Precedes(o, p) ==
    \/ cmd[o].deadline < cmd[p].deadline
    \/ cmd[o].deadline = cmd[p].deadline /\ cmd[o].seq < cmd[p].seq

(* vams_scheduler_select *)
Selected(o, S) == \A p \in S \ {o} : Precedes(o, p)

InQueue(q) == {q[i] : i \in 1 .. Len(q)}

(* Mutant: the ready queue is only looked at when the array is empty. *)
SchedulerPickStale ==
    /\ CanRun("scheduler")
    /\ At("scheduler", "idle")
    /\ LET S == IF ready # {} THEN ready ELSE InQueue(readyQ) IN
        \E o \in S :
            /\ Selected(o, S)
            /\ ready' = S \ {o}
            /\ task' = [task EXCEPT
                  !["scheduler"] = [pc |-> "picked", obj |-> o]]
    /\ readyQ' = IF ready # {} THEN readyQ ELSE << >>
    /\ UNCHANGED <<now, seq, bootGen, pool, cmd, validationQ, runningQ,
                   completionQ, halted, done, portal, linkVars>>

(* The scheduler empties the ready queue into its local array, which is as *)
(* large as the pool, and takes the most urgent entry.  Sequence numbers   *)
(* differ, so the order inside the array decides nothing and it is a set.  *)
(* A command that comes into the queue after it was emptied is one that    *)
(* comes after the choice: the array is the scheduler's own.               *)
SchedulerPick ==
    /\ CanRun("scheduler")
    /\ At("scheduler", "idle")
    /\ LET S == ready \cup InQueue(readyQ) IN
        \E o \in S :
            /\ Selected(o, S)
            /\ ready' = S \ {o}
            /\ task' = [task EXCEPT
                  !["scheduler"] = [pc |-> "picked", obj |-> o]]
    /\ readyQ' = << >>
    /\ UNCHANGED <<now, seq, bootGen, pool, cmd, validationQ, runningQ,
                   completionQ, halted, done, portal, linkVars>>

(* vams_scheduler_cancel, or deadline_expired with vams_scheduler_timeout: *)
(* the command is terminal without having run.                             *)
SchedulerExpire ==
    /\ CanRun("scheduler")
    /\ At("scheduler", "picked")
    /\ LET o == task["scheduler"].obj
           stale == cmd[o].gen # bootGen
       IN
        /\ stale \/ now >= cmd[o].deadline
        /\ cmd' = [cmd EXCEPT
             ![o].state = IF stale THEN "CANCELLED" ELSE "COMPLETED_ERROR",
             ![o].comp.status = IF stale THEN "RESET" ELSE "TIMED_OUT"]
        /\ completionQ' = PutOrKeep(completionQ, PoolSize, o)
    /\ AssertRoom(completionQ, PoolSize, "completion")
    /\ Release("scheduler")
    /\ UNCHANGED <<now, seq, bootGen, pool, validationQ, readyQ, ready,
                   runningQ, done, portal, linkVars>>

Dispatchable(o) == cmd[o].gen = bootGen /\ now < cmd[o].deadline

(* A NOP is complete once it is dispatched. *)
SchedulerNop ==
    /\ CanRun("scheduler")
    /\ At("scheduler", "picked")
    /\ LET o == task["scheduler"].obj IN
        /\ Dispatchable(o)
        /\ ~cmd[o].sub.payload
        /\ cmd' = [cmd EXCEPT ![o].state = "COMPLETED"]
        /\ completionQ' = PutOrKeep(completionQ, PoolSize, o)
    /\ AssertRoom(completionQ, PoolSize, "completion")
    /\ Release("scheduler")
    /\ UNCHANGED <<now, seq, bootGen, pool, validationQ, readyQ, ready,
                   runningQ, done, portal, linkVars>>

(* vams_command_complete looks at F2H_PENDING before it writes the window. *)
Publishing == IF portal.f2h THEN "retry" ELSE "write"

(* A payload command is RUNNING and its authorization is to be published. *)
SchedulerRun ==
    /\ CanRun("scheduler")
    /\ At("scheduler", "picked")
    /\ LET o == task["scheduler"].obj IN
        /\ Dispatchable(o)
        /\ cmd[o].sub.payload
        /\ cmd' = [cmd EXCEPT ![o].state = "RUNNING"]
    /\ Goto("scheduler", Publishing)
    /\ UNCHANGED <<now, seq, bootGen, pool, validationQ, readyQ, ready,
                   runningQ, completionQ, halted, done, portal, linkVars>>

-----------------------------------------------------------------------------
(* vams_publish_portal_completion, run by the scheduler and by the         *)
(* completion task: vams_command_complete is retried while the portal is   *)
(* busy, for at most 100 ms.                                               *)

Publishers == {"scheduler", "completion"}

PublishRetry(t) ==
    /\ CanRun(t)
    /\ At(t, "retry")
    /\ ~portal.f2h
    /\ Goto(t, "write")
    /\ UNCHANGED <<now, seq, bootGen, pool, cmd, validationQ, readyQ, ready,
                   runningQ, completionQ, halted, done, portal, linkVars>>

(* Mutant: a completion the portal does not take in time is dropped. *)
PublishGiveUp(t) ==
    /\ CanRun(t)
    /\ At(t, "retry")
    /\ portal.f2h
    /\ LET o == task[t].obj IN
        /\ cmd' = [cmd EXCEPT ![o] = FreeObject]
        /\ pool' = pool \cup {o}
    /\ Release(t)
    /\ UNCHANGED <<now, seq, bootGen, validationQ, readyQ, ready, runningQ,
                   completionQ, halted, done, portal, linkVars>>

(* -ETIMEDOUT: vams_request_overload_reset asks for a management reset and *)
(* never returns.                                                          *)
PublishTimeout(t) ==
    /\ CanRun(t)
    /\ At(t, "retry")
    /\ portal.f2h
    /\ Len(up) < MaxLink
    /\ Goto(t, "stuck")
    /\ portal' = ManagementReset(portal, connected)
    /\ up' = IF NoticeSent(portal, connected)
             THEN Append(up, ResetNotice(portal)) ELSE up
    /\ UNCHANGED <<now, seq, bootGen, pool, cmd, validationQ, readyQ, ready,
                   runningQ, completionQ, halted, done, down, connected>>

(* The words of the window, in one step: WindowIsOwn of Bridge shows that  *)
(* no other task is about to write any.  None of the properties below      *)
(* looks at the window.                                                    *)
PublishWrite(t) ==
    /\ CanRun(t)
    /\ At(t, "write")
    /\ portal' = WriteWindow(portal, cmd[task[t].obj].comp)
    /\ Goto(t, "ring")
    /\ UNCHANGED <<now, seq, bootGen, pool, cmd, validationQ, readyQ, ready,
                   runningQ, completionQ, halted, done, linkVars>>

(* The FW_COMPLETE doorbell.  The driver does not look whether the device  *)
(* took it, and returns 0 either way: what follows takes the message for   *)
(* published.                                                              *)
Doorbell ==
    /\ Len(up) < MaxLink
    /\ portal' = FwComplete(portal, connected)
    /\ up' = IF CompleteSent(portal, connected)
             THEN Append(up, portal.window) ELSE up
    /\ UNCHANGED <<down, connected>>

(* The authorization is out: the recovery manager owns the command. *)
SchedulerRing ==
    /\ CanRun("scheduler")
    /\ At("scheduler", "ring")
    /\ Doorbell
    /\ runningQ' = PutOrKeep(runningQ, 1, task["scheduler"].obj)
    /\ AssertRoom(runningQ, 1, "running")
    /\ Release("scheduler")
    /\ UNCHANGED <<now, seq, bootGen, pool, cmd, validationQ, readyQ, ready,
                   completionQ, done>>

(* vams_command_completion: take a terminal command ... *)
CompletionTake ==
    /\ CanRun("completion")
    /\ At("completion", "idle")
    /\ completionQ # << >>
    /\ task' = [task EXCEPT
          !["completion"] = [pc |-> Publishing, obj |-> Head(completionQ)]]
    /\ completionQ' = Tail(completionQ)
    /\ UNCHANGED <<now, seq, bootGen, pool, cmd, validationQ, readyQ, ready,
                   runningQ, halted, done, portal, linkVars>>

(* ... publish it, mark it published, and return its block to the pool. *)
CompletionRing ==
    /\ CanRun("completion")
    /\ At("completion", "ring")
    /\ Doorbell
    /\ LET o == task["completion"].obj IN
        /\ cmd' = [cmd EXCEPT ![o] = FreeObject]
        /\ pool' = pool \cup {o}
        /\ done' = done \cup {cmd[o].seq}
    /\ Release("completion")
    /\ UNCHANGED <<now, seq, bootGen, validationQ, readyQ, ready, runningQ,
                   completionQ, halted>>

-----------------------------------------------------------------------------
(* Recovery manager *)

RecoveryTake ==
    /\ CanRun("recovery")
    /\ At("recovery", "idle")
    /\ runningQ # << >>
    /\ task' = [task EXCEPT
          !["recovery"] = [pc |-> "wait", obj |-> Head(runningQ)]]
    /\ runningQ' = Tail(runningQ)
    /\ UNCHANGED <<now, seq, bootGen, pool, cmd, validationQ, readyQ, ready,
                   completionQ, halted, done, portal, linkVars>>

(* Mutant: the identity in the result is not compared. *)
AppliedUnchecked(o, r) ==
    [cmd[o] EXCEPT !.comp = r,
                   !.state = IF r.status = "SUCCESS"
                             THEN "COMPLETED" ELSE "COMPLETED_ERROR"]

(* vams_scheduler_apply_result: a result of another identity is -EPROTO, on *)
(* which vams_scheduler_escalate fails the command.                        *)
Applied(o, r) ==
    IF r.id = cmd[o].sub.id
    THEN [cmd[o] EXCEPT !.comp = r,
                        !.state = IF r.status = "SUCCESS"
                                  THEN "COMPLETED" ELSE "COMPLETED_ERROR"]
    ELSE [cmd[o] EXCEPT !.comp.status = "FAILED",
                        !.state = "COMPLETED_ERROR"]

(* A result is read while waiting for it, while waiting for the answer to  *)
(* an abort, or because the abort finds it pending (-EBUSY).               *)
RecoveryResult ==
    /\ CanRun("recovery")
    /\ task["recovery"].pc \in {"wait", "abortcheck", "abortwait"}
    /\ ResultPending(portal)
    /\ LET o == task["recovery"].obj IN
        /\ cmd' = [cmd EXCEPT ![o] = Applied(o, portal.result)]
        /\ completionQ' = PutOrKeep(completionQ, PoolSize, o)
    /\ AssertRoom(completionQ, PoolSize, "completion")
    /\ portal' = ResultAck(portal)
    /\ Release("recovery")
    /\ UNCHANGED <<now, seq, bootGen, pool, validationQ, readyQ, ready,
                   runningQ, done, linkVars>>

(* vams_scheduler_begin_abort: the deadline passed without a result. *)
RecoveryExpire ==
    /\ CanRun("recovery")
    /\ At("recovery", "wait")
    /\ ~ResultPending(portal)
    /\ LET o == task["recovery"].obj IN
        /\ now >= cmd[o].deadline
        /\ cmd' = [cmd EXCEPT ![o].state = "ABORTING",
                              ![o].comp.status = "TIMED_OUT"]
    /\ Goto("recovery", "abortcheck")
    /\ UNCHANGED <<now, seq, bootGen, pool, validationQ, readyQ, ready,
                   runningQ, completionQ, halted, done, portal, linkVars>>

(* vams_command_abort *)
AbortCheck ==
    /\ CanRun("recovery")
    /\ At("recovery", "abortcheck")
    /\ ~ResultPending(portal)
    /\ Goto("recovery", "abortwrite")
    /\ UNCHANGED <<now, seq, bootGen, pool, cmd, validationQ, readyQ, ready,
                   runningQ, completionQ, halted, done, portal, linkVars>>

AbortWrite ==
    /\ CanRun("recovery")
    /\ At("recovery", "abortwrite")
    /\ portal' = WriteWindow(portal, cmd[task["recovery"].obj].comp)
    /\ Goto("recovery", "abortring")
    /\ UNCHANGED <<now, seq, bootGen, pool, cmd, validationQ, readyQ, ready,
                   runningQ, completionQ, halted, done, linkVars>>

AbortRing ==
    /\ CanRun("recovery")
    /\ At("recovery", "abortring")
    /\ Len(up) < MaxLink
    /\ up' = IF AbortSent(portal, connected)
             THEN Append(up, portal.window) ELSE up
    /\ Goto("recovery", "abortwait")
    /\ UNCHANGED <<now, seq, bootGen, pool, cmd, validationQ, readyQ, ready,
                   runningQ, completionQ, halted, done, portal, down,
                   connected>>

(* Mutant: the abort is awaited with K_FOREVER. *)
EscalateNever == FALSE

(* Mutant: after the escalation the manager goes on with the command. *)
EscalateAndKeep ==
    /\ CanRun("recovery")
    /\ At("recovery", "abortwait")
    /\ ~ResultPending(portal)
    /\ completionQ' = PutOrKeep(completionQ, PoolSize, task["recovery"].obj)
    /\ AssertRoom(completionQ, PoolSize, "completion")
    /\ Goto("recovery", "wait")
    /\ UNCHANGED <<now, seq, bootGen, pool, cmd, validationQ, readyQ, ready,
                   runningQ, done, portal, linkVars>>

(* No answer within VAMS_ABORT_ACK_TIMEOUT_MS: vams_scheduler_escalate. *)
RecoveryEscalate ==
    /\ CanRun("recovery")
    /\ At("recovery", "abortwait")
    /\ ~ResultPending(portal)
    /\ LET o == task["recovery"].obj IN
        /\ cmd' = [cmd EXCEPT ![o].state = "COMPLETED_ERROR",
                              ![o].comp.status = "FAILED"]
        /\ completionQ' = PutOrKeep(completionQ, PoolSize, o)
    /\ AssertRoom(completionQ, PoolSize, "completion")
    /\ Release("recovery")
    /\ UNCHANGED <<now, seq, bootGen, pool, validationQ, readyQ, ready,
                   runningQ, done, portal, linkVars>>

-----------------------------------------------------------------------------
(* The management device on its own, and the clock *)

PortalReceive ==
    /\ LET n == IF Len(down) < CanReceive(portal)
                THEN Len(down) ELSE CanReceive(portal)
       IN  /\ n > 0
           /\ portal' = Receive(portal, SubSeq(down, 1, n))
           /\ down' = SubSeq(down, n + 1, Len(down))
    /\ UNCHANGED <<fwVars, up, connected>>

(* vams_reset_ack_timeout *)
ResetAckTimeout ==
    /\ portal.ackExpected
    /\ portal' = FinishReset(portal)
    /\ UNCHANGED <<fwVars, linkVars>>

(* vams_watchdog_expired.  The health monitor withholds the pet whenever a *)
(* task makes no progress, so the model lets the watchdog expire any time; *)
(* but a pending reset has its timer deleted, and the reset that ends it   *)
(* starts the timer again long before the CPU reset is performed.          *)
WatchdogExpire ==
    /\ Len(up) < MaxLink
    /\ ~portal.resetPending /\ ~portal.reboot
    /\ portal' = ManagementReset(portal, connected)
    /\ up' = IF NoticeSent(portal, connected)
             THEN Append(up, ResetNotice(portal)) ELSE up
    /\ UNCHANGED <<fwVars, down, connected>>

(* The requested CPU reset is performed and main() runs again: the pool,   *)
(* the queues and the tasks start over; the device keeps its state.        *)
CpuReset ==
    /\ portal.reboot
    /\ portal' = [portal EXCEPT !.reboot = FALSE]
    /\ now' = 0
    /\ seq' = 0
    /\ bootGen' = portal.gen
    /\ pool' = Objects
    /\ cmd' = [o \in Objects |-> FreeObject]
    /\ validationQ' = << >>
    /\ readyQ' = << >>
    /\ ready' = {}
    /\ runningQ' = << >>
    /\ completionQ' = << >>
    /\ task' = [t \in Tasks |-> [pc |-> "idle", obj |-> None]]
    /\ halted' = "no"
    /\ done' = {}
    /\ UNCHANGED linkVars

Tick ==
    /\ now < MaxTime
    /\ now' = now + 1
    /\ UNCHANGED <<seq, bootGen, pool, cmd, validationQ, readyQ, ready,
                   runningQ, completionQ, task, halted, done, portal,
                   linkVars>>

Receiver == ReceiverAdmit

Validator == ValidatorReject \/ ValidatorAccept

Scheduler ==
    \/ SchedulerPick \/ SchedulerExpire \/ SchedulerNop \/ SchedulerRun
    \/ PublishRetry("scheduler") \/ PublishTimeout("scheduler")
    \/ PublishWrite("scheduler") \/ SchedulerRing

Recovery ==
    \/ RecoveryTake \/ RecoveryResult \/ RecoveryExpire \/ AbortCheck
    \/ AbortWrite \/ AbortRing \/ RecoveryEscalate

CompletionTask ==
    \/ CompletionTake \/ PublishRetry("completion")
    \/ PublishTimeout("completion") \/ PublishWrite("completion")
    \/ CompletionRing

Firmware == Receiver \/ Validator \/ Scheduler \/ Recovery \/ CompletionTask

Device ==
    \/ ResetAckTimeout
    \/ "watchdog" \in Faults /\ WatchdogExpire
    \/ CpuReset

-----------------------------------------------------------------------------
(* The peer at the other end of the stream is left open: it may send any   *)
(* submission while the portal takes one and any completion while the      *)
(* portal takes one, take what it is sent at any time, and go away and     *)
(* come back.  What it sends reaches the portal at once.                   *)
PeerSubmit ==
    /\ connected /\ portal.rx = << >> /\ CanReceive(portal) = 2
    /\ \E s \in PeerSubmissions :
          portal' = Receive(portal, SubmissionUnits(s))
    /\ UNCHANGED <<fwVars, linkVars>>

PeerReply ==
    /\ connected /\ portal.rx = << >> /\ CanReceive(portal) = 1
    /\ \E s \in PeerSubmissions, st \in PeerStatus :
          portal' = Receive(portal, <<CompletionUnit(MakeCompletion(s.id, st))>>)
    /\ UNCHANGED <<fwVars, linkVars>>

(* Bytes that are not what the portal takes them for. *)
PeerGarbage ==
    /\ "garbage" \in Faults
    /\ connected /\ portal.rx = << >> /\ CanReceive(portal) > 0
    /\ LET s == SubmissionUnits(GarbageSubmission)
       IN  portal' = Receive(portal, SubSeq(s, 1, CanReceive(portal)))
    /\ UNCHANGED <<fwVars, linkVars>>

PeerTake ==
    /\ up # << >>
    /\ up' = Tail(up)
    /\ UNCHANGED <<fwVars, portal, down, connected>>

Disconnect ==
    /\ "disconnect" \in Faults
    /\ connected
    /\ up' = << >> /\ down' = << >> /\ connected' = FALSE
    /\ UNCHANGED <<fwVars, portal>>

Connect ==
    /\ ~connected
    /\ connected' = TRUE
    /\ UNCHANGED <<fwVars, portal, up, down>>

Peer ==
    \/ PeerSubmit \/ PeerReply \/ PeerGarbage \/ PeerTake
    \/ Disconnect \/ Connect

Next == Firmware \/ Device \/ Tick \/ Peer

Spec == Init /\ [][Next]_vars

(* Each task is scheduled again and again, time passes, the socket accepts *)
(* what is written to it, and the device's timers and a requested CPU      *)
(* reset take place.  A firmware that stopped on an assertion no longer    *)
(* pets the watchdog.  Nothing is assumed of what the peer sends.          *)
FairSpec ==
    /\ Spec
    /\ WF_vars(Receiver) /\ WF_vars(Validator) /\ WF_vars(Scheduler)
    /\ WF_vars(Recovery) /\ WF_vars(CompletionTask)
    /\ WF_vars(Tick) /\ WF_vars(PeerTake)
    /\ WF_vars(ResetAckTimeout) /\ WF_vars(CpuReset)
    /\ WF_vars(halted # "no" /\ WatchdogExpire)

-----------------------------------------------------------------------------
(* Properties *)

(* Every variable has the shape the code gives it. *)
TypeOK ==
    /\ now \in Nat /\ seq \in Nat /\ bootGen \in Nat
    /\ pool \subseteq Objects
    /\ cmd \in [Objects -> Object]
    /\ validationQ \in Seq(Objects) /\ readyQ \in Seq(Objects)
    /\ ready \subseteq Objects
    /\ runningQ \in Seq(Objects) /\ completionQ \in Seq(Objects)
    /\ task \in [Tasks -> [pc : TaskPC, obj : Objects \cup {None}]]
    /\ halted \in Queues
    /\ done \subseteq Nat
    /\ portal \in PortalState
    /\ LinkTypeOK

Holds(t) == {task[t].obj} \cap Objects

Injective(q) == \A i, j \in 1 .. Len(q) : q[i] = q[j] => i = j

(* The places a block of the pool can be in, and the blocks in each. *)
Places == {"pool", "validationQ", "readyQ", "ready", "runningQ", "completionQ",
           "scheduler", "recovery", "completion"}

Placed ==
    [w \in Places |->
        CASE w = "pool" -> pool
          [] w = "validationQ" -> InQueue(validationQ)
          [] w = "readyQ" -> InQueue(readyQ)
          [] w = "ready" -> ready
          [] w = "runningQ" -> InQueue(runningQ)
          [] w = "completionQ" -> InQueue(completionQ)
          [] OTHER -> Holds(w)]

(* Every block of the pool is in exactly one place: free, in one queue, in *)
(* the scheduler's array, or in the hands of one task.  None is in two     *)
(* task queues and none leaks, until a failed assertion stops the firmware.*)
OneOwner ==
    /\ Injective(validationQ) /\ Injective(readyQ)
    /\ Injective(runningQ) /\ Injective(completionQ)
    /\ \A v, w \in Places : v # w => Placed[v] \cap Placed[w] = {}
    /\ halted = "no" => \A o \in Objects : \E w \in Places : o \in Placed[w]

(* The state of an object is the one its owner's transition expects, so no *)
(* vams_scheduler_transition assertion can fail, and the completion task   *)
(* only ever publishes a terminal command.                                 *)
StateFitsOwner ==
    /\ \A o \in pool : cmd[o].state = "FREE"
    /\ \A o \in InQueue(validationQ) : cmd[o].state = "SUBMITTED"
    /\ \A o \in InQueue(readyQ) \cup ready : cmd[o].state = "QUEUED"
    /\ \A o \in InQueue(runningQ) : cmd[o].state = "RUNNING"
    /\ \A o \in InQueue(completionQ) \cup Holds("completion") :
          cmd[o].state \in Terminal
    /\ \A o \in Holds("scheduler") :
          cmd[o].state = IF At("scheduler", "picked") THEN "QUEUED"
                         ELSE "RUNNING"
    /\ \A o \in Holds("recovery") :
          cmd[o].state = IF At("recovery", "wait") THEN "RUNNING"
                         ELSE "ABORTING"

(* Every command captured since boot is either in exactly one live object  *)
(* or has been published exactly once: nothing is lost or published twice  *)
(* on the way through the queues, timeouts, aborts and escalations.        *)
Conserved ==
    LET live == Objects \ pool
    IN  /\ \A o, p \in live : cmd[o].seq = cmd[p].seq => o = p
        /\ \A o \in live : cmd[o].seq \notin done
        /\ {cmd[o].seq : o \in live} \cup done = 1 .. seq

(* What the completion task publishes for a command carries that command's *)
(* identity, and reports success only if the command completed: a result   *)
(* that belongs to another command never becomes this one's outcome.       *)
OutcomeIsOwn ==
    \A o \in InQueue(completionQ) \cup Holds("completion") :
        /\ cmd[o].comp.id = cmd[o].sub.id
        /\ cmd[o].comp.status = "SUCCESS" <=> cmd[o].state = "COMPLETED"

(* The puts into the validation, ready and completion queues never fail:   *)
(* each is as large as the pool.  The one put that can fail is the one     *)
(* into the single-entry running queue.                                    *)
OnlyRunningQueueOverflows == halted \in {"no", "running"}

(* The pipeline implements CommandLifecycle: through every interleaving of *)
(* the tasks, a command object goes along the documented transitions only, *)
(* and each captured command is published once and only when terminal.     *)
Lifecycle == INSTANCE CommandLifecycle WITH
                 life <- [o \in Objects |-> [state |-> cmd[o].state,
                                            seq |-> cmd[o].seq]],
                 captured <- seq,
                 published <- done

ImplementsLifecycle == Lifecycle!Spec

(* The command the scheduler takes is the most urgent of all queued ones,  *)
(* those that arrived while it was busy included.                          *)
EarliestDeadlineFirst ==
    [][\A o \in Objects :
          (o \in Holds("scheduler")' /\ o \notin Holds("scheduler")) =>
             \A p \in Objects \ {o} :
                 cmd[p].state = "QUEUED" => Precedes(o, p)]_vars

(* No command object is retained forever: whatever the engine, the peer    *)
(* and the link do, the block returns to the pool.                         *)
NoObjectRetained == \A o \in Objects : (o \notin pool) ~> (o \in pool)
=============================================================================
