--------------------------- MODULE DriverRequests ---------------------------
(***************************************************************************)
(* The Linux driver's requests (kernel/vams_pci.c): how a command gets     *)
(* from an ioctl into the SQ, how the CQ interrupt, the polling worker and *)
(* the submitters share the draining of the CQ, how a reset cancels what   *)
(* it made stale, how callers wait, poll and reap, and how closing the     *)
(* file and removing the device end it all.                                *)
(*                                                                         *)
(* Contexts run on different CPUs and are interleaved at the locks: a step *)
(* is what a context does without giving up or taking a lock, and shorter  *)
(* where another context can see between (complete_all and the readiness   *)
(* counter behind it).  The endpoint is reduced to what the driver sees of *)
(* it; it is reset from outside the driver, as the UAPI test does through  *)
(* the BAR.  It serves one command at a time and is never enabled again:   *)
(* only vams_probe configures the queues.                                  *)
(*                                                                         *)
(* Abstractions.  A request is named by its command id; ids are not reused.*)
(* One file is open; a NOP may come from any file.  The checks of an       *)
(* ioctl's arguments, the pinning of pages and DMA addresses are left out, *)
(* and so is the test build.                                               *)
(***************************************************************************)
EXTENDS Integers, FiniteSetsExt

CONSTANTS
    Requests, Buffers, Waiters,
    NoBuffer, NoRequest,
    QueueDepth,       \* VAMS_QUEUE_DEPTH
    MaxResets,        \* bound on the resets from outside
    Outside,          \* what happens outside the driver in this instance
    IrqShares         \* the CQ vector may fire on a CPU that holds cq_lock

ASSUME DriverAssumption ==
    /\ NoBuffer \notin Buffers /\ NoRequest \notin Requests
    /\ QueueDepth \in Nat \ {0, 1} /\ MaxResets \in Nat
    /\ Outside \subseteq {"queue", "device", "engine", "unmask", "drop",
                          "fault", "close", "remove"}
    /\ IrqShares \in BOOLEAN

VARIABLES
    req,       \* struct vams_request, and where its caller is
    maps,      \* struct vams_mapping
    file,      \* struct vams_file
    drv,       \* struct vams_device
    cq,        \* cq_lock and the locals of vams_drain_cq
    irq,       \* the CQ interrupt handler
    poll,      \* cq_poll_work
    work,      \* reset_work
    cancel,    \* the locals of vams_cancel_requests
    wait,      \* callers of VAMS_IOCTL_WAIT
    remove,    \* vams_remove
    dev,       \* the endpoint
    reaped     \* history: how often a command was reaped

vars == <<req, maps, file, drv, cq, irq, poll, work, cancel, wait, remove, dev,
          reaped>>

Slots == 0 .. QueueDepth - 1
Succ(i) == (i + 1) % QueueDepth

NewRequest ==
    [call |-> "idle", owned |-> FALSE, source |-> NoBuffer,
     destination |-> NoBuffer, tracked |-> FALSE, filed |-> FALSE,
     done |-> FALSE, status |-> "none", gen |-> 0, refs |-> 0]

Init ==
    /\ req = [r \in Requests |-> NewRequest]
    /\ maps = [b \in Buffers |-> [handle |-> FALSE, refs |-> 0]]
    /\ file = [open |-> TRUE, refs |-> 1, completed |-> 0, lock |-> FALSE]
    /\ drv = [ready |-> TRUE, removing |-> FALSE, gen |-> 0, reason |-> "none",
              pending |-> 0, sqTail |-> 0, cqHead |-> 0, lock |-> FALSE,
              sq |-> [i \in Slots |-> NoRequest]]
    /\ cq = [by |-> "none", tail |-> 0, cur |-> NoRequest, drained |-> FALSE]
    /\ irq = "idle"
    /\ poll = [queued |-> FALSE, pc |-> "idle", gen |-> 0, reason |-> "none"]
    /\ work = [queued |-> FALSE, running |-> FALSE]
    /\ cancel = [pc |-> "off", left |-> {}, cur |-> NoRequest]
    /\ wait = [w \in Waiters |-> [pc |-> "idle", r |-> NoRequest]]
    /\ remove = "no"
    /\ dev = [on |-> TRUE, gen |-> 0, reason |-> "none", sqHead |-> 0,
              sqTail |-> 0, cqHead |-> 0, cqTail |-> 0, active |-> NoRequest,
              cq |-> [i \in Slots |-> NoRequest], intr |-> FALSE, mask |-> FALSE,
              msi |-> FALSE, resetDone |-> FALSE]
    /\ reaped = [r \in Requests |-> 0]

-----------------------------------------------------------------------------
(* References *)

Uses(q, b) == (IF q.source = b THEN 1 ELSE 0) + (IF q.destination = b THEN 1 ELSE 0)

(* vams_request_put, n times, of request r as it stands in rq; f is the    *)
(* file as the step leaves it otherwise                                    *)
RequestPut(rq, r, n, f) ==
    LET last == rq[r].refs = n
    IN  /\ req' = [rq EXCEPT ![r].refs = @ - n]
        /\ maps' = [b \in Buffers |-> [maps[b] EXCEPT
                       !.refs = IF last THEN @ - Uses(rq[r], b) ELSE @]]
        /\ file' = IF last /\ rq[r].owned THEN [f EXCEPT !.refs = @ - 1] ELSE f

(* A failed submission gives back what vams_request_alloc and the lookups  *)
(* of the mappings took; the id goes to nobody.                            *)
RequestAbandon(r, f) ==
    /\ req' = [req EXCEPT ![r] = NewRequest]
    /\ maps' = [b \in Buffers |-> [maps[b] EXCEPT !.refs = @ - Uses(req[r], b)]]
    /\ file' = IF req[r].owned THEN [f EXCEPT !.refs = @ - 1, !.lock = FALSE]
               ELSE f

Mapped(b) == maps[b].refs > 0

-----------------------------------------------------------------------------
(* Registers of the endpoint *)

(* vams_pcie_raise_interrupt for the CQ source; a fault of the debug build *)
(* drops the message                                                       *)
RaiseCq(d, drop) ==
    [d EXCEPT !.intr = TRUE, !.msi = @ \/ (~d.intr /\ ~d.mask /\ ~drop)]

(* a write of the CQ bit to INTR_STATUS; an entry that came in meanwhile   *)
(* raises it again                                                         *)
ClearCq(d) ==
    LET cleared == [d EXCEPT !.intr = FALSE]
    IN  IF d.cqHead # d.cqTail THEN RaiseCq(cleared, FALSE) ELSE cleared

SqDoorbell(d, tail) == IF d.on THEN [d EXCEPT !.sqTail = tail] ELSE d

CqDoorbell(d, head) == IF d.on THEN [d EXCEPT !.cqHead = head] ELSE d

(* Mutant: the descriptor in service is not given up. *)
QueueResetKeeps(d) ==
    [d EXCEPT !.on = FALSE, !.sqHead = 0, !.sqTail = 0, !.cqHead = 0,
              !.cqTail = 0, !.intr = FALSE, !.gen = @ + 1, !.reason = "queue"]

(* vams_pcie_queue_reset; the descriptor in service is given up *)
QueueReset(d) ==
    [d EXCEPT !.on = FALSE, !.sqHead = 0, !.sqTail = 0, !.cqHead = 0,
              !.cqTail = 0, !.active = NoRequest, !.intr = FALSE,
              !.gen = @ + 1, !.reason = "queue"]

(* vams_pcie_device_reset and vams_pcie_reset_complete: every interrupt is *)
(* masked when RESET_DONE is raised                                        *)
DeviceReset(d) ==
    [QueueReset(d) EXCEPT !.reason = "device", !.mask = TRUE,
                          !.resetDone = TRUE]

-----------------------------------------------------------------------------
(* Draining the CQ *)

(* vams_finish_request and one request of vams_cancel_requests, up to      *)
(* complete_all: the caller that erases the request owns its completion.   *)
Complete(r, status) ==
    [req EXCEPT ![r].tracked = FALSE, ![r].done = TRUE, ![r].status = status]

(* ... and the rest of both: the readiness counter, the pending count and  *)
(* the reference of the device's table                                     *)
AfterComplete(r) ==
    /\ RequestPut(req, r, 1,
          IF req[r].owned /\ file.open
          THEN [file EXCEPT !.completed = @ + 1] ELSE file)
    /\ drv' = [drv EXCEPT !.pending = @ - 1]

(* vams_drain_cq, entered by "who" *)
DrainEnter(who) ==
    /\ cq.by = "none"
    /\ cq' = [by |-> who, tail |-> dev.cqTail, cur |-> NoRequest,
              drained |-> FALSE]

DrainRunning == cq.by # "none" /\ irq # "stalled"

(* one entry; an id nobody tracks is only reported *)
DrainEntry ==
    LET r == dev.cq[drv.cqHead] IN
    /\ DrainRunning
    /\ cq.cur = NoRequest
    /\ drv.cqHead # cq.tail
    /\ drv' = [drv EXCEPT !.cqHead = Succ(@)]
    /\ IF r # NoRequest /\ req[r].tracked
       THEN /\ req' = Complete(r, "device")
            /\ cq' = [cq EXCEPT !.cur = r, !.drained = TRUE]
       ELSE /\ cq' = [cq EXCEPT !.drained = TRUE]
            /\ UNCHANGED req
    /\ UNCHANGED <<maps, file, irq, poll, work, cancel, wait, remove, dev, reaped>>

DrainFinish ==
    /\ DrainRunning
    /\ cq.cur # NoRequest
    /\ AfterComplete(cq.cur)
    /\ cq' = [cq EXCEPT !.cur = NoRequest]
    /\ UNCHANGED <<irq, poll, work, cancel, wait, remove, dev, reaped>>

(* the doorbell and the end of the drain; what the context does next *)
DrainLeave ==
    /\ DrainRunning
    /\ cq.cur = NoRequest
    /\ drv.cqHead = cq.tail
    /\ cq' = [cq EXCEPT !.by = "none"]
    /\ dev' = LET d == IF cq.drained THEN CqDoorbell(dev, drv.cqHead) ELSE dev
              IN  IF cq.by = "irq" THEN ClearCq(d) ELSE d
    /\ irq' = IF cq.by = "irq" THEN "idle" ELSE irq
    /\ poll' = IF cq.by = "poll" THEN [poll EXCEPT !.pc = "rearm"] ELSE poll
    /\ req' = [r \in Requests |->
                 IF cq.by = "submit" /\ req[r].call = "drain"
                 THEN [req[r] EXCEPT !.call = "track"] ELSE req[r]]
    /\ UNCHANGED <<maps, file, drv, work, cancel, wait, remove, reaped>>

-----------------------------------------------------------------------------
(* The CQ interrupt.  cq_lock is a plain spinlock: if the interrupt comes  *)
(* to the CPU whose task holds it, neither can go on.                      *)

IrqFreed == remove \in {"cancel", "gone"}

CqIrq ==
    /\ dev.msi /\ irq = "idle" /\ ~IrqFreed
    /\ LET d == [dev EXCEPT !.msi = FALSE] IN
       IF ~dev.intr THEN dev' = d /\ UNCHANGED irq
       ELSE IF ~drv.ready THEN dev' = ClearCq(d) /\ UNCHANGED irq
       ELSE /\ dev' = d
            /\ \/ irq' = "spin"
               \/ IrqShares /\ cq.by # "none" /\ irq' = "stalled"
    /\ UNCHANGED <<req, maps, file, drv, cq, poll, work, cancel, wait, remove, reaped>>

CqIrqDrain ==
    /\ irq = "spin"
    /\ DrainEnter("irq")
    /\ irq' = "drain"
    /\ UNCHANGED <<req, maps, file, drv, poll, work, cancel, wait, remove, dev, reaped>>

-----------------------------------------------------------------------------
(* Observing a reset, polling *)

(* vams_observe_reset for what was read from the device *)
ObserveReset(gen, reason) ==
    IF gen = drv.gen THEN UNCHANGED <<drv, work>>
    ELSE /\ drv' = [drv EXCEPT !.gen = gen, !.reason = reason]
         /\ work' = [work EXCEPT !.queued = TRUE]

(* vams_async_irq *)
AsyncIrq ==
    /\ dev.resetDone /\ ~dev.mask /\ ~IrqFreed
    /\ ObserveReset(dev.gen, dev.reason)
    /\ dev' = [dev EXCEPT !.resetDone = FALSE]
    /\ UNCHANGED <<req, maps, file, cq, irq, poll, cancel, wait, remove, reaped>>

(* vams_cq_poll_work *)
PollStart ==
    /\ poll.queued /\ poll.pc = "idle"
    /\ poll' = [queued |-> FALSE, gen |-> dev.gen, reason |-> dev.reason,
                pc |-> IF drv.removing THEN "idle" ELSE "observe"]
    /\ UNCHANGED <<req, maps, file, drv, cq, irq, work, cancel, wait, remove, dev,
                   reaped>>

PollObserve ==
    /\ poll.pc = "observe"
    /\ ObserveReset(poll.gen, poll.reason)
    /\ poll' = [poll EXCEPT !.pc = IF drv.ready THEN "enter" ELSE "rearm"]
    /\ UNCHANGED <<req, maps, file, cq, irq, cancel, wait, remove, dev, reaped>>

PollDrain ==
    /\ poll.pc = "enter"
    /\ DrainEnter("poll")
    /\ poll' = [poll EXCEPT !.pc = "drain"]
    /\ UNCHANGED <<req, maps, file, drv, irq, work, cancel, wait, remove, dev, reaped>>

(* Mutant: the worker is left to the next submission. *)
PollRearmNever ==
    /\ poll.pc = "rearm"
    /\ poll' = [poll EXCEPT !.pc = "idle", !.gen = 0, !.reason = "none"]
    /\ UNCHANGED <<req, maps, file, drv, cq, irq, work, cancel, wait, remove, dev,
                   reaped>>

PollRearm ==
    /\ poll.pc = "rearm"
    /\ poll' = [queued |-> poll.queued \/ drv.pending > 0, pc |-> "idle",
                gen |-> 0, reason |-> "none"]
    /\ UNCHANGED <<req, maps, file, drv, cq, irq, work, cancel, wait, remove, dev,
                   reaped>>

-----------------------------------------------------------------------------
(* Cancelling requests *)

Tracked == {r \in Requests : req[r].tracked}

CancelStart == [pc |-> "walk", left |-> Tracked, cur |-> NoRequest]

(* vams_reset_work, up to the loop over the requests *)
ResetWork ==
    /\ work.queued /\ ~work.running /\ ~drv.lock
    /\ IF drv.removing
       THEN work' = [work EXCEPT !.queued = FALSE] /\ UNCHANGED <<drv, cancel>>
       ELSE /\ work' = [queued |-> FALSE, running |-> TRUE]
            /\ drv' = [drv EXCEPT !.lock = TRUE,
                          !.ready = @ /\ drv.reason \notin {"device", "queue"}]
            /\ cancel' = CancelStart
    /\ UNCHANGED <<req, maps, file, cq, irq, poll, wait, remove, dev, reaped>>

CancelLoad ==
    /\ cancel.pc = "walk"
    /\ \E r \in cancel.left \cap Tracked :
         cancel' = [pc |-> "loaded", left |-> cancel.left \ {r}, cur |-> r]
    /\ UNCHANGED <<req, maps, file, drv, cq, irq, poll, work, wait, remove, dev, reaped>>

(* reset_work keeps the requests of the current generation, vams_remove none *)
Keep(r) == work.running /\ req[r].gen = drv.gen

(* Mutant: the request that was looked at is completed although another    *)
(* context has taken it out of the table.                                  *)
CancelEraseLoaded ==
    /\ cancel.pc = "loaded"
    /\ IF ~Keep(cancel.cur)
       THEN /\ req' = Complete(cancel.cur,
                         IF work.running THEN "ECANCELED" ELSE "ENODEV")
            /\ cancel' = [cancel EXCEPT !.pc = "erased"]
       ELSE /\ cancel' = [cancel EXCEPT !.pc = "walk", !.cur = NoRequest]
            /\ UNCHANGED req
    /\ UNCHANGED <<maps, file, drv, cq, irq, poll, work, wait, remove, dev, reaped>>

CancelErase ==
    /\ cancel.pc = "loaded"
    /\ IF req[cancel.cur].tracked /\ ~Keep(cancel.cur)
       THEN /\ req' = Complete(cancel.cur,
                         IF work.running THEN "ECANCELED" ELSE "ENODEV")
            /\ cancel' = [cancel EXCEPT !.pc = "erased"]
       ELSE /\ cancel' = [cancel EXCEPT !.pc = "walk", !.cur = NoRequest]
            /\ UNCHANGED req
    /\ UNCHANGED <<maps, file, drv, cq, irq, poll, work, wait, remove, dev, reaped>>

CancelFinish ==
    /\ cancel.pc = "erased"
    /\ AfterComplete(cancel.cur)
    /\ cancel' = [cancel EXCEPT !.pc = "walk", !.cur = NoRequest]
    /\ UNCHANGED <<cq, irq, poll, work, wait, remove, dev, reaped>>

CancelEnd ==
    /\ cancel.pc = "walk"
    /\ cancel.left \cap Tracked = {}
    /\ cancel' = [pc |-> "off", left |-> {}, cur |-> NoRequest]
    /\ IF work.running
       THEN /\ work' = [work EXCEPT !.running = FALSE]
            /\ drv' = [drv EXCEPT !.lock = FALSE]
            /\ UNCHANGED remove
       ELSE remove' = "gone" /\ UNCHANGED <<drv, work>>
    /\ UNCHANGED <<req, maps, file, cq, irq, poll, wait, dev, reaped>>

-----------------------------------------------------------------------------
(* Buffers *)

BufferRegister(b) ==
    /\ file.open /\ ~file.lock /\ ~drv.lock /\ ~drv.removing
    /\ maps[b].refs = 0
    /\ maps' = [maps EXCEPT ![b] = [handle |-> TRUE, refs |-> 1]]
    /\ UNCHANGED <<req, file, drv, cq, irq, poll, work, cancel, wait, remove, dev,
                   reaped>>

(* Mutant: a mapping in use is unregistered. *)
UnregisterBusy(b) ==
    /\ file.open /\ ~file.lock /\ maps[b].handle
    /\ maps' = [maps EXCEPT ![b] = [handle |-> FALSE, refs |-> 0]]
    /\ UNCHANGED <<req, file, drv, cq, irq, poll, work, cancel, wait, remove, dev,
                   reaped>>

(* -EBUSY while a request refers to the mapping *)
BufferUnregister(b) ==
    /\ file.open /\ ~file.lock /\ maps[b].handle
    /\ maps[b].refs = 1
    /\ maps' = [maps EXCEPT ![b] = [handle |-> FALSE, refs |-> 0]]
    /\ UNCHANGED <<req, file, drv, cq, irq, poll, work, cancel, wait, remove, dev,
                   reaped>>

-----------------------------------------------------------------------------
(* Submitting *)

(* VAMS_IOCTL_SUBMIT up to vams_submit, under the lock of the file: the    *)
(* request refers to its mappings and to its file.                         *)
Submit(r) ==
    /\ req[r].call = "idle"
    /\ file.open /\ ~file.lock
    /\ \E s, d \in {b \in Buffers : maps[b].handle} \cup {NoBuffer} :
         LET q == [NewRequest EXCEPT !.call = "lock", !.owned = TRUE, !.refs = 1,
                                     !.source = s, !.destination = d]
         IN  /\ d # NoBuffer => s # NoBuffer
             /\ req' = [req EXCEPT ![r] = q]
             /\ maps' = [b \in Buffers |->
                           [maps[b] EXCEPT !.refs = @ + Uses(q, b)]]
    /\ file' = [file EXCEPT !.lock = TRUE, !.refs = @ + 1]
    /\ UNCHANGED <<drv, cq, irq, poll, work, cancel, wait, remove, dev, reaped>>

(* VAMS_IOCTL_NOP up to vams_submit *)
SubmitNop(r) ==
    /\ req[r].call = "idle"
    /\ req' = [req EXCEPT ![r].call = "lock", ![r].refs = 1]
    /\ UNCHANGED <<maps, file, drv, cq, irq, poll, work, cancel, wait, remove, dev,
                   reaped>>

(* vams_submit takes submit_lock *)
SubmitLock(r) ==
    /\ req[r].call = "lock" /\ ~drv.lock
    /\ IF drv.removing \/ ~drv.ready
       THEN RequestAbandon(r, file) /\ UNCHANGED drv
       ELSE /\ req' = [req EXCEPT ![r].call = "enter"]
            /\ drv' = [drv EXCEPT !.lock = TRUE]
            /\ UNCHANGED <<maps, file>>
    /\ UNCHANGED <<cq, irq, poll, work, cancel, wait, remove, dev, reaped>>

SubmitDrain(r) ==
    /\ req[r].call = "enter"
    /\ DrainEnter("submit")
    /\ req' = [req EXCEPT ![r].call = "drain"]
    /\ UNCHANGED <<maps, file, drv, irq, poll, work, cancel, wait, remove, dev, reaped>>

(* -EAGAIN if the SQ is full, -ENOMEM; else vams_track_request and the     *)
(* descriptor.  The allocation's reference becomes the file's.             *)
SubmitTrack(r) ==
    /\ req[r].call = "track"
    /\ \/ /\ Succ(drv.sqTail) = dev.sqHead \/ "fault" \in Outside
          /\ RequestAbandon(r, file)
          /\ drv' = [drv EXCEPT !.lock = FALSE]
       \/ /\ Succ(drv.sqTail) # dev.sqHead
          /\ req' = [req EXCEPT ![r].call = "publish", ![r].tracked = TRUE,
                                ![r].filed = req[r].owned, ![r].refs = @ + 1]
          /\ drv' = [drv EXCEPT !.sq[drv.sqTail] = r]
          /\ UNCHANGED <<maps, file>>
    /\ UNCHANGED <<cq, irq, poll, work, cancel, wait, remove, dev, reaped>>

(* the section under reset_lock *)
SubmitPublish(r) ==
    /\ req[r].call = "publish"
    /\ req' = [req EXCEPT ![r].call = "schedule", ![r].gen = drv.gen]
    /\ drv' = [drv EXCEPT !.pending = @ + 1, !.sqTail = Succ(@)]
    /\ dev' = SqDoorbell(dev, Succ(drv.sqTail))
    /\ UNCHANGED <<maps, file, cq, irq, poll, work, cancel, wait, remove, reaped>>

SubmitSchedule(r) ==
    /\ req[r].call = "schedule"
    /\ poll' = [poll EXCEPT !.queued = @ \/ drv.pending > 0]
    /\ drv' = [drv EXCEPT !.lock = FALSE]
    /\ req' = [req EXCEPT ![r].call = IF req[r].owned THEN "return" ELSE "wait"]
    /\ UNCHANGED <<maps, file, cq, irq, work, cancel, wait, remove, dev, reaped>>

Decrement(n) == IF n > 0 THEN n - 1 ELSE 0

(* Mutant: whoever disowns a request takes one off the readiness counter,  *)
(* terminal or not.                                                        *)
SubmitReturnUncounted(r) ==
    /\ req[r].call = "return"
    /\ \/ /\ req' = [req EXCEPT ![r].call = "over"]
          /\ file' = [file EXCEPT !.lock = FALSE]
          /\ UNCHANGED maps
       \/ /\ "fault" \in Outside
          /\ RequestPut([req EXCEPT ![r].call = "over", ![r].filed = FALSE], r, 1,
                [file EXCEPT !.lock = FALSE, !.completed = Decrement(@)])
    /\ UNCHANGED <<drv, cq, irq, poll, work, cancel, wait, remove, dev, reaped>>

(* the id is copied to the caller, or the request is disowned *)
SubmitReturn(r) ==
    /\ req[r].call = "return"
    /\ \/ /\ req' = [req EXCEPT ![r].call = "over"]
          /\ file' = [file EXCEPT !.lock = FALSE]
          /\ UNCHANGED maps
       \/ /\ "fault" \in Outside
          /\ RequestPut([req EXCEPT ![r].call = "over", ![r].filed = FALSE], r, 1,
                [file EXCEPT !.lock = FALSE, !.completed =
                                IF req[r].done THEN Decrement(@) ELSE @])
    /\ UNCHANGED <<drv, cq, irq, poll, work, cancel, wait, remove, dev, reaped>>

(* the NOP is done, or its caller was interrupted or has waited a second *)
NopReturn(r) ==
    /\ req[r].call = "wait"
    /\ RequestPut([req EXCEPT ![r].call = "over"], r, 1, file)
    /\ UNCHANGED <<drv, cq, irq, poll, work, cancel, wait, remove, dev, reaped>>

-----------------------------------------------------------------------------
(* Waiting and reaping *)

WaitGet(w) ==
    /\ wait[w].pc = "idle" /\ ~file.lock
    /\ \E r \in Requests :
         /\ req[r].filed
         /\ req' = [req EXCEPT ![r].refs = @ + 1]
         /\ wait' = [wait EXCEPT ![w] = [pc |-> "got", r |-> r]]
    /\ UNCHANGED <<maps, file, drv, cq, irq, poll, work, cancel, remove, dev, reaped>>

(* -EAGAIN, -ETIMEDOUT or a signal *)
WaitGiveUp(w) ==
    /\ wait[w].pc = "got"
    /\ RequestPut(req, wait[w].r, 1, file)
    /\ wait' = [wait EXCEPT ![w] = [pc |-> "idle", r |-> NoRequest]]
    /\ UNCHANGED <<drv, cq, irq, poll, work, cancel, remove, dev, reaped>>

WaitWake(w) ==
    /\ wait[w].pc = "got" /\ req[wait[w].r].done
    /\ wait' = [wait EXCEPT ![w].pc = "woken"]
    /\ UNCHANGED <<req, maps, file, drv, cq, irq, poll, work, cancel, remove, dev,
                   reaped>>

(* Mutant: the table is not looked at again. *)
WaitReapUnchecked(w) ==
    LET r == wait[w].r IN
    /\ wait[w].pc = "woken" /\ ~file.lock
    /\ reaped' = [reaped EXCEPT ![r] = @ + 1]
    /\ RequestPut([req EXCEPT ![r].filed = FALSE], r, 2,
                  [file EXCEPT !.completed = Decrement(@)])
    /\ wait' = [wait EXCEPT ![w] = [pc |-> "idle", r |-> NoRequest]]
    /\ UNCHANGED <<drv, cq, irq, poll, work, cancel, remove, dev>>

(* -EALREADY if another caller has reaped it, -EFAULT, or the result *)
WaitReap(w) ==
    LET r == wait[w].r IN
    /\ wait[w].pc = "woken" /\ ~file.lock
    /\ \/ /\ ~req[r].filed \/ "fault" \in Outside
          /\ RequestPut(req, r, 1, file)
          /\ UNCHANGED reaped
       \/ /\ req[r].filed
          /\ reaped' = [reaped EXCEPT ![r] = @ + 1]
          /\ RequestPut([req EXCEPT ![r].filed = FALSE], r, 2,
                        [file EXCEPT !.completed = Decrement(@)])
    /\ wait' = [wait EXCEPT ![w] = [pc |-> "idle", r |-> NoRequest]]
    /\ UNCHANGED <<drv, cq, irq, poll, work, cancel, remove, dev>>

(* vams_release, once no call on the file is left *)
Close ==
    LET filed == {r \in Requests : req[r].filed}
        freed == {r \in filed : req[r].refs = 1}
    IN
    /\ "close" \in Outside
    /\ file.open /\ ~file.lock
    /\ \A w \in Waiters : wait[w].pc = "idle"
    /\ req' = [r \in Requests |->
                 IF r \in filed
                 THEN [req[r] EXCEPT !.filed = FALSE, !.refs = @ - 1]
                 ELSE req[r]]
    /\ maps' = [b \in Buffers |->
                  [handle |-> FALSE,
                   refs |-> maps[b].refs - (IF maps[b].handle THEN 1 ELSE 0)
                              - MapThenSumSet(LAMBDA r : Uses(req[r], b), freed)]]
    /\ file' = [file EXCEPT !.open = FALSE, !.refs = @ - 1 - Cardinality(freed)]
    /\ UNCHANGED <<drv, cq, irq, poll, work, cancel, wait, remove, dev, reaped>>

-----------------------------------------------------------------------------
(* vams_remove *)

RemoveStart ==
    /\ "remove" \in Outside /\ remove = "no" /\ ~drv.lock
    /\ drv' = [drv EXCEPT !.removing = TRUE]
    /\ remove' = "poll"
    /\ UNCHANGED <<req, maps, file, cq, irq, poll, work, cancel, wait, dev, reaped>>

RemovePoll ==
    /\ remove = "poll" /\ poll.pc = "idle"
    /\ poll' = [poll EXCEPT !.queued = FALSE]
    /\ remove' = "queues"
    /\ UNCHANGED <<req, maps, file, drv, cq, irq, work, cancel, wait, dev, reaped>>

RemoveQueues ==
    /\ remove = "queues"
    /\ dev' = [IF drv.ready THEN QueueReset(dev) ELSE dev EXCEPT
                  !.mask = TRUE, !.intr = FALSE, !.resetDone = FALSE]
    /\ drv' = [drv EXCEPT !.ready = FALSE]
    /\ remove' = "irqs"
    /\ UNCHANGED <<req, maps, file, cq, irq, poll, work, cancel, wait, reaped>>

RemoveIrqs ==
    /\ remove = "irqs" /\ irq = "idle" /\ ~work.running
    /\ work' = [work EXCEPT !.queued = FALSE]
    /\ cancel' = CancelStart
    /\ remove' = "cancel"
    /\ UNCHANGED <<req, maps, file, drv, cq, irq, poll, wait, dev, reaped>>

-----------------------------------------------------------------------------
(* The endpoint and what happens outside the driver *)

Fetch ==
    /\ dev.on /\ dev.active = NoRequest
    /\ dev.sqHead # dev.sqTail /\ Succ(dev.cqTail) # dev.cqHead
    /\ dev' = [dev EXCEPT !.active = drv.sq[dev.sqHead], !.sqHead = Succ(@)]
    /\ UNCHANGED <<req, maps, file, drv, cq, irq, poll, work, cancel, wait, remove,
                   reaped>>

Publish ==
    /\ dev.active # NoRequest
    /\ \E drop \in {FALSE} \cup {"drop" \in Outside} :
         dev' = RaiseCq([dev EXCEPT !.cq[dev.cqTail] = dev.active,
                                    !.cqTail = Succ(@), !.active = NoRequest],
                        drop)
    /\ UNCHANGED <<req, maps, file, drv, cq, irq, poll, work, cancel, wait, remove,
                   reaped>>

Disturb ==
    /\ \/ /\ "queue" \in Outside /\ dev.gen < MaxResets
          /\ dev' = QueueReset(dev)
       \/ /\ "device" \in Outside /\ dev.gen < MaxResets
          /\ dev' = DeviceReset(dev)
       \/ /\ "engine" \in Outside
          /\ dev' = [dev EXCEPT !.reason = "engine"]
       \/ /\ "unmask" \in Outside /\ dev.mask
          /\ dev' = [dev EXCEPT !.mask = FALSE, !.msi = @ \/ dev.intr]
    /\ UNCHANGED <<req, maps, file, drv, cq, irq, poll, work, cancel, wait, remove,
                   reaped>>

Drain == DrainEntry \/ DrainFinish \/ DrainLeave
Interrupt == CqIrq \/ CqIrqDrain \/ AsyncIrq
Poller == PollStart \/ PollObserve \/ PollDrain \/ PollRearm
Worker == ResetWork \/ CancelLoad \/ CancelErase \/ CancelFinish \/ CancelEnd
Submitter(r) ==
    \/ SubmitLock(r) \/ SubmitDrain(r) \/ SubmitTrack(r) \/ SubmitPublish(r)
    \/ SubmitSchedule(r) \/ SubmitReturn(r) \/ NopReturn(r)
Waiter(w) == WaitGet(w) \/ WaitGiveUp(w) \/ WaitWake(w) \/ WaitReap(w)
Remover == RemovePoll \/ RemoveQueues \/ RemoveIrqs

Next ==
    \/ Drain \/ Interrupt \/ Poller \/ Worker
    \/ \E r \in Requests : Submit(r) \/ SubmitNop(r) \/ Submitter(r)
    \/ \E w \in Waiters : Waiter(w)
    \/ \E b \in Buffers : BufferRegister(b) \/ BufferUnregister(b)
    \/ Close \/ RemoveStart \/ Remover
    \/ Fetch \/ Publish \/ Disturb

Spec == Init /\ [][Next]_vars

(* Interrupts are taken, work items run, a call that has begun goes on,    *)
(* and the endpoint serves its queue.  The locks are granted in turn       *)
(* (spinlocks are queued, a mutex is handed over) to the reset work and to *)
(* each submitter, who may find them taken again and again.  No caller     *)
(* need ever wait or reap.                                                 *)
FairSpec ==
    /\ Spec
    /\ WF_vars(Drain) /\ WF_vars(Interrupt) /\ WF_vars(Poller)
    /\ WF_vars(Worker) /\ WF_vars(Remover)
    /\ WF_vars(Fetch) /\ WF_vars(Publish)
    /\ SF_vars(ResetWork)
    /\ \A r \in Requests : /\ WF_vars(Submitter(r))
                           /\ SF_vars(SubmitLock(r) \/ SubmitDrain(r))

-----------------------------------------------------------------------------
(* Properties *)

(* Types; the counters that atomic operations keep never pass below zero   *)
(* nor above the number of requests.                                       *)
TypeOK ==
    /\ \A r \in Requests :
         /\ req[r].call \in {"idle", "lock", "enter", "drain", "track", "publish",
                             "schedule", "return", "wait", "over"}
         /\ req[r].status \in {"none", "device", "ECANCELED", "ENODEV"}
         /\ req[r].refs \in Nat /\ req[r].gen \in 0 .. MaxResets + 1
    /\ \A b \in Buffers : maps[b].refs \in Nat
    /\ file.refs \in Nat /\ file.completed \in 0 .. Cardinality(Requests)
    /\ drv.pending \in 0 .. Cardinality(Requests)
    /\ drv.sqTail \in Slots /\ drv.cqHead \in Slots
    /\ cq.by \in {"none", "irq", "poll", "submit"}
    /\ irq \in {"idle", "spin", "stalled", "drain"}
    /\ poll.pc \in {"idle", "observe", "enter", "drain", "rearm"}
    /\ cancel.pc \in {"off", "walk", "loaded", "erased"}
    /\ remove \in {"no", "poll", "queues", "irqs", "cancel", "gone"}

(* the requests whose completion is under way: complete_all is done, the   *)
(* rest is not                                                             *)
Finishing ==
    {cq.cur, IF cancel.pc = "erased" THEN cancel.cur ELSE NoRequest} \ {NoRequest}

Live == {r \in Requests : req[r].refs > 0}

One(condition) == IF condition THEN 1 ELSE 0

(* Every reference count equals the number of holders: nothing leaks and   *)
(* nothing is freed under a table, a waiter or a caller that uses it, in   *)
(* whichever order completion, cancellation, reaping, close and failed     *)
(* calls come.                                                             *)
RefsMatchHolders ==
    /\ \A r \in Requests :
         req[r].refs =
            One(req[r].tracked) + One(req[r].filed) + One(r \in Finishing)
            + Cardinality({w \in Waiters : wait[w].r = r})
            + One(\/ req[r].call \in {"lock", "enter", "drain", "track"}
                  \/ ~req[r].owned /\ req[r].call \in {"publish", "schedule", "wait"})
    /\ \A b \in Buffers :
         maps[b].refs = One(maps[b].handle)
                          + MapThenSumSet(LAMBDA r : Uses(req[r], b), Live)
    /\ file.refs = One(file.open) + Cardinality({r \in Live : req[r].owned})

InDevice ==
    {dev.active} \cup
    {drv.sq[i] : i \in {i \in Slots : (i - dev.sqHead) % QueueDepth
                                        < (dev.sqTail - dev.sqHead) % QueueDepth}}

(* While the endpoint may still execute a command its buffers stay pinned  *)
(* and mapped, and its request is not terminal: a cancelled command is one *)
(* the endpoint has given up, and removal stops the queues before it       *)
(* cancels what they hold.                                                 *)
DeviceOwnsItsBuffers ==
    \A r \in InDevice \cap Requests :
       /\ ~req[r].done
       /\ \A b \in {req[r].source, req[r].destination} \cap Buffers : Mapped(b)

(* A lost interrupt strands nothing: while a published request is          *)
(* outstanding the polling worker is queued, running, or about to be       *)
(* queued by the submitter, until removal takes over.                      *)
PollerArmed ==
    LET published == {r \in Tracked : req[r].call # "publish"}
    IN  /\ drv.pending = Cardinality(published) + Cardinality(Finishing)
        /\ published # {} /\ ~drv.removing =>
              \/ poll.queued \/ poll.pc # "idle"
              \/ \E r \in Requests : req[r].call = "schedule"

(* poll() never misses a result: the readiness counter, which all requests *)
(* of a file share, covers every terminal request the file can reap, but   *)
(* for those whose completion is still on its way to the counter.  No      *)
(* request is reaped or disowned at the cost of another one's count.       *)
ReadableWhenTerminal ==
    Cardinality({r \in Requests : req[r].filed /\ req[r].done})
       <= file.completed + Cardinality({r \in Finishing : req[r].owned})

(* A result is handed to one caller only, however waiters, close and a     *)
(* failing copy to the caller interleave.                                  *)
ReapedOnce == \A r \in Requests : reaped[r] + One(req[r].filed) <= 1

(* Of the interrupt, the worker, the submitters, the reset work and        *)
(* removal, one ends a request, and the outcome it records stays: nobody   *)
(* cancels what has completed or completes what was cancelled.             *)
TerminalIsFinal ==
    [][\A r \in Requests : req[r].done => /\ req'[r].done
                                          /\ req'[r].status = req[r].status]_vars

(* "poll/epoll reports readable when at least one owned request is         *)
(* terminal": the counter is positive only if there is something to reap.  *)
ReadableIsReal ==
    file.open /\ file.completed > 0 =>
       \E r \in Requests : req[r].filed /\ req[r].done

(* The reset work looks only at requests that are still allocated.         *)
LoadedIsLive == cancel.pc = "loaded" => cancel.cur \in Live

(* Every request that reaches the SQ ends, by its completion or by a       *)
(* cancellation.                                                           *)
RequestsFinish ==
    \A r \in Requests : req[r].call = "schedule" ~> req[r].done
=============================================================================
