-------------------------- MODULE DriverLifecycle --------------------------
(***************************************************************************)
(* How the Linux driver (kernel/vams_pci.c) binds to the endpoint and lets *)
(* go of it: vams_probe acquires one resource after the other and unwinds  *)
(* from any failure, vams_remove gives everything back, and meanwhile the  *)
(* interrupt handlers, the two works, and callers with open files use the  *)
(* BAR, the rings and struct vams_device.                                  *)
(*                                                                         *)
(* What becomes of a request is the matter of DriverRequests; a file has   *)
(* at most one request and one buffer here, and a request counts as the    *)
(* references it holds.  A context is shown as running from its first      *)
(* access to what it shares with the others to its last.  The kernel's     *)
(* part is what it promises: free_irq and cancel_*_sync wait for a running *)
(* handler or work and keep it from starting again, misc_deregister waits  *)
(* for an open under way, and release comes after the last call on a file. *)
(***************************************************************************)
EXTENDS Integers, Sequences, FiniteSets

CONSTANTS
    Files,       \* struct vams_file, one for each open
    MaxResets,   \* bound on the resets from outside the driver
    EarlyResets  \* they may come before probe has configured the queues

ASSUME LifecycleAssumption ==
    /\ IsFiniteSet(Files) /\ "free" \notin Files
    /\ MaxResets \in Nat /\ EarlyResets \in BOOLEAN

VARIABLES
    thread,    \* the caller of vams_probe, then of vams_remove
    res,       \* what the driver has acquired and not released
    vd,        \* struct vams_device
    dev,       \* the endpoint
    irq,       \* the handlers that run
    work,      \* cq_poll_work and reset_work
    file,      \* the files with their request and their buffer
    call,      \* the system call that is under way on a file
    lock,      \* who holds submit_lock
    test       \* the request of the polling self-test, until probe has passed it

vars == <<thread, res, vd, dev, irq, work, file, call, lock, test>>

Vectors == {"cqirq", "asyncirq"}
Works == {"poll", "reset"}

(* The steps of vams_probe, each with the resources it acquires.           *)
ProbeSteps == <<"enable", "region", "bar", "validate", "rings", "vectors",
                "cqirq", "asyncirq", "master", "unmask", "irqtest", "noptest",
                "polltest", "chardev">>

(* The steps of the way back, from the label each begins at to the last.   *)
ExitSteps == <<"removing", "misc", "pollcancel", "quiesce", "asyncirq",
               "cqirq", "resetcancel", "cancelrequests", "vectors", "rings",
               "bar", "region", "enable", "put">>

After(steps, s) ==
    LET i == CHOOSE i \in 1 .. Len(steps) : steps[i] = s IN steps[i + 1]

From(steps, s) ==
    LET i == CHOOSE i \in 1 .. Len(steps) : steps[i] = s
    IN  {steps[j] : j \in i .. Len(steps)}

(* what vams_device_release gives back *)
OfDevice == {"pdev", "instance"}

NewFile == [refs |-> 0, open |-> FALSE, tracked |-> FALSE, filed |-> FALSE,
            uses |-> FALSE, buffer |-> 0, used |-> FALSE]

(* vams_probe has allocated the device structure.                          *)
Init ==
    /\ thread = [mode |-> "probe", at |-> "enable"]
    /\ res = {"pdev"}
    /\ vd = [refs |-> 1, freed |-> FALSE, removing |-> FALSE, ready |-> FALSE,
             dma |-> FALSE, instance |-> FALSE, stale |-> FALSE, left |-> {}]
    /\ dev = [masked |-> TRUE, msi |-> {}, on |-> FALSE, pending |-> {},
              reset |-> "none", resets |-> 0]
    /\ irq = {}
    /\ work = [queued |-> {}, running |-> {}]
    /\ file = [f \in Files |-> NewFile]
    /\ call = [f \in Files |-> "none"]
    /\ lock = "free"
    /\ test = "none"

Probing(s) == thread.mode = "probe" /\ thread.at = s
Leaving(s) == thread.mode \in {"unwind", "remove"} /\ thread.at = s

-----------------------------------------------------------------------------
(* References *)

(* n times kref_put on the device, whose release frees the instance number *)
(* and puts the PCI device; v and r are the rest of the step               *)
DevicePut(v, r, n) ==
    LET last == n > 0 /\ v.refs = n IN
    /\ vd' = [v EXCEPT !.refs = @ - n, !.freed = @ \/ last]
    /\ res' = IF last THEN r \ OfDevice ELSE r

(* kref_put on each file of S; vams_file_release_refs puts the device *)
FilePut(fl, v, r, S) ==
    /\ file' = [f \in Files |-> IF f \in S THEN [fl[f] EXCEPT !.refs = @ - 1] ELSE fl[f]]
    /\ DevicePut(v, r, Cardinality({f \in S : fl[f].refs = 1}))

(* vams_request_put of what a request holds when it goes *)
RequestGone(q) == [q EXCEPT !.buffer = IF q.uses THEN @ - 1 ELSE @, !.uses = FALSE]

(* The requests of the files in S are terminal: the reference of the       *)
(* device's table goes, and with it a request that is not filed.           *)
Finish(S, v, r) ==
    LET gone == {f \in S : ~file[f].filed}
        fl == [f \in Files |->
                 IF f \notin S THEN file[f]
                 ELSE LET q == [file[f] EXCEPT !.tracked = FALSE]
                      IN  IF f \in gone THEN RequestGone(q) ELSE q]
    IN  FilePut(fl, v, r, gone)

Tracked == {f \in Files : file[f].tracked}

-----------------------------------------------------------------------------
(* The endpoint *)

(* the polling self-test masks the CQ interrupt alone *)
Masked(d, v) == d.masked \/ (v = "cqirq" /\ Probing("polltest") /\ test # "none")

(* vams_pcie_raise_interrupt: a message needs the vectors and bus mastering *)
Raise(d, v) ==
    [d EXCEPT !.pending = @ \cup {v},
              !.msi = IF Masked(d, v) \/ ~({"vectors", "master"} \subseteq res)
                      THEN @ ELSE @ \cup {v}]

(* a write to INTR_MASK that leaves the sources in M masked *)
Unmask(d, M) == [d EXCEPT !.masked = FALSE, !.msi = @ \cup (d.pending \ M)]

(* A completion is in the CQ. *)
EndpointCompletes ==
    /\ dev.on /\ (Tracked # {} \/ test = "tracked") /\ "cqirq" \notin dev.pending
    /\ dev' = Raise(dev, "cqirq")
    /\ UNCHANGED <<thread, res, vd, irq, work, file, call, lock, test>>

(* Resets of the queues or of the device from outside.  That of the device *)
(* masks all interrupts and raises one.                                    *)
EndpointReset(kind) ==
    /\ dev.resets < MaxResets
    /\ thread.mode = "probe" /\ ~vd.ready => EarlyResets
    /\ LET d == [dev EXCEPT !.reset = kind, !.resets = @ + 1, !.on = FALSE,
                            !.masked = @ \/ kind = "device"]
       IN  dev' = IF kind = "device" THEN Raise(d, "asyncirq") ELSE d
    /\ UNCHANGED <<thread, res, vd, irq, work, file, call, lock, test>>

(* A reset of the engine keeps queues and generation.  It overwrites the   *)
(* reason of a reset the driver has not observed yet.                      *)
EngineReset ==
    /\ dev.reset # "none"
    /\ dev' = [dev EXCEPT !.reset = "engine"]
    /\ UNCHANGED <<thread, res, vd, irq, work, file, call, lock, test>>

-----------------------------------------------------------------------------
(* Interrupts and works *)

(* cancel_*_sync has been called *)
Canceling(w) == Leaving(IF w = "poll" THEN "pollcancel" ELSE "resetcancel")

Queue(ws, w) == [ws EXCEPT !.queued = IF Canceling(w) THEN @ ELSE @ \cup {w}]

(* vams_observe_reset *)
ObserveReset(v, ws) ==
    IF dev.reset = "none" THEN [vd |-> v, work |-> ws]
    ELSE [vd |-> [v EXCEPT !.stale = dev.reset \in {"queue", "device"}],
          work |-> Queue(ws, "reset")]

(* vams_drain_cq finds the completions of the requests in S *)
Drainable(S) == S \subseteq IF vd.ready /\ dev.on THEN Tracked ELSE {}

TestDrained == IF test = "tracked" /\ vd.ready /\ dev.on THEN {"tracked", "done"} ELSE {test}

IrqStart(v) ==
    /\ v \in dev.msi /\ v \in res \ irq /\ ~Leaving(v)
    /\ irq' = irq \cup {v}
    /\ dev' = [dev EXCEPT !.msi = @ \ {v}]
    /\ UNCHANGED <<thread, res, vd, work, file, call, lock, test>>

(* vams_cq_irq *)
CqIrq ==
    /\ "cqirq" \in irq
    /\ \E S \in SUBSET Tracked : Drainable(S) /\ Finish(S, vd, res)
    /\ test' \in TestDrained
    /\ irq' = irq \ {"cqirq"}
    /\ dev' = [dev EXCEPT !.pending = @ \ {"cqirq"}]
    /\ UNCHANGED <<thread, work, call, lock>>

(* vams_async_irq *)
AsyncIrq ==
    /\ "asyncirq" \in irq
    /\ irq' = irq \ {"asyncirq"}
    /\ vd' = ObserveReset(vd, work).vd /\ work' = ObserveReset(vd, work).work
    /\ dev' = [dev EXCEPT !.pending = @ \ {"asyncirq"}, !.reset = "none"]
    /\ UNCHANGED <<thread, res, file, call, lock, test>>

WorkStart(w) ==
    /\ w \in work.queued \ work.running /\ ~Canceling(w)
    /\ work' = [queued |-> work.queued \ {w},
                running |-> IF w = "poll" /\ vd.removing THEN work.running
                            ELSE work.running \cup {w}]
    /\ UNCHANGED <<thread, res, vd, dev, irq, file, call, lock, test>>

(* the rest of vams_cq_poll_work *)
PollWork ==
    /\ "poll" \in work.running
    /\ test' \in TestDrained
    /\ LET seen == ObserveReset(vd, [work EXCEPT !.running = @ \ {"poll"}])
       IN  \E S \in SUBSET Tracked :
             /\ Drainable(S) /\ Finish(S, seen.vd, res)
             /\ work' = IF Tracked \ S # {} \/ test' = "tracked"
                        THEN Queue(seen.work, "poll") ELSE seen.work
    /\ dev' = [dev EXCEPT !.reset = "none"]
    /\ UNCHANGED <<thread, irq, call, lock>>

(* vams_reset_work under submit_lock: a queue or a device reset has        *)
(* disabled the queues, and the requests of before it are cancelled        *)
ResetWork ==
    /\ "reset" \in work.running /\ lock = "free"
    /\ IF vd.removing THEN UNCHANGED <<vd, res, file, test>>
       ELSE /\ \E S \in SUBSET Tracked :
                 Finish(S, [vd EXCEPT !.ready = @ /\ ~vd.stale], res)
            /\ test' \in IF test = "tracked" THEN {"tracked", "done"} ELSE {test}
    /\ work' = [work EXCEPT !.running = @ \ {"reset"}]
    /\ UNCHANGED <<thread, dev, irq, call, lock>>

-----------------------------------------------------------------------------
(* System calls *)

(* vams_open; misc_open holds the lock that misc_deregister takes *)
Open(f) ==
    /\ "misc" \in res /\ lock = "free" /\ ~vd.removing
    /\ ~file[f].used
    /\ file' = [file EXCEPT ![f] = [NewFile EXCEPT !.refs = 1, !.open = TRUE, !.used = TRUE]]
    /\ vd' = [vd EXCEPT !.refs = @ + 1]
    /\ UNCHANGED <<thread, res, dev, irq, work, call, lock, test>>

Idle(f) == file[f].open /\ call[f] = "none"

(* vams_submit, entered with a new request *)
SubmitStart(f) ==
    /\ Idle(f) /\ ~file[f].tracked /\ ~file[f].filed
    /\ lock = "free" /\ ~vd.removing /\ vd.ready
    /\ lock' = f /\ call' = [call EXCEPT ![f] = "submit"]
    /\ \E b \in {FALSE, file[f].buffer > 0} :
         file' = [file EXCEPT ![f].refs = @ + 1, ![f].uses = b,
                              ![f].buffer = IF b THEN @ + 1 ELSE @]
    /\ UNCHANGED <<thread, res, vd, dev, irq, work, test>>

(* it drains the CQ ... *)
SubmitDrain(f) ==
    /\ call[f] = "submit"
    /\ \E S \in SUBSET Tracked : Drainable(S) /\ Finish(S, vd, res)
    /\ call' = [call EXCEPT ![f] = "drained"]
    /\ UNCHANGED <<thread, dev, irq, work, lock, test>>

(* ... and leaves with the request tracked and rung for, or the queue is   *)
(* full or an insertion failed                                             *)
SubmitEnd(f) ==
    /\ call[f] = "drained"
    /\ lock' = "free" /\ call' = [call EXCEPT ![f] = "none"]
    /\ \/ /\ file' = [file EXCEPT ![f].tracked = TRUE, ![f].filed = TRUE]
          /\ work' = Queue(work, "poll")
          /\ UNCHANGED <<vd, res>>
       \/ /\ FilePut([file EXCEPT ![f] = RequestGone(@)], vd, res, {f})
          /\ UNCHANGED work
    /\ UNCHANGED <<thread, dev, irq, test>>

(* VAMS_IOCTL_WAIT reaps a terminal request. *)
Reap(f) ==
    /\ Idle(f) /\ file[f].filed /\ ~file[f].tracked
    /\ FilePut([file EXCEPT ![f] = RequestGone([@ EXCEPT !.filed = FALSE])],
               vd, res, {f})
    /\ UNCHANGED <<thread, dev, irq, work, call, lock, test>>

(* What vams_ioctl_buffer_register acquires, in order, and what its error  *)
(* labels release when the step after it fails.                            *)
RegisterSteps == <<"mapping", "pages", "pin", "sg", "dma", "range", "handle", "copy">>

RegisterLabel(s) ==
    CASE s = "mapping" -> {}
      [] s = "pages"   -> {"mapping"}
      [] s = "pin"     -> {"mapping", "pages"}
      [] s = "sg"      -> {"mapping", "pages", "pin"}
      [] s = "dma"     -> {"mapping", "pages", "pin", "sg"}
      [] s \in {"range", "handle"} -> {"mapping", "pages", "pin", "sg", "dma"}
      [] s = "copy"    -> {"mapping", "pages", "pin", "sg", "dma", "handle"}

(* vams_ioctl_buffer_register, all of it under submit_lock *)
Register(f) ==
    /\ Idle(f) /\ file[f].buffer = 0 /\ lock = "free" /\ ~vd.removing
    /\ \/ /\ file' = [file EXCEPT ![f].buffer = 1]
          /\ UNCHANGED vd
       \/ \E i \in 1 .. Len(RegisterSteps) :
            LET got == {RegisterSteps[j] : j \in 1 .. i - 1} \ {"range"}
                given == RegisterLabel(RegisterSteps[i])
            IN  /\ vd' = [vd EXCEPT !.left = @ \cup (got \ given) \cup (given \ got)]
                /\ UNCHANGED file
    /\ UNCHANGED <<thread, res, dev, irq, work, call, lock, test>>

(* vams_ioctl_buffer_unregister *)
Unregister(f) ==
    /\ Idle(f) /\ file[f].buffer = 1 /\ ~file[f].uses
    /\ file' = [file EXCEPT ![f].buffer = 0]
    /\ UNCHANGED <<thread, res, vd, dev, irq, work, call, lock, test>>

(* vams_poll looks at removing and queues_ready without a lock and then    *)
(* reads a register                                                        *)
PollStart(f) ==
    /\ Idle(f) /\ ~vd.removing
    /\ call' = [call EXCEPT ![f] = "poll"]
    /\ UNCHANGED <<thread, res, vd, dev, irq, work, file, lock, test>>

PollReady(f) ==
    /\ call[f] = "poll"
    /\ call' = [call EXCEPT ![f] = IF vd.ready THEN "pollread" ELSE "none"]
    /\ UNCHANGED <<thread, res, vd, dev, irq, work, file, lock, test>>

PollRead(f) ==
    /\ call[f] = "pollread"
    /\ call' = [call EXCEPT ![f] = "none"]
    /\ UNCHANGED <<thread, res, vd, dev, irq, work, file, lock, test>>

(* vams_release *)
Close(f) ==
    /\ Idle(f)
    /\ LET q == [file[f] EXCEPT !.open = FALSE, !.filed = FALSE,
                                !.buffer = IF @ > 0 THEN @ - 1 ELSE 0]
           last == file[f].filed /\ ~file[f].tracked
           kept == IF last THEN [RequestGone(q) EXCEPT !.refs = @ - 1] ELSE q
       IN  FilePut([file EXCEPT ![f] = kept], vd, res, {f})
    /\ UNCHANGED <<thread, dev, irq, work, call, lock, test>>

Calls(f) ==
    \/ Open(f) \/ SubmitStart(f) \/ SubmitDrain(f) \/ SubmitEnd(f) \/ Reap(f)
    \/ Register(f) \/ Unregister(f) \/ PollStart(f) \/ PollReady(f) \/ PollRead(f)
    \/ Close(f)

-----------------------------------------------------------------------------
(* Probing *)

(* Mutant: a failure to request the asynchronous interrupt leaves the      *)
(* other one installed.                                                    *)
ErrorLabelAsync(s) ==
    CASE s = "enable"    -> "put"
      [] s = "region"    -> "enable"
      [] s = "bar"       -> "region"
      [] s \in {"validate", "rings"}    -> "bar"
      [] s = "vectors"   -> "rings"
      [] s \in {"cqirq", "asyncirq"}    -> "vectors"
      [] OTHER           -> "quiesce"

(* the label a failure of a step goes to *)
ErrorLabel(s) ==
    CASE s = "enable"    -> "put"
      [] s = "region"    -> "enable"
      [] s = "bar"       -> "region"
      [] s \in {"validate", "rings"}    -> "bar"
      [] s = "vectors"   -> "rings"
      [] s = "cqirq"     -> "vectors"
      [] s = "asyncirq"  -> "cqirq"
      [] OTHER           -> "quiesce"

(* vams_maybe_fail_probe: the label a failure injected after a step goes   *)
(* to; a wrong number of vectors is such a failure in any build            *)
InjectLabel(s) ==
    CASE s = "enable"    -> "enable"
      [] s = "region"    -> "region"
      [] s \in {"bar", "validate"}      -> "bar"
      [] s = "rings"     -> "rings"
      [] s = "vectors"   -> "vectors"
      [] s = "cqirq"     -> "cqirq"
      [] s = "asyncirq"  -> "asyncirq"
      [] s = "chardev"   -> "removing"

Injectable == {"enable", "region", "bar", "validate", "rings", "vectors",
               "cqirq", "asyncirq", "chardev"}

UnwindFrom(label) == thread' = [mode |-> "unwind", at |-> label]

Proceed(s) ==
    \/ thread' = IF s = "chardev" THEN [mode |-> "bound", at |-> "bound"]
                 ELSE [thread EXCEPT !.at = After(ProbeSteps, s)]
    \/ s \in Injectable /\ UnwindFrom(InjectLabel(s))

Plain == {"enable", "region", "bar", "vectors", "cqirq", "asyncirq"}

(* a step that acquires the one thing it is named for *)
ProbeAcquire(s) ==
    /\ Probing(s)
    /\ \/ res' = res \cup {s} /\ Proceed(s)
       \/ UnwindFrom(ErrorLabel(s)) /\ UNCHANGED res
    /\ UNCHANGED <<vd, dev, irq, work, file, call, lock, test>>

(* mask and clear the interrupts, vams_validate_endpoint, which reads the  *)
(* capabilities, and vams_set_dma_mask                                     *)
ProbeValidate ==
    /\ Probing("validate")
    /\ dev' = [dev EXCEPT !.masked = TRUE, !.pending = {}, !.reset = "none"]
    /\ \/ /\ vd' \in {[vd EXCEPT !.dma = d] : d \in BOOLEAN}
          /\ Proceed("validate")
       \/ UnwindFrom(ErrorLabel("validate")) /\ UNCHANGED vd
    /\ UNCHANGED <<res, irq, work, file, call, lock, test>>

(* vams_alloc_queues: if the CQ cannot be had or a ring is not aligned,    *)
(* what was allocated is freed there                                       *)
ProbeRings ==
    /\ Probing("rings")
    /\ \/ res' = (IF vd.dma THEN res \cup {"rings"} ELSE res) /\ Proceed("rings")
       \/ vd.dma /\ UnwindFrom(ErrorLabel("rings")) /\ UNCHANGED res
    /\ UNCHANGED <<vd, dev, irq, work, file, call, lock, test>>

(* Mutant: queues_ready is set after the status was checked. *)
ConfigureFailedLate == vd' = vd /\ dev' = [dev EXCEPT !.on = TRUE]

(* vams_configure_queues fails: queues_ready is set, so that               *)
(* vams_disable_queues resets what was enabled                             *)
ConfigureFailed == vd' = [vd EXCEPT !.ready = FALSE] /\ dev' = [dev EXCEPT !.on = FALSE]

ProbeMaster ==
    /\ Probing("master")
    /\ res' = res \cup {"drvdata", "master"}
    /\ \/ /\ vd' = [vd EXCEPT !.ready = vd.dma]
          /\ dev' = [dev EXCEPT !.on = vd.dma]
          /\ Proceed("master")
       \/ vd.dma /\ ConfigureFailed /\ UnwindFrom(ErrorLabel("master"))
    /\ UNCHANGED <<irq, work, file, call, lock, test>>

ProbeUnmask ==
    /\ Probing("unmask")
    /\ dev' = Unmask(dev, {})
    /\ Proceed("unmask")
    /\ UNCHANGED <<res, vd, irq, work, file, call, lock, test>>

(* vams_irq_selftest forces the interrupts and vams_nop_selftest rings for *)
(* a command of its own; whether they pass shows within a second           *)
ProbeSelftest(s) ==
    /\ Probing(s)
    /\ \/ UNCHANGED dev /\ Proceed(s)
       \/ /\ s = "irqtest" \/ vd.ready
          /\ dev' = IF s = "irqtest" THEN Raise(Raise(dev, "cqirq"), "asyncirq")
                    ELSE Raise(dev, "cqirq")
          /\ Proceed(s) \/ UnwindFrom(ErrorLabel(s))
       \/ s = "noptest" /\ ~vd.ready /\ UNCHANGED dev /\ UnwindFrom(ErrorLabel(s))
    /\ UNCHANGED <<res, vd, irq, work, file, call, lock, test>>

(* vams_poll_selftest submits a NOP that belongs to no file ... *)
ProbePolltest ==
    /\ Probing("polltest") /\ test = "none"
    /\ \/ Proceed("polltest") /\ UNCHANGED <<dev, work, test>>
       \/ /\ vd.ready /\ test' = "tracked" /\ work' = Queue(work, "poll")
          /\ dev' = Unmask(dev, {"cqirq"})
          /\ UNCHANGED thread
       \/ /\ UnwindFrom(ErrorLabel("polltest"))
          /\ dev' \in {dev, Unmask([dev EXCEPT !.pending = @ \ {"cqirq"}], {})}
          /\ UNCHANGED <<work, test>>
    /\ UNCHANGED <<res, vd, irq, file, call, lock>>

(* ... and waits for it for a second *)
ProbePolltestEnd ==
    /\ Probing("polltest") /\ test # "none"
    /\ \/ test = "done" /\ Proceed("polltest")
       \/ UnwindFrom(ErrorLabel("polltest"))
    /\ dev' = Unmask([dev EXCEPT !.pending = @ \ {"cqirq"}], {})
    /\ UNCHANGED <<res, vd, irq, work, file, call, lock, test>>

(* vams_register_chardev fails: what it allocated it has freed *)
ChardevFailed == vd' = [vd EXCEPT !.instance = FALSE]

ProbeChardev ==
    /\ Probing("chardev")
    /\ \/ /\ res' = res \cup {"instance", "misc"}
          /\ vd' = [vd EXCEPT !.instance = TRUE]
          /\ test' = "none"
          /\ Proceed("chardev")
       \/ ChardevFailed /\ UnwindFrom(ErrorLabel("chardev")) /\ UNCHANGED <<res, test>>
    /\ UNCHANGED <<dev, irq, work, file, call, lock>>

Probe ==
    \/ \E s \in Plain : ProbeAcquire(s)
    \/ ProbeValidate \/ ProbeRings \/ ProbeMaster \/ ProbeUnmask
    \/ \E s \in {"irqtest", "noptest"} : ProbeSelftest(s)
    \/ ProbePolltest \/ ProbePolltestEnd \/ ProbeChardev

-----------------------------------------------------------------------------
(* Unwinding and removing *)

(* the resources a step of the way back releases *)
Releases(s) ==
    CASE s = "misc"    -> {"misc"}
      [] s = "quiesce" -> IF thread.mode = "unwind" THEN {"master", "drvdata"}
                          ELSE {"master"}
      [] s = "rings"   -> IF vd.dma THEN {"rings"} ELSE {}
      [] s = "put"     -> IF thread.mode = "remove" THEN {"drvdata"} ELSE {}
      [] s \in {"asyncirq", "cqirq", "vectors", "bar", "region", "enable"} -> {s}
      [] OTHER         -> {}

Done(s) == thread' = [thread EXCEPT !.at = After(ExitSteps, s)]

(* vams_remove begins where the unwinding after chardev does. *)
RemoveStart ==
    /\ thread.mode = "bound"
    /\ thread' = [mode |-> "remove", at |-> "removing"]
    /\ UNCHANGED <<res, vd, dev, irq, work, file, call, lock, test>>

(* Mutant: removing is set without submit_lock. *)
ExitRemovingUnlocked ==
    /\ Leaving("removing")
    /\ vd' = [vd EXCEPT !.removing = TRUE]
    /\ Done("removing")
    /\ UNCHANGED <<res, dev, irq, work, file, call, lock, test>>

(* Mutant: submit_lock is held until the device is gone. *)
ExitRemovingLocked ==
    /\ Leaving("removing") /\ lock = "free"
    /\ vd' = [vd EXCEPT !.removing = TRUE]
    /\ lock' = "exit"
    /\ Done("removing")
    /\ UNCHANGED <<res, dev, irq, work, file, call, test>>

ExitRemoving ==
    /\ Leaving("removing") /\ lock = "free"
    /\ vd' = [vd EXCEPT !.removing = TRUE]
    /\ Done("removing")
    /\ UNCHANGED <<res, dev, irq, work, file, call, lock, test>>

(* misc_deregister, freeing the vectors, the rings, the BAR, the region,   *)
(* and disabling the function                                              *)
ExitRelease(s) ==
    /\ Leaving(s)
    /\ res' = res \ Releases(s)
    /\ Done(s)
    /\ UNCHANGED <<vd, dev, irq, work, file, call, lock, test>>

(* Mutant: the works are cancelled without waiting for them. *)
ExitCancelAsync(w) ==
    /\ Canceling(w)
    /\ work' = [work EXCEPT !.queued = @ \ {w}]
    /\ Done(thread.at)
    /\ UNCHANGED <<res, vd, dev, irq, file, call, lock, test>>

(* cancel_delayed_work_sync and cancel_work_sync *)
ExitCancel(w) ==
    /\ Canceling(w) /\ w \notin work.running
    /\ work' = [work EXCEPT !.queued = @ \ {w}]
    /\ Done(thread.at)
    /\ UNCHANGED <<res, vd, dev, irq, file, call, lock, test>>

(* vams_mask_interrupts, in a removal with the pending ones cleared,       *)
(* vams_disable_queues, which leaves queues alone that are not ready, and  *)
(* pci_clear_master                                                        *)
ExitQuiesce ==
    /\ Leaving("quiesce")
    /\ dev' = [dev EXCEPT !.masked = TRUE, !.on = @ /\ ~vd.ready,
                          !.pending = IF thread.mode = "remove" THEN {} ELSE @]
    /\ vd' = [vd EXCEPT !.ready = FALSE]
    /\ res' = res \ Releases("quiesce")
    /\ Done("quiesce")
    /\ UNCHANGED <<irq, work, file, call, lock, test>>

(* free_irq *)
ExitFreeIrq(v) ==
    /\ Leaving(v) /\ v \notin irq
    /\ res' = res \ Releases(v)
    /\ dev' = [dev EXCEPT !.msi = @ \ {v}]
    /\ Done(v)
    /\ UNCHANGED <<vd, irq, work, file, call, lock, test>>

(* vams_cancel_requests with -ENODEV *)
ExitCancelRequests ==
    /\ Leaving("cancelrequests")
    /\ Finish(Tracked, vd, res)
    /\ test' = IF test = "tracked" THEN "done" ELSE test
    /\ Done("cancelrequests")
    /\ UNCHANGED <<dev, irq, work, call, lock>>

ExitPut ==
    /\ Leaving("put")
    /\ DevicePut(vd, res \ Releases("put"), 1)
    /\ thread' = [mode |-> "end", at |-> "end"]
    /\ UNCHANGED <<dev, irq, work, file, call, lock, test>>

Exit ==
    \/ ExitRemoving \/ ExitQuiesce \/ ExitCancelRequests \/ ExitPut
    \/ \E s \in {"misc", "vectors", "rings", "bar", "region", "enable"} : ExitRelease(s)
    \/ \E w \in Works : ExitCancel(w)
    \/ \E v \in Vectors : ExitFreeIrq(v)

Contexts ==
    \/ \E v \in Vectors : IrqStart(v)
    \/ CqIrq \/ AsyncIrq \/ PollWork \/ ResetWork
    \/ \E w \in Works : WorkStart(w)

Next ==
    \/ Probe \/ RemoveStart \/ Exit \/ Contexts
    \/ EndpointCompletes \/ EngineReset \/ \E k \in {"queue", "device"} : EndpointReset(k)
    \/ \E f \in Files : Calls(f)

Spec == Init /\ [][Next]_vars

(* The kernel runs the caller of probe and remove, handlers and works that *)
(* have begun, and callers inside of the driver, and hands a mutex over to *)
(* who waits for it.  Nothing is assumed of what programs call, of the     *)
(* endpoint or of a removal.                                               *)
FairSpec ==
    /\ Spec
    /\ WF_vars(Probe) /\ WF_vars(Exit) /\ SF_vars(ExitRemoving)
    /\ WF_vars(CqIrq) /\ WF_vars(AsyncIrq) /\ WF_vars(PollWork) /\ WF_vars(ResetWork)
    /\ \A f \in Files : WF_vars(SubmitDrain(f) \/ SubmitEnd(f))

-----------------------------------------------------------------------------
(* Properties *)

(* Types. *)
TypeOK ==
    /\ thread.mode \in {"probe", "bound", "unwind", "remove", "end"}
    /\ res \subseteq {"pdev", "instance", "misc", "enable", "region", "bar", "rings",
                      "vectors", "cqirq", "asyncirq", "master", "drvdata"}
    /\ vd.refs \in 0 .. Cardinality(Files) + 1
    /\ dev.msi \subseteq Vectors /\ dev.pending \subseteq Vectors /\ irq \subseteq Vectors
    /\ work.queued \subseteq Works /\ work.running \subseteq Works
    /\ lock \in Files \cup {"free"}
    /\ test \in {"none", "tracked", "done"}
    /\ \A f \in Files : file[f].refs \in 0 .. 2 /\ file[f].buffer \in 0 .. 2

(* "Every probe failure unwinds the acquired prefix in reverse order": at  *)
(* every step of the way back, after a failure of any step or in a removal,*)
(* what is still held is exactly what the steps ahead release.  The same   *)
(* goes for the error labels of a buffer's registration, and for the       *)
(* instance number that is left to the release of the device structure.    *)
UnwindIsExact ==
    /\ thread.mode \in {"unwind", "remove"} =>
         res \ OfDevice = UNION {Releases(s) : s \in From(ExitSteps, thread.at)}
    /\ thread.mode = "end" => res \subseteq OfDevice
    /\ ~vd.freed => (vd.instance <=> "instance" \in res) /\ "pdev" \in res
    /\ vd.left = {}

Alive(f) == file[f].refs > 0

(* the self-test's worker is the one the unwinding does not stop *)
PollWorkStops == test = "none"

(* Neither handler, nor the works, nor a submitter that had entered before *)
(* the removal began, nor the removal itself, reads or writes a register   *)
(* after BAR0 was unmapped or an entry of a ring that was freed.  Two more *)
(* contexts do and are left out here: the worker of the polling self-test  *)
(* (WorkersAreStopped) and poll() (PollIsMapped).                          *)
AccessIsMapped ==
    LET mapped == "bar" \in res /\ (vd.dma => "rings" \in res)
    IN  /\ irq # {} => mapped
        /\ "poll" \in work.running /\ PollWorkStops => mapped
        /\ \A f \in Files : call[f] \in {"submit", "drained"} => mapped
        /\ Leaving("quiesce") => mapped

(* The endpoint's queues are enabled only while the rings they point to    *)
(* exist, failures half-way through their configuration included.          *)
QueuesHaveRings == dev.on => "rings" \in res

(* Once the device structure is freed nothing can come to use it: no       *)
(* handler, no work queued or running, no file and no call on one; and all *)
(* it held is given back.  Nor is a file freed before its request and its  *)
(* buffer.                                                                 *)
FreedIsQuiet ==
    /\ vd.freed =>
         /\ thread.mode = "end" /\ res = {} /\ irq = {} /\ lock = "free"
         /\ PollWorkStops => work.running \cup work.queued = {}
         /\ \A f \in Files : ~Alive(f)
    /\ \A f \in Files :
         ~Alive(f) => /\ ~file[f].open /\ ~file[f].tracked /\ ~file[f].filed
                      /\ file[f].buffer = 0 /\ call[f] = "none"
    /\ thread.mode = "end" /\ (\A f \in Files : ~file[f].open) => vd.freed

(* A removal and an unwinding come to their end, whatever handlers, works  *)
(* and callers they have to wait for.                                      *)
ExitEnds == thread.mode \in {"unwind", "remove"} ~> thread.mode = "end"

(* vams_poll may look at the flags, be held up, and read a register that   *)
(* is no longer mapped.                                                    *)
PollIsMapped == \A f \in Files : call[f] = "pollread" => "bar" \in res

(* "stops CQ/reset work": with the polling self-test the failure of a      *)
(* later step frees the device under a worker that is queued or runs.      *)
WorkersAreStopped == vd.freed => work.running \cup work.queued = {}
=============================================================================
