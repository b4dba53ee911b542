# A TLA+ model of the Virtual Accelerator Management SoC

The modules in this directory model the command path of the virtual accelerator
(Linux driver, PCIe endpoint, bridge, management device, Zephyr firmware), its
payload engine, how the driver binds to the device and lets go of it, and the
health supervision, crash record and event log of the firmware.
TLC checks them on small instances; TLAPS proves the theorems listed below for
every value of the constants. `PROJECT.json` has the machine-readable form: the
runs, the mutants that show each property can fail, the source lines behind each
definition, the hazards, the findings and the theorems.

Source paths below are relative to the repository. `P6` stands for
`qemu/patches/0006-*.patch`: the two QEMU devices exist only as a series of 21
patches, and a line of a device is cited in the patch that adds it.

    tlc -config <cfg> <module>      # a run of PROJECT.json
    tlapm <module>                  # the proofs of a *Proofs module

## The system

A host program opens `/dev/vams*`. The **Linux driver** (`kernel/vams_pci.c`)
pins its buffers, translates handles into bus addresses and writes 64-byte
descriptors into the SQ of the **PCIe endpoint** (`vams_pcie.c`, P3 and later).
The endpoint keeps one command in service. It sends the descriptor over a
**byte stream** (a chardev between two QEMU processes, no framing) to the
**command portal** of the management device (`vams_mgmt.c`, P2, P5 and later).
The **firmware** (`firmware/src`) captures it, validates it, waits for its turn
and answers: a rejected command or a NOP with its completion, a payload command
with an authorization, on which the endpoint's **payload engine** runs and
reports a result to the firmware, which publishes the final completion. Every
message but a submission is 32 bytes long; what a message is, each end decides
from its own state. Resets exist on each level: engine, queue and device reset
from the host, management reset by the firmware, watchdog reset of the hart.

### Inventory

| component | state it keeps | operations | what makes it correct |
|---|---|---|---|
| firmware command service, `main.c`, `vams_scheduler.c` | pool of command objects, four queues, the scheduler's array, five tasks | receive, validate, select, dispatch, await result, abort, escalate, publish | every object has one owner and the state that owner expects; each command is published once with its own outcome; earliest deadline first; no object is kept for ever |
| command portal, `vams_mgmt.c` | three windows, status bits, receive position, expectations, reset state | register writes, stream receive, management reset, acknowledgment timeout | each end knows where a message ends; a reset waits for its acknowledgment |
| PCIe endpoint, `vams_pcie.c` | SQ, CQ, command in service, engine, discard, timers | fetch, send, receive, publish, engine timer, three resets, throttle | ownership assertions hold; one answer for each command; no answer from before a reset |
| stream | bytes under way | write, deliver a piece, close | FIFO |
| descriptor validation, `vams_command.c` | none | the tests in order | accepts exactly the legal descriptors |
| payload engine, P7 to P13 | offset, fill byte, CRC | read, add, write a chunk; finish; fail | stays in the buffers; success means all of the operation; a failure is contained |
| Linux driver: requests | requests, references, XArrays, SQ/CQ indices, generation | submit, drain (interrupt, worker, submitter), wait, poll, cancel, close, unregister, remove | counts equal holders; buffers stay while the device uses them; a result is final and reaped once; every request ends |
| Linux driver: probe and removal | acquired resources, `struct vams_device` and its references, handlers, works, open files | the steps of probe, each failing or not, self-tests, the way back, open, close, register, submit, poll, handlers and works | what is held is what the way back releases; nothing is used once it is gone; the way back ends |
| health and watchdog | epochs, tracker, timer | progress, sample, note, pet, expire, reset | no false alarm; no reset without cause; evidence before the reset; a hang always ends |
| retained record | record in memory, window of 32 words | boot, note, commit, write a word, reset | boot accepts no mixture; a clean reset loses nothing; latest events in order |
| event logger, `vams_event.c` | queue to the UART task, drop counter | record, put, count a drop, print | each event that found the queue full is counted once |
| mailbox, board, ABI generator, tests | | | not modelled, see the end |

### What is hard about it

- Five tasks of different priority share one portal window and one running slot.
- Timers on three sides (command deadline, abort wait and publication bound in
  the firmware, acknowledgment timers in both devices) race with what is under
  way on a stream without framing.
- Resets on either side meet messages of before the reset.
- The driver ends a request from an interrupt, a worker, a submitter, the reset
  work and removal, while callers wait, poll, close and unregister.
- Probe has fourteen steps that may fail, a way back with fourteen more, and
  handlers and works that run as soon as the interrupts are unmasked.
- The hart may be reset between any two stores, and the record must tell.

`PROJECT.json` lists 40 such hazards, each at its line, with the properties that
would show it going wrong; where the code does go wrong there, a note says so.

## The modules

| module | models | extends or instantiates |
|---|---|---|
| `BridgeLink` | messages, their units of 32 bytes, the two directions of the stream | |
| `CommandPortal` | the portal and the reset controller, as operators on a record | `BridgeLink` |
| `CommandLifecycle` | what the firmware promises for a command (abstract) | |
| `CommandPipeline` | the five firmware tasks against the portal and any peer | `CommandPortal`; refines `CommandLifecycle` |
| `PcieEndpoint` | the endpoint against any firmware and a host that resets it | `BridgeLink` |
| `Bridge` | endpoint, stream, portal and firmware together | instances of `CommandPipeline`, `PcieEndpoint` |
| `CommandValidation` | the validator and the set-based definition of a legal descriptor | |
| `PayloadEngine` | one command from the ioctl to the end of the chunked transfer | `CommandValidation` |
| `DriverRequests` | the driver's requests, references and locks against an endpoint with queues | |
| `DriverLifecycle` | probe, its error labels and removal against handlers, works and open files | |
| `HealthWatchdog` | epochs, monitor, watchdog and reboot on a discrete clock | |
| `RetainedRecord` | the crash record, its word-by-word copy, and the queue and drop counter of the event log | |
| `MC*` | instances for TLC | |
| `*Proofs` | theorems | the module they are about |

How state and actions correspond to the code:

- **CommandPipeline.** `cmd[o]` is a `struct vams_command_object`, `pool` the
  slab, the queues are the `k_msgq`s, `ready` the scheduler's array. A task step
  ends where the code touches something shared: a portal register, a queue, the
  clock. `vams_command_complete` is two steps, the window (`PublishWrite`) and
  the doorbell (`SchedulerRing`, `CompletionRing`), because another task may
  run in between. The eight words of the window are one step; `WindowIsOwn` of
  `Bridge` shows that no two tasks are ever between the first word and the
  doorbell. Emptying the ready queue and choosing from the array is one step too
  (`SchedulerPick`): a command that comes in between is one that comes after, since
  the array is the scheduler's own. `done` lists what the firmware takes for
  published, since the driver of the portal returns 0 even when the device refused
  the doorbell. The tasks have the fixed preemptive priorities of `main.c`:
  `CanRun` lets a task step only while no task of a higher priority is runnable
  (recovery manager first, then receiver, validator and completion task, the
  scheduler last). `halted` is the assertion of a full queue. `Tick` lets a
  deadline pass at any moment.
- **CommandPortal.** Every register write and callback is an operator from a
  state to a state. `reboot` marks the time between
  `vams_management_finish_reset` and the reset of the hart, in which the old
  firmware still runs. `Bridge` adds that the event loop of QEMU, whose
  callbacks finish the reset there, reads nothing from the stream in between.
- **PcieEndpoint.** `ep` is `VamsPcieState`; handlers that end with
  `vams_pcie_process_sq` do so here too (`ProcessSq`). `failed` records a
  `g_assert`.
- **DriverRequests.** A step is what runs under one lock or between two accesses
  to shared memory. `req[r].refs` is the `kref`. `IrqShares` says whether the
  interrupt may arrive on the CPU that runs the drain.
- **DriverLifecycle.** `thread` is the caller of `vams_probe`, then of
  `vams_remove`; `ProbeSteps` and `ExitSteps` are the two ladders in the order of
  the code, `ErrorLabel` the `goto` of a step that fails and `InjectLabel` that of
  a failure injected after it. `res` is what was acquired and not released. A
  handler or work runs from the step that starts it to the one that does its
  work, and `free_irq` and `cancel_*_sync` wait for it in between. A file has at
  most one request and one buffer, each counted as the references it holds. A
  queue or device reset of the endpoint turns the queues off; an engine reset only
  replaces the reason that the status register shows.
- **PayloadEngine.** Memory is a function from addresses to bytes; a chunk is
  read, computed and written in the order of `vams_pcie_execute_payload`, and
  any transfer may fail after any part of it was done.
- **HealthWatchdog.** A tick is 125 ms, half a sampling period. A due thread runs within `Late` ticks;
  the epoch counters are kept as "moved since the last sample".
- **RetainedRecord.** `window` is the retention memory, `next` the word that is
  written; only a reset can come between two words, since the lock masks
  interrupts on the only hart. `emit[t]` is how far a task is in
  `vams_event_emit`: the record, the `k_msgq_put`, and for a full queue the
  compare-and-swap loop of `vams_event_record_drop`, between whose read and swap
  another emitter may run. `failures` is the count of the health monitor, which
  starts from zero in each boot and is copied to the record.

### Abstractions

- A command is an identity, whether it is a payload command, whether it is valid,
  and a timeout; cookie and identity travel together. Payload bytes and
  addresses are in `PayloadEngine` only.
- Commands that are outstanding together have different identities, as the driver
  assigns them. What descriptor-format.md (41 and 158) says of duplicates is below.
- A CRC is the string (or the record) it was computed over: no collisions.
- Bus addresses are memory addresses; an IOMMU that maps two of them to one
  page is not modelled.
- Counters that only diagnostics read are left out.
- `reset_generation` wraps at `GenModulus`. It is 2 in `pipeline_faults`, so that
  a command meets both another and the same generation after resets, and 1 where
  an instance has no reset that the generation could tell apart.
- In `Bridge`, the 100 ms timers that wait for the other end do not fire before
  what is in transit has arrived (`InTime`), unless `Faults` has "late", which no
  listed run includes.
- `RetainedRecord` takes the endpoint's single command in service for granted;
  `Bridge` shows it (`QueuesSuffice`).
- In `DriverLifecycle` what becomes of a request is left to `DriverRequests`, and
  a reset of the endpoint by someone else than the driver comes before the queues
  are configured only with `EarlyResets`, which no listed run sets.
- Of the events in the log queue only the number is kept; their order is that of
  the record. What the UART task prints is left out.
- `HealthWatchdog` treats `main` between reset and thread start as a delay.

## Runs

All bounds are constants of the cfg files. `MaxTime`, `Horizon`, `MaxSeq`,
`MaxLink`, `MaxOwed` and `MaxResets` bound counters; `MaxCount` is the value at
which a counter of the record saturates, and its counters reach it. The actions
that would pass a bound are disabled; where a bound lets a behaviour stop, the
cfg turns the deadlock check off.

| run | instance | shows |
|---|---|---|
| `pipeline` | 3 objects, 3 captures, payload and NOP commands, clock to 2, any result, garbage on the stream | ownership, conservation, outcomes, queue sizes, deadline order |
| `pipeline_faults` | 2 objects, watchdog, disconnects, two generations, fair tasks | refinement of `CommandLifecycle`; every object returns to the pool |
| `endpoint` | SQ 3, CQ 4, 5 commands owed, any message at any time, all resets | the ownership assertions of the code hold, one answer each |
| `bridge` | 3 commands (payload, invalid, NOP), engine resets at any step, the watchdog between commands, fair | one answer, engine authorized, both ends in step, every command is answered |
| `bridge_resets` | 3 payload commands, queue, device and engine resets, deadlines | success is reported only for what the engine finished; the single running slot is never overfilled; one task at a time uses the COMPLETION window, and rings for its own message |
| `engine` | 16 addresses, chunk 4, word 2, transfers to 8, every descriptor, every ioctl over four layouts, fair | validator exact, driver's checks suffice, containment, success is whole, termination |
| `driver` | 1 request, 1 buffer, 2 waiters, every reset, lost interrupts, failing calls, close, removal | counts, reaping, buffers stay, results are final |
| `driver_live` | 2 requests of one file, 1 waiter, lost interrupts, failing calls, close, removal, fair | a request that ended makes the file readable, whatever becomes of the other; every request ends |
| `lifecycle` | 1 file with a request and a buffer, every step of probe failing or not, self-tests, 1 reset, removal, fair | exact unwinding, no access to what is gone, queues have rings, nothing outlives the device structure, the way back ends |
| `health` | the periods of the code, one producer and one poller, 125 ms late, any freeze and thaw, overload reset, fair | no false alarm, no reset without cause, evidence first, a hang always ends |
| `retained` | 2 commands, 2 events, ring of 2, log queue of 1, 2 emitters, 2 resets at any word | boot trusts whole records, clean resets lose nothing, ring in order, drops counted exactly |

Two or three objects are enough for every pair of tasks to hold one each while
a third is queued; three commands are one in service, one queued behind it and
one answered; in the engine every operand can start and end inside of a chunk,
at its boundary and at both ends of the address space. One request is enough for
the reference counts of the driver, which no two requests share but through the
buffer; its two waiters race with each other and with every way a request ends.
It is not enough for readiness: the requests of a file share one counter,
`completed_requests`, and a request that is reaped or disowned without having been
counted would take the count of another. `ReadableWhenTerminal` is therefore
checked with two requests, in `driver_live`.
In `lifecycle` one open file is enough to delay and to outlive a removal: files
share nothing but the device's reference count and `submit_lock`. Two files
without a reset were checked too, for the invariants, and the theorems below are
for any number.
`health` uses the largest lateness for which its properties hold at this grain:
with `Late` = 2 (250 ms, one sampling period) TLC finds a false alarm.

Some invariants hold on the instances above without being listed in a run, and
are worth checking again whenever a module changes: `TypeOK` of `CommandPipeline`
(proved below), `PcieEndpoint`, `DriverRequests`, `DriverLifecycle`,
`PayloadEngine`, `HealthWatchdog` and `RetainedRecord`; `StateFitsOwner` of the
command service (proved below as a part of `OutcomeInv`); `PollerArmed` of the driver; `NoStaleEntry` on `MCBridge.cfg`.

### Disagreements with the docs

One run ends in a violation. It checks what the docs say and the code does not
keep:

| run | what happens | said in |
|---|---|---|
| `abort_race` | an abort request that crosses the engine's result is published as a completion; the command is answered twice | command-lifecycle.md:46 |

### Further disagreements

TLC refutes further sentences of the docs, which the modules state. They are not
runs of their own; each is reproduced by checking the one property on the cfg
named, with the change named and without its SYMMETRY line:

| property | cfg, change | what happens | said in |
|---|---|---|---|
| `NoStaleEntry` | `MCBridge.cfg`, `Faults = {"queuereset"}` | a queue reset during authorization: the old command is answered in the new CQ | descriptor-format.md:187 |
| `ResetAwaitsAck` | `MCBridge.cfg`, `Faults = {"watchdog"}` | any 32 bytes end the wait for the reset acknowledgment, an engine result under way included | management-peripherals.md:116 |
| `ReadableIsReal` | `MCDriverRequests.cfg` | a reaping WAIT overtakes the readiness counter: readable with nothing to reap | linux-uapi.md:58 |
| `RequestsFinish` | `MCDriverLive.cfg`, `Waiters = {}`, `IrqShares = TRUE` | `cq_lock` is taken without masking the interrupt that takes it too | linux-uapi.md:79 |
| `RequestsFinish` | `MCDriverLive.cfg`, `Waiters = {}`, `QueueDepth = 4`, `MaxResets = 1`, `Outside = {"device"}` | a request submitted between the observation of a reset and the reset work never ends | linux-uapi.md:47 |
| `RequestsFinish` | the same, `Outside = {"queue", "engine"}` | an engine reset replaces the reason of a queue reset before the driver read it; the driver takes the queues for enabled, and a request submitted to them never ends | linux-uapi.md:47 |
| `LoadedIsLive` | `MCDriverLive.cfg`, `QueueDepth = 4`, `MaxResets = 1`, `Outside = {"device"}`, `Buffers = {b1}` | the reset work reads a request that was freed | linux-pci-driver.md:48 |
| `PollIsMapped` | `MCDriverLifecycle.cfg` | `poll` looks at the flags without a lock and reads BAR0 after a removal unmapped it | linux-pci-driver.md:23 |
| `WorkersAreStopped` | `MCDriverLifecycle.cfg` | a failure after the polling self-test passes below the label that stops the worker: it outlives the device structure | linux-pci-driver.md:23 |
| `QueuesHaveRings` | `MCDriverLifecycle.cfg`, `EarlyResets = TRUE` | a reset from before the queues were configured is handled after: the driver takes them for disabled and frees the rings of queues that are on | linux-pci-driver.md:23 |
| `StuckTaskLatched` | `MCHealthWatchdog.cfg` | the stuck-task identity changes within an episode | firmware-architecture.md:128 |
| `NamesActiveCommand` | `MCRetainedRecord.cfg` | the record loses the active command | roadmap.md:187 |

The docs give 100 ms as the health sampling period
(firmware-architecture.md:127, management-peripherals.md:110); the code samples
every 250 ms, and so does the model. The mutant `SamplePeriodDocumented` samples
more often than the producer runs, as the docs would have it: the producer is
called stuck.

descriptor-format.md says that "a duplicate outstanding ID is rejected" (41), with
DUPLICATE_ID as the fifth test of the validator (158). The code has the constant
`VAMS_ERR_DUPLICATE_ID` (`firmware/include/vams_abi.h:26`) and no test that returns
it: neither `vams_command_validate` nor the endpoint compares a command with the
others. `ValidatorExact` is about one descriptor and the tests the code makes, and
the hosts of `Bridge` submit each identity once.

Because of `abort_race`, `NoStaleEntry` and `ResetAwaitsAck` the passing `bridge`
runs are each limited to the disturbances under which their properties hold. The
limits are the `Faults` of the cfg and, for deadlines, `MaxTime = 0`. In
particular a watchdog reset while a command is in service ("watchdog") is
in no passing run of the composition: after it the two ends may disagree about
where a message ends, and `AnsweredOnce`, `InStep`, `EngineAuthorized` and
`SuccessIsReal` all fail. `pipeline_faults` and `endpoint` check what each end
keeps then.

### Fairness

- Firmware tasks: weak fairness of every task step. A task that can run does, as
  long as no task of higher priority runs for ever, and each of them sleeps or
  waits in every turn of its loop.
- The monitor and the threads it watches: weak fairness of "the clock ticks or a
  due thread runs" (`Tick \/ Due`); a frozen thread is not due. The clock waits
  for a thread that is as late as `Late` allows, so neither keeps the other from
  its turn for ever.
- Time, device timers, stream delivery and the engine: weak fairness; QEMU's main
  loop serves timers and the chardev.
- The driver: weak fairness of workers, of callers inside the driver, of the
  endpoint and of an interrupt that is pending. The last promises little: in
  `driver_live` any interrupt may be lost, and a lost one is not pending. Strong
  fairness of the reset work and of a submitter that waits for a lock: the mutex
  is handed over to who waits for it, the spinlock serves in turn.
- Probe and removal: weak fairness of the thread that runs them, of handlers and
  works that have begun, and of a caller inside of `vams_submit`; strong fairness
  of `ExitRemoving`, since a kernel mutex is handed over to who waits for it and
  callers cannot keep `submit_lock` from a removal for ever. None of the endpoint
  or of what programs call.
- The engine: weak fairness of the steps that do not fail.
- Nothing is assumed of hosts, faults, resets, freezing or thawing, but that
  `bridge` needs a host that takes what is in the CQ.

## Proofs

| theorem | module | says |
|---|---|---|
| `TypeCorrect` | `CommandPipelineProofs` | `Spec => []TypeOK` of the command service, for any pool, peer, bounds and faults |
| `BlocksHaveOneOwner` | `CommandPipelineProofs` | `Spec => []OneOwner`: no command block is lost, freed twice, queued twice or held by two tasks, for a pool of any size |
| `CommandsConserved` | `CommandOutcomeProofs` | `Spec => []Conserved`: what was captured is in one live block or published once |
| `OutcomesAreOwn` | `CommandOutcomeProofs` | `Spec => []OutcomeIsOwn`: what is published is the outcome of the command in the block |
| `PoolQueuesNeverOverflow` | `CommandOutcomeProofs` | `Spec => []OnlyRunningQueueOverflows`: only the running slot can be found full |
| `PipelineImplementsLifecycle` | `CommandOutcomeProofs` | `Spec => ImplementsLifecycle`: the refinement of `CommandLifecycle` |
| `SchedulerIsEarliestDeadlineFirst` | `CommandOutcomeProofs` | `Spec => EarliestDeadlineFirst`, an action property |
| `AssertionsTheorem` | `PcieEndpointProofs` | `Spec => []AssertionsHold`: no `g_assert` of the endpoint fails, for queues of any depth |
| `AnswersTheorem` | `PcieEndpointProofs` | `Spec => []OneAnswerEach`, for queues of any depth |
| `ValidatorIsExact` | `PayloadEngineProofs` | the validator accepts exactly the legal descriptors |
| `VerdictIsExact` | `PayloadEngineProofs` | `Spec => []ValidatorExact` |
| `PrevalidationTheorem` | `PayloadEngineProofs` | `Spec => []DriverPrevalidates`: the firmware refuses nothing the ioctl let through but a misaligned VECTOR_ADD |
| `TransfersStayInBuffers` | `PayloadEngineProofs` | `Spec => []StaysInBuffers` |
| `FailuresAreContained` | `PayloadEngineProofs` | `Spec => []FailureIsContained` |
| `NoFalseAlarmTheorem` | `HealthWatchdogProofs` | `Spec => []NoFalseAlarm`, assuming `Timely` |
| `ExpiryTheorem` | `HealthWatchdogProofs` | `Spec => []ExpiryHasCause`, assuming `Timely` |
| `EvidenceTheorem` | `HealthWatchdogProofs` | `Spec => []EvidenceBeforeReset`, assuming `Timely` |
| `RecordTheorem` | `RetainedRecordProofs` | `Spec => []BootTrustsWholeRecords`, for any number of resets, at any word |
| `DropsTheorem` | `RetainedRecordProofs` | `Spec => []DropsExact`, for any queue depth and any saturation value |
| `EventsTheorem` | `RetainedRecordProofs` | `Spec => EventsInOrder`, an action property, for any number of slots |
| `UnwindTheorem` | `DriverUnwindProofs` | `Spec => []UnwindIsExact`, for any number of files |
| `AccessTheorem` | `DriverUnwindProofs` | `Spec => []AccessIsMapped`, for any number of files |
| `QueuesTheorem` | `DriverUnwindProofs` | `Spec => []QueuesHaveRings`, assuming `~EarlyResets` |
| `FreedTheorem` | `DriverReferenceProofs` | `Spec => []FreedIsQuiet`, for any number of files |

The command service:

- `TypeCorrect` needs `TaskFits` (a task that is not idle holds an object of the
  pool, and each task is only in its own program locations): otherwise a step
  that updates `cmd[task[t].obj]` might leave the type. `Typed` is the
  conjunction, preserved action by action. The lemmas on the portal say that each
  operator leads from portal states to portal states, whatever the stream carries.
- `BlocksHaveOneOwner` takes `Typed /\ OneOwner` as its inductive invariant; the
  types are needed to know that what a busy task holds is a block at all.
  `OneOwner` says that the queues repeat nothing, that the places a block can be
  in are disjoint (`Apart`) and, while the firmware runs, that they cover the
  pool (`Covers`). The lemma `Moved` carries the argument: if one block leaves a
  place for another and the rest stays, both hold again; if it gets lost, as by a
  failed put that stops the firmware, the places are still disjoint. Each action
  is then one move, and `AppendOwned`, `TailOwned` and `PutOwned` say what a
  queue operation does to the set of blocks in a queue.
- `OutcomeInv` adds `StateFitsOwner` (the state of a block is one its place
  expects), `Answers` (the completion in a block names its command, and reports
  success exactly if it completed) and that free blocks are cleared. Whatever a
  step does, it changes one block at most and in one of the ways of `Effect`: a
  command is captured, goes on to a successor of its state, is published, all are
  forgotten by a reset, or nothing happens. There is one lemma per step that says
  so; conservation, the outcomes and the refinement are each a matter of these
  five cases. For the refinement each of them is a step of `CommandLifecycle`
  under the mapping, or a stutter.
- `PoolQueuesNeverOverflow` counts: a queue without repetitions holds no more
  than the pool, and not the block that is being put.
- `SchedulerIsEarliestDeadlineFirst` takes types only: the selection compares with
  all that is ready.

The endpoint: `EndpointInv` says `Sound(ep)`, that is the ownership rules of
`vams_pcie_check_invariants` and `Room`, one free CQ slot for the command in
service; and that what the host is owed is what SQ, service and CQ hold. `Room`
is why the assertion in the publication holds: the endpoint fetches only when the
CQ has a slot, and nothing but an answer fills it. Each handler is shown to keep
`Sound` and to change the load as the host sees it, `ProcessSq` at its end
included.

The engine and the validator:

- `ValidatorIsExact` rests on two lemmas on wrapping arithmetic,
  `RangeOverflowsExact` and `RangesOverlapExact`, and compares test by test. It
  assumes `WidthAssumption` (the largest transfer is smaller than the address
  space).
- The other theorems share the inductive invariant `EngineInv`: the
  descriptor is the translation of an accepted input or any descriptor, the
  verdict is the validator's, a running engine has a legal descriptor, the
  offset stays within the length, and everything touched or changed so far lies
  within the operands. It holds for every chunk size, width and layout.
- `PrevalidationTheorem` shows that what the ioctl lets through translates to
  ranges inside of buffers, which neither overflow nor, for two buffers, overlap.

Health: the three theorems assume `Timely`: `Period[t] + Late < MissLimit *
Sample` for every task, and `BootTime + Sample + Late < Timeout`. With the values
of `main.c` (both periods 250 ms, two misses, a timeout of 1000 ms) this says
that a thread is late by less than 250 ms and that boot and lateness together
take less than 750 ms. Nothing in the code but the priorities of the threads
bounds the lateness, so it is a hypothesis. The `health` run has `Late` at 125 ms; with 250 ms there is a false
alarm, so the hypothesis is sharp. `HealthInv` relates clocks: a task whose epoch
has not moved ran at least as long ago as the samples it missed took
(`Overlooked`), hence no two misses without a freeze; while nothing is wrong the
watchdog outlasts the monitor's sleep and its lateness, a reboot included
(`Petted`); a failure that was counted is on record, and the record names a task
that froze (`Evident`).

The record and the event log:

- `RecordTheorem` needs to know more than what boot sees: `RecordInv` follows the
  write. `WrittenBefore(n)` says that the fields before the `n`th have their new
  values; as long as the header or the CRC is the one to be written, a CRC that
  fits the contents fits the old ones (`committed`); later the CRC is the new
  one, and contents that fit it are the new ones. A cleared window has a CRC that
  fits nothing, which is `NoCrcAssumption`.
- `DropsTheorem` rests on `DropInv`: what an emitter has read of the counter is
  not ahead of it, so a swap that succeeds adds exactly one.
- `EventsTheorem` is arithmetic modulo the number of slots: `NextSlot` says
  how the slots shift when `head` moves around the ring, `SlotsDiffer` that only
  the last slot read is the one written, `RecentNoted` that the sequence read
  afterwards is the old one with the new event, less its oldest if it was full.

Probe and removal of the driver:

- `UnwindTheorem`: `Held` says for every place of the thread, in probe too, what
  is held there (`HeldAt` on the way up, `AheadOf` on the way back). It is
  preserved because each label releases what the step before it had acquired,
  which `ProbeTable` and `ExitTable` compare step by step, and because nobody
  else acquires or releases anything (`Apart`). `AheadIs` shows that the table is
  the union over the remaining steps, as `UnwindIsExact` has it. `Types` gives
  the records their fields.
- `AccessTheorem` adds `Users`: a handler that runs is installed; a caller in
  `vams_submit` holds the lock, and does so only before `removing` is set; the
  polling worker is gone once it was cancelled. With `Held` each of them finds
  the BAR and the rings (`MappedThen`).
- `QueuesTheorem` adds `Configured`: queues that are on are ready and no reset of
  them is outstanding, so that `vams_disable_queues` does not skip them.
- `FreedTheorem` adds `References`. `FileFits` counts, for each file, its
  descriptor and its request, and for its buffer the handle and the request that
  uses it. `Counted` says that the device is referenced by the thread that has
  not finished and by every file that is referenced. `Stops` says up to which
  step of removal requests may be in the table and the reset work queued, and who
  holds the lock. A put that frees is then one that leaves nobody: `PutCounts`
  and `FinishCounts` say what happens to the cardinality.

TLC checked the inductive invariants on the instances before they were proved.
Assumptions are the named `ASSUME`s of the modules; TLC evaluates them in every
run.

Only model-checked:

- all liveness, which needs fairness and `ENABLED`;
- `SuccessIsWhole` of the engine and the type of `mem`: they depend on what the
  fold in `AddWords` computes, which takes an induction over words;
- the requests of the driver (`RefsMatchHolders`, `ReadableWhenTerminal`,
  `ReapedOnce`, `DeviceOwnsItsBuffers`, `TerminalIsFinal`);
- the composition `Bridge`. Its invariants hold only for the disturbances of each
  run, and say of each message under way to which state of both ends it belongs.


## Not modelled

- Mailbox: the host side can post one message, at power on.
- The timer test of the bare-metal program (`firmware/baremetal`): it looks at a
  flag and then waits for an interrupt, and is not part of the firmware.
- Pinning, scatter-gather and mapping of user pages, which are the kernel's.
- The telemetry and diagnostic counters of firmware and devices.
- The debug block of the endpoint (P15) but for its DMA faults.
- Board, boot code, ABI generator, tests and scripts: no concurrent state.

## Plan

In order; the first five items are done.

1. `CommandPortal`, `CommandPipeline`, `CommandLifecycle`: the core, its runs,
   `TypeCorrect` and `BlocksHaveOneOwner`.
2. `PcieEndpoint` and `Bridge`: the composition and its races.
3. `DriverRequests`; `CommandValidation` and `PayloadEngine` with their theorems.
4. `HealthWatchdog` and `RetainedRecord`.
5. `DriverLifecycle`, the event log, and the theorems about both and about the
   record.
6. Model more: the endpoint with its checkpoints; driver and endpoint composed,
   for requests across queue resets end to end; the health tracker composed with
   the record.
7. Prove more: the requests of the driver, by counting the holders of each
   request; then the composition, from the invariants of its two ends and one on
   the messages under way.
