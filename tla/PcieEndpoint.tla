---------------------------- MODULE PcieEndpoint ----------------------------
(***************************************************************************)
(* The command path of the PCIe endpoint (vams_pcie.c, built by the        *)
(* patches under qemu/patches) with its private bridge to the management   *)
(* controller: submission and completion queues, the one command in        *)
(* service, the modelled engine, and the queue, engine and device resets.  *)
(* The device is a record and every function of the C code an operator     *)
(* from its state before to its state after; QEMU runs them under one lock,*)
(* so a register write or a callback is one step.                          *)
(*                                                                         *)
(* Abstractions.  A ring is the sequence of its occupied slots.  The       *)
(* comparisons of engine_generation with reset_generation and of the two   *)
(* engine epochs are the one flag "current".  Whether the engine is done   *)
(* before the deadline, and with which status, is open.                    *)
(*                                                                         *)
(* Left out: the interrupt latch, the error registers, queue base and      *)
(* depth registers, payload data, failing DMA, the fault injector and the  *)
(* checkpoints of the debug build (a hung engine is one that never         *)
(* finishes), and the mode without a management controller.                *)
(***************************************************************************)
EXTENDS BridgeLink, FiniteSets

CONSTANTS
    SqDepth, CqDepth,        \* ring sizes; one slot stays empty
    HighWater, LowWater      \* the CQ watermarks the driver programs

ASSUME DepthAssumption ==
    /\ SqDepth \in Nat /\ SqDepth > 1
    /\ CqDepth \in Nat /\ CqDepth > 1
    /\ HighWater \in 1 .. CqDepth - 1
    /\ LowWater \in 0 .. HighWater - 1

VARIABLE ep

EndpointState ==
    [sq : Seq(Submission),     \* descriptors between SQ head and tail
     cq : Seq(Completion),     \* entries between CQ head and tail
     enabled : BOOLEAN,        \* both queues and the device are enabled
     resetting : BOOLEAN,      \* DEVICE_STATUS.RESETTING, reset_timer armed
     backpressure : BOOLEAN,   \* cq_backpressure
     inflight : BOOLEAN,       \* bridge_inflight
     final : BOOLEAN,          \* bridge_waiting_final
     discard : BOOLEAN,        \* bridge_discard_completion
     ackTimer : BOOLEAN,       \* firmware_ack_timer is armed
     engine : BOOLEAN,         \* engine_inflight, ENGINE_BUSY
     current : BOOLEAN,        \* no reset since the engine was started
     sub : Submission,         \* bridge_submission
     comp : Completion,        \* bridge_completion
     hup : BOOLEAN,            \* CHR_EVENT_CLOSED is not delivered yet
     out : Seq(Unit),          \* what this step writes to the stream
     failed : BOOLEAN]         \* a g_assert has failed

EndpointInit ==
    [sq |-> << >>, cq |-> << >>, enabled |-> TRUE, resetting |-> FALSE,
     backpressure |-> FALSE, inflight |-> FALSE, final |-> FALSE,
     discard |-> FALSE, ackTimer |-> FALSE, engine |-> FALSE,
     current |-> FALSE, sub |-> GarbageSubmission, comp |-> ZeroCompletion,
     hup |-> FALSE, out |-> << >>, failed |-> FALSE]

-----------------------------------------------------------------------------
(* Queues *)

Checked(e, condition) == [e EXCEPT !.failed = @ \/ ~condition]

CqFull(e) == Len(e.cq) = CqDepth - 1

UpdateBackpressure(e) ==
    [e EXCEPT !.backpressure =
        /\ e.enabled
        /\ IF @ THEN Len(e.cq) > LowWater ELSE Len(e.cq) >= HighWater]

PublishCompletion(e, c) ==
    UpdateBackpressure([Checked(e, ~CqFull(e)) EXCEPT
                           !.cq = Append(@, [c EXCEPT !.tag = FALSE])])

(* Mutant: a submission is sent although one is in service. *)
ProcessSqPipelined(e, conn) ==
    IF ~e.enabled \/ e.sq = << >> \/ CqFull(e) \/ e.backpressure \/ ~conn
    THEN e
    ELSE [e EXCEPT !.inflight = TRUE, !.final = FALSE, !.sub = Head(e.sq),
                   !.sq = Tail(@), !.out = @ \o SubmissionUnits(Head(e.sq))]

(* vams_pcie_process_sq.  A submission that cannot be written stays in the *)
(* queue, and nothing tries again before the next doorbell.                *)
ProcessSq(e, conn) ==
    IF ~e.enabled \/ e.sq = << >> \/ CqFull(e) \/ e.backpressure
       \/ e.inflight \/ e.discard \/ e.engine
    THEN e
    ELSE IF ~conn THEN [e EXCEPT !.sub = Head(e.sq), !.final = FALSE]
    ELSE [e EXCEPT !.inflight = TRUE, !.final = FALSE, !.sub = Head(e.sq),
                   !.sq = Tail(@), !.out = @ \o SubmissionUnits(Head(e.sq))]

-----------------------------------------------------------------------------
(* Engine and bridge *)

CancelEngine(e) == [e EXCEPT !.engine = FALSE]

(* vams_pcie_report_engine_result, when the stream takes the result *)
ReportEngineResult(e, c, discard) ==
    [Checked(e, ~e.inflight /\ ~e.discard) EXCEPT
        !.inflight = ~discard, !.final = ~discard, !.discard = discard,
        !.ackTimer = @ \/ discard, !.comp = c,
        !.out = Append(@, CompletionUnit(c))]

(* Report to the firmware; a result that cannot be written to the stream   *)
(* is published at once, with the status "otherwise", and the submission   *)
(* queue is not looked at.                                                 *)
ReportOrPublish(e, c, otherwise, conn) ==
    LET p == [c EXCEPT !.status = otherwise]
    IN  IF conn THEN ReportEngineResult(e, c, FALSE)
        ELSE PublishCompletion([e EXCEPT !.comp = p], p)

AbortEngineToFirmware(e, status, conn) ==
    LET c == [e.comp EXCEPT !.status = status]
    IN  IF conn THEN ReportEngineResult(CancelEngine(e), c, TRUE)
        ELSE [CancelEngine(e) EXCEPT !.comp = c]

(* Mutant: the cancelled request stays in flight. *)
CancelBridgeRequestKeeps(e) ==
    IF e.inflight THEN [e EXCEPT !.discard = TRUE] ELSE e

CancelBridgeRequest(e) ==
    IF e.inflight
    THEN [e EXCEPT !.discard = TRUE, !.inflight = FALSE, !.final = FALSE]
    ELSE e

ScheduleEngine(e) ==
    [Checked(e, ~e.engine /\ e.sub.payload) EXCEPT
        !.engine = TRUE, !.current = TRUE]

(* vams_pcie_engine_complete, with the status of the operation *)
EngineComplete(e, status, conn) ==
    LET idle == CancelEngine(Checked(e, e.current))
    IN  IF ~e.current THEN idle
        ELSE ReportOrPublish(idle, [e.comp EXCEPT !.status = status], status,
                             conn)

(* What cancel and abort of both resets have in common *)
Invalidate(e, status, conn) ==
    LET c == CancelBridgeRequest(e)
    IN  IF c.engine THEN AbortEngineToFirmware(c, status, conn)
        ELSE CancelEngine(c)

QueueReset(e, conn) ==
    [Invalidate(e, "QRESET", conn) EXCEPT
        !.enabled = FALSE, !.sq = << >>, !.cq = << >>,
        !.backpressure = FALSE, !.current = FALSE]

DeviceReset(e, conn) ==
    IF e.resetting THEN e
    ELSE [Invalidate(e, "RESET", conn) EXCEPT
             !.enabled = FALSE, !.sq = << >>, !.cq = << >>,
             !.backpressure = FALSE, !.current = FALSE, !.resetting = TRUE]

(* Mutant: the cancelled command is reported to nobody. *)
EngineResetDrops(e, conn) ==
    ProcessSq([CancelEngine(e) EXCEPT !.current = FALSE], conn)

(* Mutant: the cancelled command is published and reported. *)
EngineResetTwice(e, conn) ==
    LET idle == [CancelEngine(e) EXCEPT !.current = FALSE]
        c == [e.comp EXCEPT !.status = "RESET"]
    IN  IF e.engine /\ conn
        THEN PublishCompletion(ReportEngineResult(idle, c, FALSE), c)
        ELSE ProcessSq(idle, conn)

EngineReset(e, conn) ==
    LET idle == [CancelEngine(e) EXCEPT !.current = FALSE]
    IN  IF e.engine
        THEN ReportOrPublish(idle, [e.comp EXCEPT !.status = "RESET"],
                             "RESET", conn)
        ELSE ProcessSq(idle, conn)

-----------------------------------------------------------------------------
(* Messages from the firmware *)

(* vams_pcie_is_management_reset *)
IsManagementReset(c) == c.status = "RESET" /\ c.tag

AckManagementReset(e, c, conn) ==
    IF conn THEN [e EXCEPT !.out = Append(@, CompletionUnit(c))] ELSE e

CanReceiveReply(e) == e.engine \/ e.inflight \/ e.discard

(* A message while the engine runs is a request about the running command: *)
(* a reset notice, an abort, or something invalid that fails the command.  *)
ReceiveRequest(e, c, conn) ==
    LET mine == c.id = e.sub.id
        idle == [CancelEngine(e) EXCEPT !.current = FALSE]
    IN  IF mine /\ c.status = "RESET"
        THEN LET p == PublishCompletion(idle, c)
             IN  IF IsManagementReset(c) THEN AckManagementReset(p, c, conn)
                 ELSE p
        ELSE ReportOrPublish(idle,
                 IF mine /\ c.status = "TIMED_OUT" THEN c
                 ELSE MakeCompletion(e.sub.id, "FAILED"), "FAILED", conn)

(* Mutant: any first reply to a payload command starts the engine. *)
ReceiveReplyUnchecked(e, c, conn) ==
    LET r == [e EXCEPT !.comp = c, !.inflight = FALSE, !.final = FALSE]
    IN  IF e.discard
        THEN ProcessSq([e EXCEPT !.discard = FALSE, !.ackTimer = FALSE,
                                 !.comp = c], conn)
        ELSE IF ~e.final /\ e.sub.payload
        THEN ScheduleEngine(r)
        ELSE ProcessSq(PublishCompletion(r, c), conn)

(* Mutant: the authorization is published as the result. *)
ReceiveReplyDirect(e, c, conn) ==
    LET r == [e EXCEPT !.comp = c, !.inflight = FALSE, !.final = FALSE]
    IN  IF e.discard
        THEN ProcessSq([e EXCEPT !.discard = FALSE, !.ackTimer = FALSE,
                                 !.comp = c], conn)
        ELSE ProcessSq(PublishCompletion(r, c), conn)

(* Otherwise it is the reply to the command in service, to be discarded, to *)
(* start the engine, or to be published.                                   *)
ReceiveReply(e, c, conn) ==
    LET r == [e EXCEPT !.comp = c, !.inflight = FALSE, !.final = FALSE]
    IN  IF e.discard
        THEN ProcessSq([e EXCEPT !.discard = FALSE, !.ackTimer = FALSE,
                                 !.comp = c], conn)
        ELSE IF ~e.final /\ c.status = "SUCCESS" /\ e.sub.payload
        THEN ScheduleEngine(r)
        ELSE LET p == PublishCompletion(r, c)
             IN  ProcessSq(IF IsManagementReset(c)
                           THEN AckManagementReset(p, c, conn) ELSE p, conn)

(* vams_pcie_bridge_receive *)
BridgeReceive(e, c, conn) ==
    IF e.engine THEN ReceiveRequest(e, c, conn) ELSE ReceiveReply(e, c, conn)

(* vams_pcie_bridge_event for CHR_EVENT_CLOSED *)
BridgeClosed(e, conn) ==
    LET idle == [CancelEngine(e) EXCEPT !.inflight = FALSE, !.final = FALSE,
                     !.discard = FALSE, !.ackTimer = FALSE]
    IN  IF ~e.inflight /\ ~e.discard /\ ~e.engine THEN e
        ELSE ProcessSq(
                 IF ~e.discard /\ ~CqFull(e)
                 THEN PublishCompletion(idle, MakeCompletion(e.sub.id, "FAILED"))
                 ELSE idle, conn)

(* vams_pcie_firmware_ack_timeout *)
FirmwareAckTimeout(e, conn) ==
    ProcessSq([Checked(e, e.discard) EXCEPT
                  !.discard = FALSE, !.ackTimer = FALSE], conn)

-----------------------------------------------------------------------------
(* The steps of the endpoint.  "owed" is what the host is owed: the        *)
(* commands it has put into the submission queue since the queues were     *)
(* last reset, less the completions it has taken.                          *)
VARIABLE owed

vars == <<ep, owed, linkVars>>

CONSTANTS
    HostCommands,   \* the submissions the host may make
    Replies,        \* the messages an arbitrary firmware may send
    MaxOwed         \* bound on the commands the host keeps outstanding

ASSUME HostAssumption ==
    /\ HostCommands \subseteq Submission
    /\ Replies \subseteq Completion
    /\ MaxOwed \in Nat

Init ==
    /\ ep = EndpointInit
    /\ owed = 0
    /\ LinkInit

Perform(e) ==
    /\ ep' = [e EXCEPT !.out = << >>]
    /\ down' = down \o e.out

Running == ~ep.failed

(* SQ doorbell: the driver checks for room first. *)
HostSubmit(s) ==
    /\ Running /\ ep.enabled
    /\ Len(ep.sq) < SqDepth - 1
    /\ owed < MaxOwed
    /\ Perform(ProcessSq([ep EXCEPT !.sq = Append(@, s)], connected))
    /\ owed' = owed + 1
    /\ UNCHANGED <<up, connected>>

(* The driver takes one completion and moves the CQ head. *)
HostTake ==
    /\ Running /\ ep.enabled
    /\ ep.cq # << >>
    /\ Perform(ProcessSq(UpdateBackpressure([ep EXCEPT !.cq = Tail(@)]),
                         connected))
    /\ owed' = owed - 1
    /\ UNCHANGED <<up, connected>>

HostQueueReset ==
    /\ Running
    /\ Perform(QueueReset(ep, connected))
    /\ owed' = 0
    /\ UNCHANGED <<up, connected>>

HostDeviceReset ==
    /\ Running
    /\ ~ep.resetting
    /\ Perform(DeviceReset(ep, connected))
    /\ owed' = 0
    /\ UNCHANGED <<up, connected>>

HostEngineReset ==
    /\ Running
    /\ Perform(EngineReset(ep, connected))
    /\ UNCHANGED <<owed, up, connected>>

(* The driver configures the queues and enables the device again. *)
HostEnable ==
    /\ Running /\ ~ep.enabled /\ ~ep.resetting
    /\ Perform(ProcessSq([ep EXCEPT !.enabled = TRUE], connected))
    /\ UNCHANGED <<owed, up, connected>>

(* vams_pcie_reset_complete *)
ResetTimer ==
    /\ Running /\ ep.resetting
    /\ ep' = [ep EXCEPT !.resetting = FALSE]
    /\ UNCHANGED <<owed, linkVars>>

EngineTimer ==
    /\ Running /\ ep.engine
    /\ \E status \in {"SUCCESS", "FAILED", "TIMED_OUT"} :
          Perform(EngineComplete(ep, status, connected))
    /\ UNCHANGED <<owed, up, connected>>

AckTimer ==
    /\ Running /\ ep.ackTimer
    /\ Perform(FirmwareAckTimeout(ep, connected))
    /\ UNCHANGED <<owed, up, connected>>

EndpointReceive ==
    /\ Running /\ up # << >>
    /\ CanReceiveReply(ep)
    /\ Perform(BridgeReceive(ep, Head(up), connected))
    /\ up' = Tail(up)
    /\ UNCHANGED <<owed, connected>>

EndpointClosed ==
    /\ Running /\ ep.hup
    /\ Perform([BridgeClosed(ep, connected) EXCEPT !.hup = FALSE])
    /\ UNCHANGED <<owed, up, connected>>

(* The socket closes: what is in flight on it is lost.  It opens again     *)
(* only after the endpoint has heard of it.                                *)
Disconnect ==
    /\ connected
    /\ up' = << >> /\ down' = << >> /\ connected' = FALSE
    /\ ep' = [ep EXCEPT !.hup = TRUE]
    /\ UNCHANGED owed

Connect ==
    /\ ~connected /\ ~ep.hup
    /\ connected' = TRUE
    /\ UNCHANGED <<ep, owed, up, down>>

Commands ==
    \/ \E s \in HostCommands : HostSubmit(s)
    \/ HostTake

Resets ==
    \/ HostQueueReset \/ HostDeviceReset \/ HostEngineReset
    \/ HostEnable \/ ResetTimer

Callbacks == EngineTimer \/ AckTimer \/ EndpointReceive

(* The firmware is left open: it may send any message at any time. *)
FirmwareSend ==
    /\ connected /\ up = << >>
    /\ \E c \in Replies : up' = <<c>>
    /\ UNCHANGED <<ep, owed, down, connected>>

FirmwareTake ==
    /\ down # << >>
    /\ down' = << >>
    /\ UNCHANGED <<ep, owed, up, connected>>

Next ==
    \/ Commands \/ Resets \/ Callbacks
    \/ EndpointClosed \/ Disconnect \/ Connect
    \/ FirmwareSend \/ FirmwareTake

Spec == Init /\ [][Next]_vars

-----------------------------------------------------------------------------
(* Properties *)

(* Every variable has the shape the code gives it. *)
TypeOK ==
    /\ ep \in EndpointState
    /\ owed \in Nat
    /\ LinkTypeOK

(* No g_assert of the endpoint fails, whatever the firmware sends and      *)
(* whenever the host resets: a completion always finds a free CQ slot, a   *)
(* result is reported only while nothing else owns the bridge, the timer   *)
(* finds the discard it was armed for, and one at most of a request, a     *)
(* discarded reply and the engine owns the command in service, as          *)
(* vams_pcie_check_invariants has it.                                      *)
AssertionsHold ==
    /\ ~ep.failed
    /\ ~(ep.inflight /\ ep.discard)
    /\ ~(ep.inflight /\ ep.engine)
    /\ ~(ep.discard /\ ep.engine)
    /\ ep.final => ep.inflight
    /\ ep.engine => ep.current /\ ep.sub.payload
    /\ ep.ackTimer => ep.discard

(* Each command of the host is in exactly one place, so it gets exactly    *)
(* one completion: still in the SQ, in service, or answered in the CQ.     *)
(* Aborts, engine resets, garbled replies and disconnects lose none and    *)
(* answer none twice.                                                      *)
OneAnswerEach ==
    owed = Len(ep.sq) + Len(ep.cq)
           + (IF ep.inflight \/ ep.engine THEN 1 ELSE 0)
=============================================================================
