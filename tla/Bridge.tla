------------------------------- MODULE Bridge -------------------------------
(***************************************************************************)
(* The whole command path: the PCIe endpoint (PcieEndpoint), the byte      *)
(* stream, the command portal and the firmware behind it (CommandPipeline),*)
(* driven by a host that submits each command identity once.  Nothing is   *)
(* added to the components but what joins them: a step of one is a step of *)
(* the whole that leaves the others alone.                                 *)
(***************************************************************************)
EXTENDS Naturals, Sequences, FiniteSets

CONSTANTS
    Ids, Garbage, DefaultTimeout,                          \* BridgeLink
    GenModulus, NoResult,                                  \* CommandPortal
    Objects, None, MaxTime, Horizon, MaxSeq, MaxLink,      \* CommandPipeline
    PeerSubmissions, PeerStatus,
    SqDepth, CqDepth, HighWater, LowWater,                 \* PcieEndpoint
    HostCommands, Replies, MaxOwed,
    Faults     \* the disturbances an instance includes

(* The connection holds: its loss is a matter of the components.           *)
ASSUME DisturbanceAssumption ==
    Faults \subseteq {"watchdog", "idlewatchdog", "queuereset", "devicereset",
                      "enginereset", "late"}

VARIABLES
    up, down, connected,
    portal, now, seq, bootGen, pool, cmd, validationQ, readyQ, ready,
    runningQ, completionQ, task, halted, done,
    ep, owed,
    asked,     \* history: the commands the host has submitted
    open,      \* history: those not answered and not cancelled by a reset
    ran        \* history: the commands the engine finished with SUCCESS

FW == INSTANCE CommandPipeline WITH
          Faults <- IF {"watchdog", "idlewatchdog"} \cap Faults # {}
                    THEN {"watchdog"} ELSE {}

EP == INSTANCE PcieEndpoint

fwState == <<portal, now, seq, bootGen, pool, cmd, validationQ, readyQ, ready,
             runningQ, completionQ, task, halted, done>>

epState == <<ep, owed>>

history == <<asked, open, ran>>

vars == <<up, down, connected, fwState, epState, history>>

Init ==
    /\ FW!Init
    /\ EP!Init
    /\ asked = {} /\ open = {} /\ ran = {}

-----------------------------------------------------------------------------
(* The firmware and the management device *)

(* Each timer that waits for the other end allows 100 ms.  Unless "late"   *)
(* is one of the disturbances, what is in transit arrives before it fires, *)
(* and the firmware has answered every command it holds.                   *)
InTime == "late" \in Faults \/ (up = << >> /\ down = << >>)

FirmwareStep ==
    /\ FW!Firmware
    /\ FW!RecoveryEscalate => InTime
    /\ UNCHANGED <<epState, history>>

(* The timers and the reads of the stream are callbacks of one event loop, *)
(* which performs a CPU reset they asked for before it reads again.        *)
PortalReceive ==
    /\ ~portal.reboot
    /\ FW!PortalReceive
    /\ UNCHANGED <<epState, history>>

(* no command is in service *)
Idle ==
    /\ up = << >> /\ down = << >>
    /\ ~ep.inflight /\ ~ep.engine /\ pool = Objects

(* With "idlewatchdog" the watchdog expires between commands only. *)
DeviceStep ==
    /\ FW!Device
    /\ FW!ResetAckTimeout => InTime
    /\ FW!WatchdogExpire => "watchdog" \in Faults \/ Idle
    /\ UNCHANGED <<epState, history>>

Tick == FW!Tick /\ UNCHANGED <<epState, history>>

(* The endpoint and the host *)

Submit ==
    /\ \E s \in HostCommands :
        /\ s.id \notin asked
        /\ EP!HostSubmit(s)
        /\ asked' = asked \cup {s.id}
        /\ open' = open \cup {s.id}
    /\ UNCHANGED <<fwState, ran>>

Take ==
    /\ EP!HostTake
    /\ open' = open \ {Head(ep.cq).id}
    /\ UNCHANGED <<fwState, asked, ran>>

QueueReset ==
    /\ "queuereset" \in Faults
    /\ EP!HostQueueReset
    /\ open' = {}
    /\ UNCHANGED <<fwState, asked, ran>>

DeviceReset ==
    /\ "devicereset" \in Faults
    /\ EP!HostDeviceReset
    /\ open' = {}
    /\ UNCHANGED <<fwState, asked, ran>>

EngineReset ==
    /\ "enginereset" \in Faults
    /\ EP!HostEngineReset
    /\ UNCHANGED <<fwState, history>>

Reenable ==
    /\ EP!HostEnable \/ EP!ResetTimer
    /\ UNCHANGED <<fwState, history>>

EngineTimer ==
    /\ EP!EngineTimer
    /\ ran' = IF ep'.comp.status = "SUCCESS" THEN ran \cup {ep.sub.id} ELSE ran
    /\ UNCHANGED <<fwState, asked, open>>

AckTimer ==
    /\ EP!AckTimer
    /\ InTime
    /\ "late" \in Faults \/ pool = Objects
    /\ UNCHANGED <<fwState, history>>

EndpointReceive == EP!EndpointReceive /\ UNCHANGED <<fwState, history>>

Next ==
    \/ FirmwareStep \/ PortalReceive \/ DeviceStep \/ Tick
    \/ Submit \/ Take \/ QueueReset \/ DeviceReset \/ EngineReset \/ Reenable
    \/ EngineTimer \/ AckTimer \/ EndpointReceive

Spec == Init /\ [][Next]_vars

(* The tasks are scheduled, the stream delivers, the host drains its CQ,   *)
(* and the engine and the device finish what they started.                 *)
FairSpec ==
    /\ Spec
    /\ WF_vars(FirmwareStep) /\ WF_vars(PortalReceive)
    /\ WF_vars(DeviceStep /\ ~FW!WatchdogExpire)
    /\ WF_vars(EndpointReceive) /\ WF_vars(EngineTimer) /\ WF_vars(Take)

-----------------------------------------------------------------------------
(* Properties *)

(* No command is answered twice: of the entries in the CQ at most one is   *)
(* for a given command, and none is for a command that is still in the SQ  *)
(* or in service.                                                          *)
AnsweredOnce ==
    LET answered(id) == {i \in 1 .. Len(ep.cq) : ep.cq[i].id = id}
        waiting == {ep.sq[i].id : i \in 1 .. Len(ep.sq)}
                     \cup IF ep.inflight \/ ep.engine THEN {ep.sub.id} ELSE {}
    IN  \A i \in 1 .. Len(ep.cq) :
          /\ answered(ep.cq[i].id) = {i}
          /\ ep.cq[i].id \notin waiting

(* Every entry in the CQ is for a command the host has outstanding: one    *)
(* submitted before a queue or device reset is never answered after it,    *)
(* and one already taken is not answered again.                            *)
NoStaleEntry == \A i \in 1 .. Len(ep.cq) : ep.cq[i].id \in open

(* The engine runs a command only while the firmware has it RUNNING or     *)
(* ABORTING: it was validated, dispatched before its deadline and is still *)
(* supervised by the recovery manager.                                     *)
EngineAuthorized ==
    ep.engine =>
       \E o \in Objects : /\ cmd[o].sub = ep.sub
                          /\ cmd[o].state \in {"RUNNING", "ABORTING"}

(* A payload command is reported as successful only if the engine finished *)
(* it.                                                                     *)
SuccessIsReal ==
    \A i \in 1 .. Len(ep.cq) :
       LET c == ep.cq[i] IN
       (c.status = "SUCCESS" /\ \E s \in HostCommands : s.id = c.id /\ s.payload)
          => c.id \in ran

(* No asserted put of the firmware fails, the one into the running queue   *)
(* of a single entry included: the endpoint keeps one command in service.  *)
QueuesSuffice == halted = "no"

(* Scheduler, completion task and recovery manager share the COMPLETION    *)
(* window: no two of them are between its first word and the doorbell, and *)
(* what is in it when one rings is its own message.  The firmware has no   *)
(* lock for it; that one command is in service is what keeps them apart.   *)
WindowIsOwn ==
    LET at(pcs) == {t \in {"scheduler", "completion", "recovery"} : task[t].pc \in pcs}
    IN  /\ Cardinality(at({"write", "ring", "abortwrite", "abortring"})) <= 1
        /\ \A t \in at({"ring", "abortring"}) : portal.window = cmd[task[t].obj].comp

(* Both ends agree where a message ends: no receiver ever takes a piece of *)
(* one message for another.                                                *)
InStep ==
    /\ portal.h2f => portal.sub.id # Garbage
    /\ FW!ResultPending(portal) => portal.result.id # Garbage
    /\ \A i \in 1 .. Len(portal.rx) : ~FW!IsMessage(portal.rx[i])

(* Every command of the host is answered: neither the throttled CQ, nor    *)
(* the single slot in service, nor an engine reset leaves one waiting.     *)
EveryCommandAnswered == \A id \in Ids : id \in open ~> id \notin open

(* "The RV32 reset remains pending until the PCI bridge returns the exact  *)
(* command ID, cookie, status, and error, or until a 100 ms virtual-time   *)
(* deadline expires": what the device reads while it waits ends the wait   *)
(* only if it is that acknowledgment.                                      *)
ResetAwaitsAck ==
    [][portal.ackExpected /\ ~portal'.ackExpected /\ down # down' =>
          LET c == FW!AsCompletion(Head(down))
          IN  c.id = portal.sub.id /\ c.status = "RESET"]_vars
=============================================================================
