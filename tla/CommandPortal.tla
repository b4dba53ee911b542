---------------------------- MODULE CommandPortal ----------------------------
(***************************************************************************)
(* The command portal and the reset controller of the management device    *)
(* (vams_mgmt.c, built by the patches under qemu/patches).  The device is  *)
(* a record; every register write of the firmware and every device callback*)
(* is an operator from the device's state before to its state after, so    *)
(* that the modules that run firmware or an endpoint against the device    *)
(* share one translation of it.                                            *)
(*                                                                         *)
(* Left out: the saturating event counters, the sticky diagnostic bits of  *)
(* STATUS and the reset reasons, which no code on the command path reads,  *)
(* the staging registers HOST_SUBMIT and HOST_ACK (only the qtest harness  *)
(* writes them), and the abort_result_pending flag, which only the         *)
(* x-drop-abort-result test property reads.  A register write the device   *)
(* refuses changes nothing but those bits.                                 *)
(***************************************************************************)
EXTENDS BridgeLink, Integers

CONSTANT GenModulus   \* reset_generation wraps at this value (2^32 in the code)

ASSUME GenAssumption == GenModulus \in Nat \ {0}

VARIABLE portal

CONSTANT NoResult     \* no engine result is pending

ASSUME NoResultAssumption == NoResult \notin Completion

PortalState ==
    [h2f : BOOLEAN,            \* STATUS: a submission waits for the firmware
     f2h : BOOLEAN,            \* STATUS: a completion waits for the host
     sub : Submission,         \* command_submission
     window : Completion,      \* command_completion
     result : Completion \cup {NoResult},  \* command_result while RESULT_PENDING
     rx : Seq(Unit),           \* command_rx, command_rx_pos
     resExpected : BOOLEAN,    \* command_result_expected
     active : BOOLEAN,         \* command_active
     resetPending : BOOLEAN,   \* reset_pending
     ackExpected : BOOLEAN,    \* reset_ack_expected, and its timer is armed
     gen : 0 .. GenModulus - 1,  \* reset_generation
     reboot : BOOLEAN]         \* a CPU reset is requested, not yet performed

(* vams_mgmt_reset at power on *)
PortalInit ==
    [h2f |-> FALSE, f2h |-> FALSE, sub |-> GarbageSubmission,
     window |-> ZeroCompletion, result |-> NoResult, rx |-> << >>,
     resExpected |-> FALSE, active |-> FALSE, resetPending |-> FALSE,
     ackExpected |-> FALSE, gen |-> 0, reboot |-> FALSE]

ResultPending(p) == p.result # NoResult

(***************************************************************************)
(* Management reset.  It is held until the endpoint acknowledges the       *)
(* notice about the active command, or the acknowledgment timer fires; a   *)
(* request that arrives meanwhile is folded into the pending one.          *)
(***************************************************************************)

(* vams_management_finish_reset: everything of the command path is cleared *)
(* and a CPU reset is requested; the CPU runs on until it is performed.    *)
FinishReset(p) ==
    [PortalInit EXCEPT !.gen = (p.gen + 1) % GenModulus, !.reboot = TRUE]

(* vams_command_notify_reset: the notice carries the identity in the       *)
(* submission window, whichever command that is by now.                    *)
ResetNotice(p) == [id |-> p.sub.id, status |-> "RESET", tag |-> TRUE]

NoticeSent(p, conn) == ~p.resetPending /\ p.active /\ conn

(* vams_management_reset; a notice that cannot be written is not waited for *)
ManagementReset(p, conn) ==
    IF p.resetPending THEN p
    ELSE IF NoticeSent(p, conn)
    THEN [p EXCEPT !.resetPending = TRUE, !.ackExpected = TRUE, !.rx = << >>]
    ELSE FinishReset(p)

(***************************************************************************)
(* The receiving side of the stream.                                       *)
(***************************************************************************)

(* vams_command_can_receive, in units *)
CanReceive(p) ==
    IF p.ackExpected THEN 1 - Len(p.rx)
    ELSE IF p.resExpected
         THEN IF ResultPending(p) THEN 0 ELSE 1 - Len(p.rx)
         ELSE IF p.h2f THEN 0 ELSE 2 - Len(p.rx)

(* vams_command_receive for "units" that fit in what CanReceive allows *)
Receive(p, units) ==
    LET rx == p.rx \o units
        wanted == IF p.ackExpected \/ p.resExpected THEN 1 ELSE 2
    IN  IF Len(rx) # wanted THEN [p EXCEPT !.rx = rx]
        ELSE IF p.ackExpected THEN FinishReset(p)
        ELSE IF p.resExpected
        THEN [p EXCEPT !.rx = << >>, !.result = AsCompletion(rx[1])]
        ELSE [p EXCEPT !.rx = << >>, !.sub = AsSubmission(rx[1], rx[2]),
                       !.h2f = TRUE, !.active = TRUE]

(***************************************************************************)
(* Register writes of the firmware.  All of them are refused while a reset *)
(* is pending.                                                             *)
(***************************************************************************)

FwAck(p) == IF p.resetPending \/ ~p.h2f THEN p ELSE [p EXCEPT !.h2f = FALSE]

(* the words of the COMPLETION window *)
WriteWindow(p, c) ==
    IF p.resetPending \/ p.f2h THEN p ELSE [p EXCEPT !.window = c]

(* FW_COMPLETE is accepted, whatever becomes of the write to the stream *)
CompleteAccepted(p) == ~p.resetPending /\ ~p.h2f /\ ~p.f2h

CompleteSent(p, conn) == CompleteAccepted(p) /\ conn

(* Mutant: the portal does not wait for the result of a payload command. *)
FwCompleteFinal(p, conn) ==
    IF ~CompleteAccepted(p) THEN p
    ELSE IF ~conn THEN [p EXCEPT !.f2h = TRUE]
    ELSE [p EXCEPT !.resExpected = FALSE, !.active = FALSE]

FwComplete(p, conn) ==
    IF ~CompleteAccepted(p) THEN p
    ELSE IF ~conn THEN [p EXCEPT !.f2h = TRUE]
    ELSE IF p.resExpected
    THEN [p EXCEPT !.resExpected = FALSE, !.active = FALSE]
    ELSE IF p.window.status = "SUCCESS" /\ p.sub.payload
    THEN [p EXCEPT !.resExpected = TRUE]
    ELSE [p EXCEPT !.active = FALSE]

ResultAck(p) ==
    IF p.resetPending THEN p ELSE [p EXCEPT !.result = NoResult]

(* FW_ABORT: nothing but the request on the stream *)
AbortSent(p, conn) ==
    ~p.resetPending /\ p.resExpected /\ ~ResultPending(p) /\ conn
=============================================================================
