----------------------------- MODULE BridgeLink -----------------------------
(***************************************************************************)
(* The private byte stream that joins the PCIe endpoint (one QEMU process) *)
(* to the management controller and its firmware (another QEMU process).   *)
(*                                                                         *)
(* The stream carries no framing.  A submission is 64 bytes, every other   *)
(* message (completion, engine result, abort request, reset notice, reset  *)
(* acknowledgment) is 32 bytes, and each receiver decides from its own     *)
(* state how many bytes the next message has.  The model therefore cuts    *)
(* the stream into 32-byte units: a submission is two units, a completion  *)
(* is one, and a receiver that reads a unit as something it is not gets an *)
(* identity that belongs to no command.                                    *)
(***************************************************************************)
EXTENDS Naturals, Sequences

CONSTANTS
    Ids,             \* command identities (command_id together with user_cookie)
    Garbage,         \* the identity read out of bytes that are something else
    DefaultTimeout   \* VAMS_DEFAULT_TIMEOUT_MS, what a timeout of zero stands for

ASSUME IdAssumption == Garbage \notin Ids

ASSUME TimeoutAssumption == DefaultTimeout \in Nat \ {0}

VARIABLES
    up,         \* units from the management controller to the endpoint
    down,       \* units from the endpoint to the management controller
    connected   \* the socket behind both character devices is connected

linkVars == <<up, down, connected>>

AnyId == Ids \cup {Garbage}

(***************************************************************************)
(* struct vams_submission: identity, payload or NOP opcode, whether        *)
(* vams_validate_command finds no error in it, and its timeout_ms.         *)
(***************************************************************************)
Submission == [id : AnyId, payload : BOOLEAN, valid : BOOLEAN, timeout : Nat]

(***************************************************************************)
(* struct vams_completion.  "status" stands for the pair of status and     *)
(* error_code as far as the code tells pairs apart; QRESET is              *)
(* VAMS_STATUS_RESET with VAMS_ERR_QUEUE_RESET, RESET is the same status   *)
(* with VAMS_ERR_RESET.  "tag" is VAMS_MANAGEMENT_RESET_TAG in the         *)
(* timestamp.                                                              *)
(***************************************************************************)
Status == {"SUCCESS", "INVALID", "FAILED", "TIMED_OUT", "RESET", "QRESET"}

Completion == [id : AnyId, status : Status, tag : BOOLEAN]

MakeCompletion(id, status) == [id |-> id, status |-> status, tag |-> FALSE]

(* Zero-filled memory, and what 32 or 64 bytes of something else read as.  *)
ZeroCompletion == MakeCompletion(Garbage, "SUCCESS")
GarbageCompletion == MakeCompletion(Garbage, "INVALID")
GarbageSubmission ==
    [id |-> Garbage, payload |-> FALSE, valid |-> FALSE, timeout |-> 0]

(* The units of a message on the stream. *)
Unit == [half : {1, 2}, sub : Submission] \cup [msg : Completion]

SubmissionUnits(s) == << [half |-> 1, sub |-> s], [half |-> 2, sub |-> s] >>
CompletionUnit(c) == [msg |-> c]

IsMessage(u) == "msg" \in DOMAIN u

(* How a receiver in 32-byte mode, and one in 64-byte mode, reads units. *)
AsCompletion(u) == IF IsMessage(u) THEN u.msg ELSE GarbageCompletion

AsSubmission(u, v) ==
    IF /\ ~IsMessage(u) /\ ~IsMessage(v)
       /\ u.half = 1 /\ v.half = 2 /\ u.sub = v.sub
    THEN u.sub
    ELSE GarbageSubmission

LinkTypeOK ==
    /\ up \in Seq(Completion)
    /\ down \in Seq(Unit)
    /\ connected \in BOOLEAN

LinkInit ==
    /\ up = << >>
    /\ down = << >>
    /\ connected = TRUE
=============================================================================
