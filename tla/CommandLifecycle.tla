-------------------------- MODULE CommandLifecycle --------------------------
(***************************************************************************)
(* What the firmware promises for each command it captures, without its    *)
(* tasks, queues and registers: a command goes through the states of       *)
(* enum vams_command_state along the transitions vams_scheduler_transition *)
(* is called with, is published once, in a terminal state, and only then   *)
(* is its object free again.  A management reset forgets all of them.      *)
(***************************************************************************)
EXTENDS Naturals

CONSTANT Objects   \* the command objects

VARIABLES
    life,        \* state of each object and the number of its command
    captured,    \* commands captured since boot
    published    \* the numbers of the commands published since boot

vars == <<life, captured, published>>

Idle == [state |-> "FREE", seq |-> 0]

Init ==
    /\ life = [o \in Objects |-> Idle]
    /\ captured = 0
    /\ published = {}

(* VALIDATING is left within the step that enters it, and so is the        *)
(* ABORTING of a command that expired before it was dispatched.  A command *)
(* whose result meets the abort ends as that result says, COMPLETED too.   *)
Successors(state) ==
    CASE state = "SUBMITTED" -> {"QUEUED", "COMPLETED_ERROR"}
      [] state = "QUEUED" -> {"RUNNING", "COMPLETED", "COMPLETED_ERROR",
                              "CANCELLED"}
      [] state = "RUNNING" -> {"ABORTING", "COMPLETED", "COMPLETED_ERROR"}
      [] state = "ABORTING" -> {"COMPLETED", "COMPLETED_ERROR"}
      [] OTHER -> {}

Capture(o) ==
    /\ life[o] = Idle
    /\ captured' = captured + 1
    /\ life' = [life EXCEPT ![o] = [state |-> "SUBMITTED", seq |-> captured + 1]]
    /\ UNCHANGED published

Advance(o) ==
    /\ \E s \in Successors(life[o].state) : life' = [life EXCEPT ![o].state = s]
    /\ UNCHANGED <<captured, published>>

Publish(o) ==
    /\ life[o].state \in {"COMPLETED", "COMPLETED_ERROR", "CANCELLED"}
    /\ life[o].seq \notin published
    /\ published' = published \cup {life[o].seq}
    /\ life' = [life EXCEPT ![o] = Idle]
    /\ UNCHANGED captured

Reset ==
    /\ life' = [o \in Objects |-> Idle]
    /\ captured' = 0
    /\ published' = {}

Next == (\E o \in Objects : Capture(o) \/ Advance(o) \/ Publish(o)) \/ Reset

Spec == Init /\ [][Next]_vars
=============================================================================
