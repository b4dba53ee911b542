----------------------- MODULE CommandPipelineProofs -----------------------
(***************************************************************************)
(* Type correctness of the command service, and that every block of the    *)
(* command pool has exactly one owner, through every interleaving of the   *)
(* firmware's tasks, the device and the peer, for every size of the pool.  *)
(*                                                                         *)
(* Every step of a task moves at most one block from one place to another, *)
(* but for the scheduler's, which also empties its queue into its array.   *)
(* Moved is the argument for all of the first kind.                        *)
(***************************************************************************)
EXTENDS CommandPipeline, TLAPS

(* Sets and functions without arithmetic are the rule here: Zenon is tried *)
(* first and alone.  A leaf that needs more cites SMT.                     *)
USE ZenonT(20)

-----------------------------------------------------------------------------
(* What the operators of BridgeLink and CommandPortal return *)

(* The values the portal and the firmware put on the stream are            *)
(* submissions and completions.                                            *)
LEMMA LinkValues ==
    /\ GarbageSubmission \in Submission
    /\ ZeroCompletion \in Completion
    /\ GarbageCompletion \in Completion
    /\ \A id \in AnyId, st \in Status : MakeCompletion(id, st) \in Completion
BY DEF GarbageSubmission, Submission, ZeroCompletion, GarbageCompletion,
       Completion, MakeCompletion, AnyId, Status

(* A submission travels as two 32-byte units and every other message as    *)
(* one.                                                                    *)
LEMMA UnitTypes ==
    /\ \A s \in Submission :
         /\ SubmissionUnits(s) \in Seq(Unit)
         /\ Len(SubmissionUnits(s)) = 2
    /\ \A c \in Completion : CompletionUnit(c) \in Unit
BY SMTT(20) DEF SubmissionUnits, CompletionUnit, Unit

(* Whatever units vams_command_receive takes as a message, the result is   *)
(* a completion or a submission, garbage included.                         *)
LEMMA ReadTypes ==
    /\ \A u \in Unit : AsCompletion(u) \in Completion
    /\ \A u, v \in Unit : AsSubmission(u, v) \in Submission
BY LinkValues DEF AsCompletion, AsSubmission, Unit, IsMessage

(* vams_mgmt_reset at power on leaves the portal in one of its states.     *)
LEMMA PortalInitType == PortalInit \in PortalState
BY LinkValues, GenAssumption, SMTT(20) DEF PortalInit, PortalState

(* A number taken modulo m, as reset_generation is, lies below m.          *)
LEMMA Wrap == ASSUME NEW n \in Nat, NEW m \in Nat \ {0}
              PROVE  n % m \in 0 .. m - 1
BY SMTT(20)

(* vams_management_finish_reset leads to a portal state; the generation    *)
(* wraps.                                                                  *)
LEMMA FinishResetType ==
    ASSUME NEW p \in PortalState
    PROVE  FinishReset(p) \in PortalState
<1>1. p.gen + 1 \in Nat
  BY GenAssumption, SMTT(20) DEF PortalState
<1>2. (p.gen + 1) % GenModulus \in 0 .. GenModulus - 1
  BY <1>1, GenAssumption, Wrap
<1> QED
  BY <1>2, PortalInitType DEF FinishReset, PortalState

(* The notice of vams_command_notify_reset is a completion.                *)
LEMMA NoticeType ==
    ASSUME NEW p \in PortalState
    PROVE  ResetNotice(p) \in Completion
BY DEF ResetNotice, PortalState, Completion, Submission, Status

(* The empty sequence is a sequence over any set.                          *)
LEMMA EmptySeq == ASSUME NEW S PROVE << >> \in Seq(S)
BY SMTT(20)

(* vams_management_reset leads to a portal state, whether the notice is    *)
(* sent or not.                                                            *)
LEMMA ManagementResetType ==
    ASSUME NEW p \in PortalState, NEW conn \in BOOLEAN
    PROVE  ManagementReset(p, conn) \in PortalState
<1>1. FinishReset(p) \in PortalState
  BY FinishResetType
<1>2. [p EXCEPT !.resetPending = TRUE, !.ackExpected = TRUE, !.rx = << >>]
        \in PortalState
  BY EmptySeq DEF PortalState
<1> QED
  BY <1>1, <1>2 DEF ManagementReset

(* vams_command_receive leads to a portal state, whichever message it      *)
(* takes its bytes for.                                                    *)
LEMMA ReceiveType ==
    ASSUME NEW p \in PortalState, NEW units \in Seq(Unit)
    PROVE  Receive(p, units) \in PortalState
<1> DEFINE rx == p.rx \o units
<1>1. rx \in Seq(Unit)
  BY SMTT(20) DEF PortalState
<1>2. << >> \in Seq(Unit)
  BY EmptySeq
<1>3. FinishReset(p) \in PortalState
  BY FinishResetType
<1>4. [p EXCEPT !.rx = rx] \in PortalState
  BY <1>1 DEF PortalState
<1>5. Len(rx) = 1 =>
        [p EXCEPT !.rx = << >>, !.result = AsCompletion(rx[1])] \in PortalState
  <2>1. Len(rx) = 1 => AsCompletion(rx[1]) \in Completion
    BY <1>1, ReadTypes, SMTT(20)
  <2> QED
    BY <1>2, <2>1 DEF PortalState
<1>6. Len(rx) = 2 =>
        [p EXCEPT !.rx = << >>, !.sub = AsSubmission(rx[1], rx[2]),
                  !.h2f = TRUE, !.active = TRUE] \in PortalState
  <2>1. Len(rx) = 2 => AsSubmission(rx[1], rx[2]) \in Submission
    BY <1>1, ReadTypes, SMTT(20)
  <2> QED
    BY <1>2, <2>1 DEF PortalState
<1>7. p.ackExpected \in BOOLEAN /\ p.resExpected \in BOOLEAN
  BY DEF PortalState
<1> HIDE DEF rx
<1>8. Receive(p, units) =
        IF Len(rx) # (IF p.ackExpected \/ p.resExpected THEN 1 ELSE 2)
        THEN [p EXCEPT !.rx = rx]
        ELSE IF p.ackExpected THEN FinishReset(p)
        ELSE IF p.resExpected
        THEN [p EXCEPT !.rx = << >>, !.result = AsCompletion(rx[1])]
        ELSE [p EXCEPT !.rx = << >>, !.sub = AsSubmission(rx[1], rx[2]),
                       !.h2f = TRUE, !.active = TRUE]
  BY DEF Receive, rx
<1> QED
  BY <1>3, <1>4, <1>5, <1>6, <1>7, <1>8

(* Each register write of the firmware to the portal leads to a portal     *)
(* state.                                                                  *)
LEMMA RegisterTypes ==
    ASSUME NEW p \in PortalState
    PROVE  /\ FwAck(p) \in PortalState
           /\ ResultAck(p) \in PortalState
           /\ \A c \in Completion : WriteWindow(p, c) \in PortalState
           /\ \A conn \in BOOLEAN : FwComplete(p, conn) \in PortalState
<1>1. /\ [p EXCEPT !.h2f = FALSE] \in PortalState
      /\ [p EXCEPT !.result = NoResult] \in PortalState
      /\ [p EXCEPT !.f2h = TRUE] \in PortalState
  BY DEF PortalState
<1>2. /\ [p EXCEPT !.resExpected = FALSE, !.active = FALSE] \in PortalState
      /\ [p EXCEPT !.resExpected = TRUE] \in PortalState
      /\ [p EXCEPT !.active = FALSE] \in PortalState
  BY DEF PortalState
<1>3. \A c \in Completion : [p EXCEPT !.window = c] \in PortalState
  BY DEF PortalState
<1>4. FwAck(p) \in PortalState /\ ResultAck(p) \in PortalState
  BY <1>1 DEF FwAck, ResultAck
<1>5. \A c \in Completion : WriteWindow(p, c) \in PortalState
  BY <1>3 DEF WriteWindow
<1>6. \A conn \in BOOLEAN : FwComplete(p, conn) \in PortalState
  BY <1>1, <1>2 DEF FwComplete
<1> QED
  BY <1>4, <1>5, <1>6

(* A pending result is a completion, never the mark for no result.         *)
LEMMA ResultType ==
    ASSUME NEW p \in PortalState, ResultPending(p)
    PROVE  p.result \in Completion
BY DEF PortalState, ResultPending

-----------------------------------------------------------------------------
(* Type correctness *)

(* vams_queue_put and k_msgq_get on a queue of command objects yield such  *)
(* a queue and such an object.                                             *)
LEMMA QueueTypes ==
    ASSUME NEW q \in Seq(Objects)
    PROVE  /\ \A n : \A o \in Objects : PutOrKeep(q, n, o) \in Seq(Objects)
           /\ q # << >> => Head(q) \in Objects /\ Tail(q) \in Seq(Objects)
           /\ InQueue(q) \subseteq Objects
BY SMTT(20) DEF PutOrKeep, InQueue

(* An object of the pool is well formed after memset, and after            *)
(* vams_scheduler_capture.                                                 *)
LEMMA ObjectTypes ==
    /\ FreeObject \in Object
    /\ TypeOK => \A s \in Submission : Captured(s) \in Object
<1>1. FreeObject \in Object
  BY LinkValues DEF FreeObject, Object, State
<1>2. ASSUME TypeOK, NEW s \in Submission
      PROVE  Captured(s) \in Object
  <2>1. Deadline(s) \in Nat
    BY <1>2, BoundAssumption, TimeoutAssumption, SMTT(20) DEF Deadline, TypeOK, Submission
  <2> QED
    BY <1>2, <2>1, LinkValues, SMTT(20) DEF Captured, Object, State, TypeOK
<1> QED
  BY <1>1, <1>2

(* The assignments of vams_scheduler.c to the state and the completion of  *)
(* one object keep all objects well formed.                                *)
LEMMA ObjectUpdates ==
    ASSUME TypeOK, NEW o \in Objects, NEW st \in State, NEW c \in Completion,
           NEW r \in Status
    PROVE  /\ [cmd EXCEPT ![o].state = st] \in [Objects -> Object]
           /\ [cmd EXCEPT ![o].state = st, ![o].comp = c] \in [Objects -> Object]
           /\ [cmd EXCEPT ![o].state = st, ![o].comp.status = r]
                \in [Objects -> Object]
<1>1. cmd \in [Objects -> Object] /\ cmd[o] \in Object
  BY DEF TypeOK
<1>2. \A x \in Object : [cmd EXCEPT ![o] = x] \in [Objects -> Object]
  BY <1>1
<1>3. [cmd[o] EXCEPT !.state = st] \in Object
  BY <1>1 DEF Object
<1>4. [cmd[o] EXCEPT !.state = st, !.comp = c] \in Object
  BY <1>1 DEF Object
<1>5. [cmd[o].comp EXCEPT !.status = r] \in Completion
  BY <1>1 DEF Object, Completion
<1>6. [cmd[o] EXCEPT !.state = st, !.comp.status = r] \in Object
  BY <1>1, <1>5 DEF Object
<1>7. /\ [cmd EXCEPT ![o].state = st] = [cmd EXCEPT ![o] = [cmd[o] EXCEPT !.state = st]]
      /\ [cmd EXCEPT ![o].state = st, ![o].comp = c]
           = [cmd EXCEPT ![o] = [cmd[o] EXCEPT !.state = st, !.comp = c]]
      /\ [cmd EXCEPT ![o].state = st, ![o].comp.status = r]
           = [cmd EXCEPT ![o] = [cmd[o] EXCEPT !.state = st, !.comp.status = r]]
  BY <1>1
<1> QED
  BY <1>2, <1>3, <1>4, <1>6, <1>7

(* Where each task may be, and that it holds an object unless it is idle. *)
TaskFits ==
    /\ task["scheduler"].pc \in {"idle", "picked", "retry", "write", "ring",
                                 "stuck"}
    /\ task["recovery"].pc \in {"idle", "wait", "abortcheck", "abortwrite",
                                "abortring", "abortwait"}
    /\ task["completion"].pc \in {"idle", "retry", "write", "ring", "stuck"}
    /\ \A t \in Tasks : IF task[t].pc = "idle" THEN task[t].obj = None
                        ELSE task[t].obj \in Objects

Typed == TypeOK /\ TaskFits

(* The firmware starts with well formed variables and no task holding an   *)
(* object.                                                                 *)
LEMMA TypedInit == Init => Typed
<1> SUFFICES ASSUME Init PROVE Typed
  OBVIOUS
<1>1. now \in Nat /\ seq \in Nat /\ bootGen \in Nat /\ pool \subseteq Objects
      /\ validationQ \in Seq(Objects) /\ readyQ \in Seq(Objects)
      /\ ready \subseteq Objects
      /\ runningQ \in Seq(Objects) /\ completionQ \in Seq(Objects)
      /\ halted \in Queues /\ done \subseteq Nat
  BY EmptySeq DEF Init, Queues
<1>2. cmd \in [Objects -> Object]
  BY ObjectTypes DEF Init
<1>3. task \in [Tasks -> [pc : TaskPC, obj : Objects \cup {None}]]
  BY DEF Init, Tasks, TaskPC
<1>4. portal \in PortalState
  BY PortalInitType DEF Init
<1>5. LinkTypeOK
  BY EmptySeq DEF Init, LinkInit, LinkTypeOK
<1>6. TaskFits
  BY DEF Init, TaskFits, Tasks
<1> QED
  BY <1>1, <1>2, <1>3, <1>4, <1>5, <1>6 DEF Typed, TypeOK

(* A step of vams_command_receiver keeps the types.                        *)
LEMMA TypedReceiver ==
    ASSUME Typed, Receiver
    PROVE  Typed'
<1> USE DEF Typed
<1>1. PICK o \in pool :
        /\ pool' = pool \ {o}
        /\ cmd' = [cmd EXCEPT ![o] = Captured(portal.sub)]
        /\ validationQ' = PutOrKeep(validationQ, PoolSize, o)
  BY DEF Receiver, ReceiverAdmit
<1>2. o \in Objects
  BY DEF TypeOK
<1>3. cmd' \in [Objects -> Object]
  BY <1>1, <1>2, ObjectTypes DEF TypeOK, PortalState
<1>4. portal' \in PortalState
  BY RegisterTypes DEF Receiver, ReceiverAdmit, TypeOK
<1>5. validationQ' \in Seq(Objects) /\ pool' \subseteq Objects
  BY <1>1, <1>2, QueueTypes DEF TypeOK
<1>6. halted' \in Queues
  BY DEF Receiver, ReceiverAdmit, AssertRoom, TypeOK, Queues
<1>7. TaskFits'
  BY DEF Receiver, ReceiverAdmit, TaskFits
<1> QED
  BY <1>3, <1>4, <1>5, <1>6, <1>7, SMTT(20)
     DEF Receiver, ReceiverAdmit, TypeOK, LinkTypeOK, linkVars

(* A step of vams_command_validator keeps the types.                       *)
LEMMA TypedValidator ==
    ASSUME Typed, Validator
    PROVE  Typed'
<1> USE DEF Typed
<1> DEFINE o == Head(validationQ)
<1>1. o \in Objects /\ validationQ' \in Seq(Objects)
  BY QueueTypes DEF Validator, ValidatorAccept, ValidatorReject, TypeOK
<1>2. readyQ' \in Seq(Objects) /\ completionQ' \in Seq(Objects)
  BY <1>1, QueueTypes, SMTT(20) DEF Validator, ValidatorAccept, ValidatorReject, TypeOK
<1>3. cmd[o].sub.id \in AnyId
  BY <1>1 DEF TypeOK, Object, Submission
<1>4. cmd' \in [Objects -> Object]
  <2>1. CASE ValidatorAccept
    BY <1>1, <1>3, <2>1, LinkValues, ObjectUpdates
       DEF ValidatorAccept, State, Status
  <2>2. CASE ValidatorReject
    BY <1>1, <1>3, <2>2, LinkValues, ObjectUpdates
       DEF ValidatorReject, State, Status
  <2> QED
    BY <2>1, <2>2 DEF Validator
<1>5. halted' \in Queues
  BY DEF Validator, ValidatorAccept, ValidatorReject, AssertRoom, TypeOK, Queues
<1>6. TaskFits'
  BY DEF Validator, ValidatorAccept, ValidatorReject, TaskFits
<1> QED
  BY <1>1, <1>2, <1>4, <1>5, <1>6
     DEF Validator, ValidatorAccept, ValidatorReject, TypeOK, LinkTypeOK,
         linkVars

(* vams_command_scheduler up to the write of the completion window keeps   *)
(* the types.                                                              *)
LEMMA TypedScheduler ==
    ASSUME Typed, SchedulerPick \/ SchedulerExpire \/ SchedulerNop \/ SchedulerRun
    PROVE  Typed'
<1> USE DEF Typed
<1> DEFINE o == task["scheduler"].obj
<1>1. CASE SchedulerPick
  <2>1. PICK p \in ready \cup InQueue(readyQ) :
          /\ ready' = (ready \cup InQueue(readyQ)) \ {p}
          /\ task' = [task EXCEPT !["scheduler"] = [pc |-> "picked", obj |-> p]]
    BY <1>1 DEF SchedulerPick
  <2>2. p \in Objects /\ ready' \subseteq Objects
    BY <2>1, QueueTypes DEF TypeOK
  <2>3. task' \in [Tasks -> [pc : TaskPC, obj : Objects \cup {None}]]
    BY <2>1, <2>2 DEF TypeOK, Tasks, TaskPC
  <2>4. TaskFits'
    BY <2>1, <2>2 DEF TypeOK, TaskFits, Tasks
  <2>5. readyQ' \in Seq(Objects)
    BY <1>1, EmptySeq DEF SchedulerPick
  <2> QED
    BY <1>1, <2>2, <2>3, <2>4, <2>5
       DEF SchedulerPick, TypeOK, LinkTypeOK, linkVars
<1>2. ASSUME At("scheduler", "picked")
      PROVE  o \in Objects
  BY <1>2 DEF At, TaskFits, Tasks
<1>3. CASE SchedulerExpire \/ SchedulerNop
  <2>1. o \in Objects
    BY <1>2, <1>3 DEF SchedulerExpire, SchedulerNop
  <2>2. cmd' \in [Objects -> Object]
    <3>1. CASE SchedulerExpire
      <4>1. PICK st \in State, r \in Status :
              cmd' = [cmd EXCEPT ![o].state = st, ![o].comp.status = r]
        BY <3>1 DEF SchedulerExpire, State, Status
      <4> QED
        BY <2>1, <4>1, ObjectUpdates, LinkValues
    <3>2. CASE SchedulerNop
      BY <3>2, <2>1, ObjectUpdates, LinkValues DEF SchedulerNop, State, Status
    <3> QED
      BY <1>3, <3>1, <3>2
  <2>3. completionQ' \in Seq(Objects)
    BY <1>3, <2>1, QueueTypes, SMTT(20) DEF SchedulerExpire, SchedulerNop, TypeOK
  <2>4. halted' \in Queues
    BY <1>3 DEF SchedulerExpire, SchedulerNop, AssertRoom, TypeOK, Queues
  <2>5. task' = [task EXCEPT !["scheduler"] = [pc |-> "idle", obj |-> None]]
    BY <1>3 DEF SchedulerExpire, SchedulerNop, Release
  <2>6. task' \in [Tasks -> [pc : TaskPC, obj : Objects \cup {None}]]
    BY <2>5 DEF TypeOK, Tasks, TaskPC
  <2>7. TaskFits'
    BY <2>5 DEF TypeOK, TaskFits, Tasks
  <2> QED
    BY <1>3, <2>2, <2>3, <2>4, <2>6, <2>7
       DEF SchedulerExpire, SchedulerNop, TypeOK, LinkTypeOK, linkVars
<1>4. CASE SchedulerRun
  <2>1. o \in Objects
    BY <1>2, <1>4 DEF SchedulerRun
  <2>2. cmd' \in [Objects -> Object]
    BY <1>4, <2>1, ObjectUpdates, LinkValues DEF SchedulerRun, State, Status
  <2>3. task' \in [Tasks -> [pc : TaskPC, obj : Objects \cup {None}]]
    BY <1>4 DEF SchedulerRun, Goto, Publishing, TypeOK, Tasks, TaskPC
  <2>4. TaskFits'
    BY <1>4, <2>1 DEF SchedulerRun, Goto, Publishing, TypeOK, TaskFits, Tasks
  <2> QED
    BY <1>4, <2>2, <2>3, <2>4 DEF SchedulerRun, TypeOK, LinkTypeOK, linkVars
<1> QED
  BY <1>1, <1>3, <1>4

(* FW_COMPLETE leaves the portal and the stream well formed.               *)
LEMMA DoorbellTypes ==
    ASSUME TypeOK, Doorbell
    PROVE  portal' \in PortalState /\ LinkTypeOK'
<1>1. portal.window \in Completion
  BY DEF TypeOK, PortalState
<1>2. portal' \in PortalState
  BY RegisterTypes DEF Doorbell, TypeOK, LinkTypeOK
<1> QED
  BY <1>1, <1>2, SMTT(20) DEF Doorbell, TypeOK, LinkTypeOK

(* A task that drops its object, takes one or goes on with it stays well   *)
(* formed.                                                                 *)
LEMMA TaskUpdates ==
    ASSUME Typed, NEW t \in Tasks, NEW pc \in TaskPC, NEW o \in Objects
    PROVE  /\ [task EXCEPT ![t] = [pc |-> "idle", obj |-> None]]
                \in [Tasks -> [pc : TaskPC, obj : Objects \cup {None}]]
           /\ [task EXCEPT ![t] = [pc |-> pc, obj |-> o]]
                \in [Tasks -> [pc : TaskPC, obj : Objects \cup {None}]]
           /\ [task EXCEPT ![t].pc = pc]
                \in [Tasks -> [pc : TaskPC, obj : Objects \cup {None}]]
BY DEF Typed, TypeOK, TaskPC

(* A reset request of the firmware or the watchdog *)
LEMMA RequestTypes ==
    ASSUME TypeOK
    PROVE  /\ ManagementReset(portal, connected) \in PortalState
           /\ Append(up, ResetNotice(portal)) \in Seq(Completion)
<1>1. portal \in PortalState /\ connected \in BOOLEAN /\ up \in Seq(Completion)
  BY DEF TypeOK, LinkTypeOK
<1>2. ManagementReset(portal, connected) \in PortalState
  BY <1>1, ManagementResetType
<1>3. ResetNotice(portal) \in Completion
  BY <1>1, NoticeType
<1> QED
  BY <1>1, <1>2, <1>3, SMTT(20)

(* The loop of vams_publish_portal_completion keeps the types, for each    *)
(* of the tasks that publish.                                              *)
LEMMA TypedPublish ==
    ASSUME Typed, NEW t \in Publishers,
           PublishRetry(t) \/ PublishTimeout(t) \/ PublishWrite(t)
    PROVE  Typed'
<1> USE DEF Typed
<1>1. t \in Tasks
  BY DEF Publishers, Tasks
<1>2. task[t].pc # "idle"
  BY DEF PublishRetry, PublishTimeout, PublishWrite, At
<1>3. task[t].obj \in Objects
  BY <1>1, <1>2 DEF TaskFits
<1>4. PICK pc \in {"write", "stuck", "ring"} : task' = [task EXCEPT ![t].pc = pc]
  BY DEF PublishRetry, PublishTimeout, PublishWrite, Goto
<1>5. task' \in [Tasks -> [pc : TaskPC, obj : Objects \cup {None}]]
  BY <1>1, <1>3, <1>4, TaskUpdates DEF TaskPC
<1>6. TaskFits'
  BY <1>1, <1>3, <1>4 DEF TaskFits, TypeOK, Tasks, Publishers
<1>7. CASE PublishRetry(t)
  BY <1>5, <1>6, <1>7 DEF PublishRetry, TypeOK, LinkTypeOK, linkVars
<1>8. CASE PublishTimeout(t)
  <2>1. portal' \in PortalState /\ up' \in Seq(Completion)
    BY <1>8, RequestTypes DEF PublishTimeout, TypeOK, LinkTypeOK
  <2> QED
    BY <1>5, <1>6, <1>8, <2>1 DEF PublishTimeout, TypeOK, LinkTypeOK
<1>9. CASE PublishWrite(t)
  <2>1. cmd[task[t].obj].comp \in Completion
    BY <1>3 DEF TypeOK, Object
  <2>2. portal' \in PortalState
    BY <1>9, <2>1, RegisterTypes DEF PublishWrite, TypeOK
  <2> QED
    BY <1>5, <1>6, <1>9, <2>2 DEF PublishWrite, TypeOK, LinkTypeOK, linkVars
<1> QED
  BY <1>7, <1>8, <1>9

(* The scheduler's hand-over of an authorized command to the recovery      *)
(* manager keeps the types.                                                *)
LEMMA TypedSchedulerRing ==
    ASSUME Typed, SchedulerRing
    PROVE  Typed'
<1> USE DEF Typed
<1>1. task["scheduler"].obj \in Objects
  BY DEF SchedulerRing, At, TaskFits, Tasks
<1>2. runningQ' \in Seq(Objects)
  BY <1>1, QueueTypes DEF SchedulerRing, TypeOK
<1>3. halted' \in Queues
  BY DEF SchedulerRing, AssertRoom, TypeOK, Queues
<1>4. task' = [task EXCEPT !["scheduler"] = [pc |-> "idle", obj |-> None]]
  BY DEF SchedulerRing, Release
<1>5. task' \in [Tasks -> [pc : TaskPC, obj : Objects \cup {None}]]
  BY <1>1, <1>4, TaskUpdates DEF Tasks, TaskPC
<1>6. TaskFits'
  BY <1>4 DEF TaskFits, TypeOK, Tasks
<1>7. portal' \in PortalState /\ LinkTypeOK'
  BY DoorbellTypes DEF SchedulerRing
<1> QED
  BY <1>2, <1>3, <1>5, <1>6, <1>7 DEF SchedulerRing, TypeOK

(* A step of vams_command_completion keeps the types.                      *)
LEMMA TypedCompletion ==
    ASSUME Typed, CompletionTake \/ CompletionRing
    PROVE  Typed'
<1> USE DEF Typed
<1>1. CASE CompletionTake
  <2>1. Head(completionQ) \in Objects /\ completionQ' \in Seq(Objects)
    BY <1>1, QueueTypes DEF CompletionTake, TypeOK
  <2>2. PICK pc \in {"retry", "write"} :
          task' = [task EXCEPT
                     !["completion"] = [pc |-> pc, obj |-> Head(completionQ)]]
    BY <1>1 DEF CompletionTake, Publishing
  <2>3. task' \in [Tasks -> [pc : TaskPC, obj : Objects \cup {None}]]
    BY <2>1, <2>2, TaskUpdates DEF Tasks, TaskPC
  <2>4. TaskFits'
    BY <2>1, <2>2 DEF TaskFits, TypeOK, Tasks
  <2> QED
    BY <1>1, <2>1, <2>3, <2>4 DEF CompletionTake, TypeOK, LinkTypeOK, linkVars
<1>2. CASE CompletionRing
  <2> DEFINE o == task["completion"].obj
  <2>1. o \in Objects
    BY <1>2 DEF CompletionRing, At, TaskFits, Tasks
  <2>2. cmd' \in [Objects -> Object]
    BY <1>2, <2>1, ObjectTypes DEF CompletionRing, TypeOK
  <2>3. pool' \subseteq Objects /\ done' \subseteq Nat
    BY <1>2, <2>1 DEF CompletionRing, TypeOK, Object
  <2>4. task' = [task EXCEPT !["completion"] = [pc |-> "idle", obj |-> None]]
    BY <1>2 DEF CompletionRing, Release
  <2>5. task' \in [Tasks -> [pc : TaskPC, obj : Objects \cup {None}]]
    BY <2>1, <2>4, TaskUpdates DEF Tasks, TaskPC
  <2>6. TaskFits'
    BY <2>4 DEF TaskFits, TypeOK, Tasks
  <2>7. portal' \in PortalState /\ LinkTypeOK'
    BY <1>2, DoorbellTypes DEF CompletionRing
  <2> QED
    BY <1>2, <2>2, <2>3, <2>5, <2>6, <2>7 DEF CompletionRing, TypeOK
<1> QED
  BY <1>1, <1>2

(* vams_scheduler_apply_result yields a well formed object for every       *)
(* result.                                                                 *)
LEMMA AppliedType ==
    ASSUME TypeOK, NEW o \in Objects, NEW r \in Completion
    PROVE  Applied(o, r) \in Object
<1>1. cmd[o] \in Object
  BY DEF TypeOK
<1>2. r.status \in Status
  BY DEF Completion
<1> QED
  BY <1>1, LinkValues DEF Applied, Object, Completion, State, Status

(* A step of vams_recovery_manager keeps the types.                        *)
LEMMA TypedRecovery ==
    ASSUME Typed, Recovery
    PROVE  Typed'
<1> USE DEF Typed
<1> DEFINE o == task["recovery"].obj
<1>1. CASE RecoveryTake
  <2>1. Head(runningQ) \in Objects /\ runningQ' \in Seq(Objects)
    BY <1>1, QueueTypes DEF RecoveryTake, TypeOK
  <2>2. task' = [task EXCEPT
                   !["recovery"] = [pc |-> "wait", obj |-> Head(runningQ)]]
    BY <1>1 DEF RecoveryTake
  <2>3. task' \in [Tasks -> [pc : TaskPC, obj : Objects \cup {None}]]
    BY <2>1, <2>2, TaskUpdates DEF Tasks, TaskPC
  <2>4. TaskFits'
    BY <2>1, <2>2 DEF TaskFits, TypeOK, Tasks
  <2> QED
    BY <1>1, <2>1, <2>3, <2>4 DEF RecoveryTake, TypeOK, LinkTypeOK, linkVars
<1>2. CASE RecoveryResult \/ RecoveryEscalate
  <2>1. o \in Objects
    BY <1>2 DEF RecoveryResult, RecoveryEscalate, At, TaskFits, Tasks
  <2>2. cmd' \in [Objects -> Object]
    <3>1. CASE RecoveryResult
      <4>1. portal.result \in Completion
        BY <3>1 DEF RecoveryResult, ResultPending, TypeOK, PortalState
      <4> QED
        BY <3>1, <2>1, <4>1, AppliedType DEF RecoveryResult, TypeOK
    <3>2. CASE RecoveryEscalate
      BY <3>2, <2>1, ObjectUpdates, LinkValues DEF RecoveryEscalate, State, Status
    <3> QED
      BY <1>2, <3>1, <3>2
  <2>3. completionQ' \in Seq(Objects)
    BY <1>2, <2>1, QueueTypes, SMTT(20) DEF RecoveryResult, RecoveryEscalate, TypeOK
  <2>4. halted' \in Queues
    BY <1>2 DEF RecoveryResult, RecoveryEscalate, AssertRoom, TypeOK, Queues
  <2>5. portal' \in PortalState
    BY <1>2, RegisterTypes DEF RecoveryResult, RecoveryEscalate, TypeOK
  <2>6. task' = [task EXCEPT !["recovery"] = [pc |-> "idle", obj |-> None]]
    BY <1>2 DEF RecoveryResult, RecoveryEscalate, Release
  <2>7. task' \in [Tasks -> [pc : TaskPC, obj : Objects \cup {None}]]
    BY <2>1, <2>6, TaskUpdates DEF Tasks, TaskPC
  <2>8. TaskFits'
    BY <2>6 DEF TaskFits, TypeOK, Tasks
  <2> QED
    BY <1>2, <2>2, <2>3, <2>4, <2>5, <2>7, <2>8
       DEF RecoveryResult, RecoveryEscalate, TypeOK, LinkTypeOK, linkVars
<1>3. CASE RecoveryExpire \/ AbortCheck \/ AbortWrite \/ AbortRing
  <2>1. o \in Objects /\ task["recovery"].pc # "idle"
    BY <1>3 DEF RecoveryExpire, AbortCheck, AbortWrite, AbortRing, At,
                TaskFits, Tasks
  <2>2. PICK pc \in {"abortcheck", "abortwrite", "abortring", "abortwait"} :
          task' = [task EXCEPT !["recovery"].pc = pc]
    BY <1>3 DEF RecoveryExpire, AbortCheck, AbortWrite, AbortRing, Goto
  <2>3. task' \in [Tasks -> [pc : TaskPC, obj : Objects \cup {None}]]
    BY <2>1, <2>2, TaskUpdates DEF Tasks, TaskPC
  <2>4. TaskFits'
    BY <2>1, <2>2 DEF TaskFits, TypeOK, Tasks
  <2>5. cmd' \in [Objects -> Object]
    <3>1. CASE RecoveryExpire
      BY <3>1, <2>1, ObjectUpdates, LinkValues DEF RecoveryExpire, State, Status
    <3>2. CASE AbortCheck \/ AbortWrite \/ AbortRing
      BY <3>2 DEF AbortCheck, AbortWrite, AbortRing, TypeOK
    <3> QED
      BY <1>3, <3>1, <3>2
  <2>6. cmd[o].comp \in Completion
    BY <2>1 DEF TypeOK, Object
  <2>7. portal' \in PortalState
    BY <1>3, <2>6, RegisterTypes
       DEF RecoveryExpire, AbortCheck, AbortWrite, AbortRing, TypeOK
  <2>8. up' \in Seq(Completion)
    <3>1. portal.window \in Completion
      BY DEF TypeOK, PortalState
    <3>2. up' = up \/ up' = Append(up, portal.window)
      BY <1>3 DEF RecoveryExpire, AbortCheck, AbortWrite, AbortRing, linkVars
    <3>3. up \in Seq(Completion)
      BY DEF TypeOK, LinkTypeOK
    <3>4. Append(up, portal.window) \in Seq(Completion)
      BY <3>1, <3>3, SMTT(20)
    <3> QED
      BY <3>2, <3>3, <3>4
  <2> QED
    BY <1>3, <2>3, <2>4, <2>5, <2>7, <2>8
       DEF RecoveryExpire, AbortCheck, AbortWrite, AbortRing, TypeOK, LinkTypeOK,
           linkVars
<1> QED
  BY <1>1, <1>2, <1>3 DEF Recovery

(* The timers of the management device and the reset of the hart keep the  *)
(* types.                                                                  *)
LEMMA TypedDevice ==
    ASSUME Typed, ResetAckTimeout \/ WatchdogExpire \/ CpuReset
    PROVE  Typed'
<1> USE DEF Typed
<1>1. CASE ResetAckTimeout
  BY <1>1, FinishResetType
     DEF ResetAckTimeout, TypeOK, TaskFits, LinkTypeOK, fwVars, linkVars
<1>2. CASE WatchdogExpire
  <2>1. portal' \in PortalState /\ up' \in Seq(Completion)
    BY <1>2, RequestTypes DEF WatchdogExpire, TypeOK, LinkTypeOK
  <2> QED
    BY <1>2, <2>1 DEF WatchdogExpire, TypeOK, TaskFits, LinkTypeOK, fwVars
<1>3. CASE CpuReset
  <2>1. portal' \in PortalState /\ bootGen' \in Nat
    <3>1. [portal EXCEPT !.reboot = FALSE] \in PortalState
      BY DEF TypeOK, PortalState
    <3>2. portal.gen \in Nat
      BY GenAssumption, SMTT(20) DEF TypeOK, PortalState
    <3> QED
      BY <1>3, <3>1, <3>2 DEF CpuReset
  <2>2. TaskFits'
    BY <1>3 DEF CpuReset, TaskFits, Tasks
  <2>3. validationQ' \in Seq(Objects) /\ readyQ' \in Seq(Objects)
        /\ runningQ' \in Seq(Objects) /\ completionQ' \in Seq(Objects)
    BY <1>3, EmptySeq DEF CpuReset
  <2>4. cmd' \in [Objects -> Object] /\ halted' \in Queues
        /\ task' \in [Tasks -> [pc : TaskPC, obj : Objects \cup {None}]]
    BY <1>3, ObjectTypes DEF CpuReset, Queues, TaskPC
  <2> QED
    BY <1>3, <2>1, <2>2, <2>3, <2>4 DEF CpuReset, TypeOK, LinkTypeOK, linkVars
<1> QED
  BY <1>1, <1>2, <1>3

(* What a partial read takes from the stream and what it leaves are        *)
(* sequences of units.                                                     *)
LEMMA SplitTypes ==
    ASSUME NEW q \in Seq(Unit), NEW n \in 0 .. Len(q)
    PROVE  /\ SubSeq(q, 1, n) \in Seq(Unit)
           /\ SubSeq(q, n + 1, Len(q)) \in Seq(Unit)
BY SMTT(20)

(* The other end of the stream keeps the types, whatever it sends.         *)
LEMMA TypedPeer ==
    ASSUME Typed, Peer
    PROVE  Typed'
<1> USE DEF Typed
<1>1. CASE PeerSubmit \/ PeerReply \/ PeerGarbage
  <2>1. \A units \in Seq(Unit) : Receive(portal, units) \in PortalState
    BY ReceiveType DEF TypeOK
  <2>2. CASE PeerSubmit
    <3>1. PICK s \in PeerSubmissions : portal' = Receive(portal, SubmissionUnits(s))
      BY <2>2 DEF PeerSubmit
    <3>2. SubmissionUnits(s) \in Seq(Unit)
      BY PeerAssumption, UnitTypes
    <3>3. portal' \in PortalState
      BY <2>1, <3>1, <3>2
    <3> QED
      BY <2>2, <3>3 DEF PeerSubmit, TypeOK, TaskFits, LinkTypeOK, fwVars, linkVars
  <2>3. CASE PeerReply
    <3>1. PICK s \in PeerSubmissions, st \in PeerStatus :
            portal' = Receive(portal, <<CompletionUnit(MakeCompletion(s.id, st))>>)
      BY <2>3 DEF PeerReply
    <3>2. MakeCompletion(s.id, st) \in Completion
      BY PeerAssumption, LinkValues DEF Submission
    <3>3. <<CompletionUnit(MakeCompletion(s.id, st))>> \in Seq(Unit)
      BY <3>2, UnitTypes, SMTT(20)
    <3>4. portal' \in PortalState
      BY <2>1, <3>1, <3>3
    <3> QED
      BY <2>3, <3>4 DEF PeerReply, TypeOK, TaskFits, LinkTypeOK, fwVars, linkVars
  <2>4. CASE PeerGarbage
    <3> DEFINE g == SubmissionUnits(GarbageSubmission)
               n == CanReceive(portal)
    <3>1. g \in Seq(Unit) /\ Len(g) = 2
      BY LinkValues, UnitTypes
    <3>2. n \in 0 .. 2
      <4>1. portal.rx = << >> /\ n > 0
        BY <2>4 DEF PeerGarbage
      <4> QED
        BY <4>1, SMTT(20) DEF CanReceive
    <3> HIDE DEF n, g
    <3>3. SubSeq(g, 1, n) \in Seq(Unit)
      BY <3>1, <3>2, SplitTypes
    <3>4. portal' = Receive(portal, SubSeq(g, 1, n))
      BY <2>4 DEF PeerGarbage, g, n
    <3>5. portal' \in PortalState
      BY <2>1, <3>3, <3>4
    <3> QED
      BY <2>4, <3>5 DEF PeerGarbage, TypeOK, TaskFits, LinkTypeOK, fwVars, linkVars
  <2> QED
    BY <1>1, <2>2, <2>3, <2>4
<1>2. CASE PeerTake \/ Disconnect \/ Connect
  <2>1. up' \in Seq(Completion) /\ down' \in Seq(Unit) /\ connected' \in BOOLEAN
    <3>1. up \in Seq(Completion) /\ down \in Seq(Unit) /\ connected \in BOOLEAN
      BY DEF TypeOK, LinkTypeOK
    <3>2. up # << >> => Tail(up) \in Seq(Completion)
      BY <3>1, SMTT(20)
    <3> QED
      BY <1>2, <3>1, <3>2, EmptySeq DEF PeerTake, Disconnect, Connect
  <2> QED
    BY <1>2, <2>1
       DEF PeerTake, Disconnect, Connect, TypeOK, TaskFits, LinkTypeOK, fwVars
<1> QED
  BY <1>1, <1>2 DEF Peer

(* Every step keeps the types.                                             *)
LEMMA TypedNext == Typed /\ [Next]_vars => Typed'
<1> SUFFICES ASSUME Typed, [Next]_vars PROVE Typed'
  OBVIOUS
<1>1. CASE Firmware
  BY <1>1, TypedReceiver, TypedValidator, TypedScheduler, TypedPublish,
     TypedSchedulerRing, TypedCompletion, TypedRecovery
     DEF Firmware, Scheduler, CompletionTask, Publishers
<1>2. CASE Device
  BY <1>2, TypedDevice DEF Device
<1>3. CASE Tick
  BY <1>3, SMTT(20) DEF Tick, Typed, TypeOK, TaskFits, LinkTypeOK, linkVars
<1>4. CASE Peer
  BY <1>4, TypedPeer
<1>5. CASE UNCHANGED vars
  BY <1>5 DEF vars, Typed, TypeOK, TaskFits, LinkTypeOK, fwVars, linkVars
<1> QED
  BY <1>1, <1>2, <1>3, <1>4, <1>5 DEF Next

(* The variables of the command service keep their types in every behaviour *)
(* and, with that, every access of a task to the object it holds is to an   *)
(* object of the pool.                                                      *)
THEOREM TypeCorrect == Spec => []TypeOK
<1>1. Spec => []Typed
  BY TypedInit, TypedNext, PTL DEF Spec
<1>2. Typed => TypeOK
  BY DEF Typed
<1> QED
  BY <1>1, <1>2, PTL

-----------------------------------------------------------------------------
(* Ownership: queues *)

(* vams_queue_put of a block that is not in the queue adds that block and  *)
(* keeps the entries distinct.                                             *)
LEMMA AppendOwned ==
    ASSUME NEW q \in Seq(Objects), NEW o \in Objects,
           Injective(q), o \notin InQueue(q)
    PROVE  /\ Injective(Append(q, o))
           /\ InQueue(Append(q, o)) = InQueue(q) \cup {o}
<1> DEFINE r == Append(q, o)
<1>1. /\ Len(q) \in Nat /\ Len(r) = Len(q) + 1 /\ r[Len(q) + 1] = o
      /\ \A i \in 1 .. Len(q) : r[i] = q[i]
  BY SMTT(20)
<1>2. \A i \in 1 .. Len(q) : q[i] # o
  BY DEF InQueue
<1> HIDE DEF r
<1>3. 1 .. Len(r) = (1 .. Len(q)) \cup {Len(q) + 1}
  BY <1>1, SMTT(20)
<1>4. Injective(r)
  BY <1>1, <1>2, <1>3 DEF Injective
<1>5. InQueue(r) = InQueue(q) \cup {o}
  BY <1>1, <1>3 DEF InQueue
<1> QED
  BY <1>4, <1>5 DEF r

(* k_msgq_get takes the first entry, and it is in the queue no longer.     *)
LEMMA TailOwned ==
    ASSUME NEW q \in Seq(Objects), q # << >>, Injective(q)
    PROVE  /\ Head(q) \in InQueue(q)
           /\ Injective(Tail(q))
           /\ InQueue(Tail(q)) = InQueue(q) \ {Head(q)}
<1> DEFINE r == Tail(q)
<1>1. /\ Len(q) \in Nat \ {0} /\ Len(r) = Len(q) - 1 /\ Head(q) = q[1]
      /\ \A i \in 1 .. Len(q) - 1 : r[i] = q[i + 1]
  BY SMTT(20)
<1> HIDE DEF r
<1>2. Head(q) \in InQueue(q)
  BY <1>1, SMTT(20) DEF InQueue
<1>3. Injective(r)
  BY <1>1, SMTT(20) DEF Injective
<1>4. InQueue(r) = InQueue(q) \ {Head(q)}
  <2>1. ASSUME NEW x \in InQueue(r) PROVE x \in InQueue(q) \ {Head(q)}
    <3>1. PICK i \in 1 .. Len(q) - 1 : x = q[i + 1]
      BY <1>1 DEF InQueue
    <3>2. i + 1 \in 1 .. Len(q) /\ i + 1 # 1
      BY <1>1, SMTT(20)
    <3> QED
      BY <1>1, <3>1, <3>2, SMTT(20) DEF InQueue, Injective
  <2>2. ASSUME NEW x \in InQueue(q) \ {Head(q)} PROVE x \in InQueue(r)
    <3>1. PICK i \in 1 .. Len(q) : x = q[i]
      BY DEF InQueue
    <3>2. i - 1 \in 1 .. Len(r) /\ r[i - 1] = x
      BY <1>1, <3>1, SMTT(20)
    <3> QED
      BY <3>2 DEF InQueue
  <2> QED
    BY <2>1, <2>2
<1> QED
  BY <1>2, <1>3, <1>4 DEF r

(* An asserted put either adds the block or stops the firmware.            *)
LEMMA PutOwned ==
    ASSUME NEW q \in Seq(Objects), NEW n, NEW o \in Objects,
           Injective(q), o \notin InQueue(q)
    PROVE  /\ Injective(PutOrKeep(q, n, o))
           /\ IF Room(q, n)
              THEN InQueue(PutOrKeep(q, n, o)) = InQueue(q) \cup {o}
              ELSE InQueue(PutOrKeep(q, n, o)) = InQueue(q)
BY AppendOwned DEF PutOrKeep

(* A queue without entries holds nothing.                                  *)
LEMMA EmptyOwned == Injective(<< >>) /\ InQueue(<< >>) = {}
BY SMTT(20) DEF Injective, InQueue

-----------------------------------------------------------------------------
(* Places *)

(* No block is in two of the places of f.                                  *)
Apart(f) == \A v, w \in Places : v # w => f[v] \cap f[w] = {}

(* Every block is in one of the places of f.                               *)
Covers(f) == \A o \in Objects : \E w \in Places : o \in f[w]

(* If one block leaves place v for w, or leaves v and gets lost, no block  *)
(* is in two places; and none is lost unless that one was.                 *)
LEMMA Moved ==
    ASSUME NEW f, NEW g, NEW v \in Places, NEW w \in Places, v # w,
           NEW o \in f[v], Apart(f),
           g[v] = f[v] \ {o},
           g[w] = f[w] \/ g[w] = f[w] \cup {o},
           \A u \in Places \ {v, w} : g[u] = f[u]
    PROVE  /\ Apart(g)
           /\ g[w] = f[w] \cup {o} /\ Covers(f) => Covers(g)
<1>1. \A u \in Places : u # v => o \notin f[u]
  BY DEF Apart
<1>2. \A u \in Places : /\ u \notin {v, w} => g[u] = f[u]
                        /\ \A x \in g[u] : x # o => x \in f[u]
                        /\ o \in g[u] => u = w
  BY <1>1
<1>3. Apart(g)
  BY <1>2, SMTT(20) DEF Apart
<1>4. ASSUME g[w] = f[w] \cup {o}, Covers(f), NEW x \in Objects
      PROVE  \E u \in Places : x \in g[u]
  <2>1. PICK u \in Places : x \in f[u]
    BY <1>4 DEF Covers
  <2>2. CASE x = o
    BY <1>4, <2>2
  <2>3. CASE x # o
    <3>1. x \in g[u]
      BY <1>4, <2>1, <2>3
    <3> QED
      BY <3>1
  <2> QED
    BY <2>2, <2>3
<1> QED
  BY <1>3, <1>4 DEF Covers

(* The step takes block o from place v and puts it into w, or loses it.    *)
Handed(v, w, o) ==
    /\ o \in Placed[v] /\ Placed'[v] = Placed[v] \ {o}
    /\ Placed'[w] = Placed[w] \/ Placed'[w] = Placed[w] \cup {o}
    /\ \A u \in Places \ {v, w} : Placed'[u] = Placed[u]

(* What Placed says, in this state and in the next.                        *)
LEMMA PlacedValues ==
    /\ Placed["pool"] = pool /\ Placed["ready"] = ready
    /\ Placed["validationQ"] = InQueue(validationQ)
    /\ Placed["readyQ"] = InQueue(readyQ)
    /\ Placed["runningQ"] = InQueue(runningQ)
    /\ Placed["completionQ"] = InQueue(completionQ)
    /\ \A t \in Tasks : Placed[t] = {task[t].obj} \cap Objects
    /\ Placed'["pool"] = pool' /\ Placed'["ready"] = ready'
    /\ Placed'["validationQ"] = InQueue(validationQ')
    /\ Placed'["readyQ"] = InQueue(readyQ')
    /\ Placed'["runningQ"] = InQueue(runningQ')
    /\ Placed'["completionQ"] = InQueue(completionQ')
    /\ \A t \in Tasks : Placed'[t] = {task'[t].obj} \cap Objects
BY DEF Placed, Places, Tasks, Holds, InQueue

-----------------------------------------------------------------------------
(* The steps of the tasks *)

(* The parts of OneOwner, in this state and in the next.                   *)
LEMMA OwnerParts ==
    /\ OneOwner =>
         /\ Injective(validationQ) /\ Injective(readyQ)
         /\ Injective(runningQ) /\ Injective(completionQ)
         /\ Apart(Placed) /\ (halted = "no" => Covers(Placed))
    /\ /\ Injective(validationQ') /\ Injective(readyQ')
       /\ Injective(runningQ') /\ Injective(completionQ')
       /\ Apart(Placed') /\ (halted' = "no" => Covers(Placed'))
       => OneOwner'
BY DEF OneOwner, Apart, Covers, Injective

(* vams_command_receiver: a free block becomes an entry of the validation  *)
(* queue.                                                                  *)
LEMMA OwnedReceiver ==
    ASSUME Typed, OneOwner, Receiver
    PROVE  /\ OneOwner'
           /\ \E o \in pool : /\ pool' = pool \ {o}
                              /\ cmd' = [cmd EXCEPT ![o] = Captured(portal.sub)]
                              /\ Handed("pool", "validationQ", o)
<1>1. PICK o \in pool :
        /\ pool' = pool \ {o}
        /\ cmd' = [cmd EXCEPT ![o] = Captured(portal.sub)]
        /\ validationQ' = PutOrKeep(validationQ, PoolSize, o)
  BY DEF Receiver, ReceiverAdmit
<1>2. /\ UNCHANGED <<readyQ, ready, runningQ, completionQ, task>>
      /\ halted' = IF Room(validationQ, PoolSize) THEN halted ELSE "validation"
      /\ halted = "no"
  BY DEF Receiver, ReceiverAdmit, AssertRoom, CanRun
<1>3. /\ o \in Objects /\ o \in Placed["pool"] /\ o \notin InQueue(validationQ)
      /\ validationQ \in Seq(Objects)
  BY <1>1, OwnerParts, PlacedValues DEF Typed, TypeOK, Apart, Places
<1>4. /\ Injective(validationQ')
      /\ InQueue(validationQ') = IF Room(validationQ, PoolSize)
                                 THEN InQueue(validationQ) \cup {o}
                                 ELSE InQueue(validationQ)
  BY <1>1, <1>3, OwnerParts, PutOwned
<1>5. \A u \in Places \ {"pool", "validationQ"} : Placed'[u] = Placed[u]
  BY <1>2, PlacedValues DEF Places, Tasks
<1>6. /\ Apart(Placed')
      /\ Placed'["validationQ"] = Placed["validationQ"] \cup {o} /\ Covers(Placed)
           => Covers(Placed')
  BY <1>1, <1>3, <1>4, <1>5, OwnerParts, PlacedValues, Moved, SMTT(20) DEF Places
<1>7. OneOwner'
  BY <1>2, <1>4, <1>6, OwnerParts, PlacedValues
<1>8. Handed("pool", "validationQ", o)
  BY <1>1, <1>3, <1>4, <1>5, PlacedValues DEF Handed
<1> QED
  BY <1>1, <1>7, <1>8

(* vams_command_validator: the head of the validation queue goes on to the *)
(* ready queue or, rejected, to the completion queue.                      *)
LEMMA OwnedValidator ==
    ASSUME Typed, OneOwner, Validator
    PROVE  /\ OneOwner'
           /\ Head(validationQ) \in Placed["validationQ"]
           /\ ValidatorAccept => Handed("validationQ", "readyQ", Head(validationQ))
           /\ ValidatorReject =>
                Handed("validationQ", "completionQ", Head(validationQ))
<1> DEFINE o == Head(validationQ)
<1>1. /\ validationQ # << >> /\ validationQ' = Tail(validationQ)
      /\ UNCHANGED <<pool, ready, runningQ, task>> /\ halted = "no"
  BY DEF Validator, ValidatorAccept, ValidatorReject, CanRun
<1>2. /\ validationQ \in Seq(Objects) /\ readyQ \in Seq(Objects)
      /\ completionQ \in Seq(Objects)
  BY DEF Typed, TypeOK
<1>3. /\ o \in InQueue(validationQ) /\ Injective(validationQ')
      /\ InQueue(validationQ') = InQueue(validationQ) \ {o}
      /\ o \in Objects
  BY <1>1, <1>2, OwnerParts, TailOwned, QueueTypes
<1>4. o \notin InQueue(readyQ) /\ o \notin InQueue(completionQ)
  BY <1>3, OwnerParts, PlacedValues, SMTT(20) DEF Apart, Places
<1> HIDE DEF o
<1>5. ASSUME ValidatorAccept
      PROVE  OneOwner' /\ Handed("validationQ", "readyQ", o)
  <2>1. /\ readyQ' = PutOrKeep(readyQ, PoolSize, o) /\ completionQ' = completionQ
        /\ halted' = IF Room(readyQ, PoolSize) THEN halted ELSE "ready"
    BY <1>5 DEF ValidatorAccept, AssertRoom, o
  <2>2. /\ Injective(readyQ')
        /\ InQueue(readyQ') = IF Room(readyQ, PoolSize)
                              THEN InQueue(readyQ) \cup {o} ELSE InQueue(readyQ)
    BY <1>2, <1>3, <1>4, <2>1, OwnerParts, PutOwned
  <2>3. \A u \in Places \ {"validationQ", "readyQ"} : Placed'[u] = Placed[u]
    BY <1>1, <2>1, PlacedValues DEF Places, Tasks
  <2>4. /\ Apart(Placed')
        /\ Placed'["readyQ"] = Placed["readyQ"] \cup {o} /\ Covers(Placed)
             => Covers(Placed')
    BY <1>3, <2>2, <2>3, OwnerParts, PlacedValues, Moved, SMTT(20) DEF Places
  <2>5. Handed("validationQ", "readyQ", o)
    BY <1>3, <2>2, <2>3, PlacedValues DEF Handed
  <2>6. OneOwner'
    BY <1>1, <1>3, <2>1, <2>2, <2>4, OwnerParts, PlacedValues
  <2> QED
    BY <2>5, <2>6
<1>6. ASSUME ValidatorReject
      PROVE  OneOwner' /\ Handed("validationQ", "completionQ", o)
  <2>1. /\ completionQ' = PutOrKeep(completionQ, PoolSize, o) /\ readyQ' = readyQ
        /\ halted' = IF Room(completionQ, PoolSize) THEN halted ELSE "completion"
    BY <1>6 DEF ValidatorReject, AssertRoom, o
  <2>2. /\ Injective(completionQ')
        /\ InQueue(completionQ') = IF Room(completionQ, PoolSize)
                                   THEN InQueue(completionQ) \cup {o}
                                   ELSE InQueue(completionQ)
    BY <1>2, <1>3, <1>4, <2>1, OwnerParts, PutOwned
  <2>3. \A u \in Places \ {"validationQ", "completionQ"} : Placed'[u] = Placed[u]
    BY <1>1, <2>1, PlacedValues DEF Places, Tasks
  <2>4. /\ Apart(Placed')
        /\ Placed'["completionQ"] = Placed["completionQ"] \cup {o} /\ Covers(Placed)
             => Covers(Placed')
    BY <1>3, <2>2, <2>3, OwnerParts, PlacedValues, Moved, SMTT(20) DEF Places
  <2>5. Handed("validationQ", "completionQ", o)
    BY <1>3, <2>2, <2>3, PlacedValues DEF Handed
  <2>6. OneOwner'
    BY <1>1, <1>3, <2>1, <2>2, <2>4, OwnerParts, PlacedValues
  <2> QED
    BY <2>5, <2>6
<1> QED
  BY <1>3, <1>5, <1>6, PlacedValues DEF Validator, o

(* vams_command_scheduler: the ready queue is emptied into the array, and  *)
(* one block goes from there into the hands of the scheduler, which were   *)
(* empty.                                                                  *)
LEMMA OwnedPick ==
    ASSUME Typed, OneOwner, SchedulerPick
    PROVE  /\ OneOwner'
           /\ \E o \in ready \cup InQueue(readyQ) :
                /\ Selected(o, ready \cup InQueue(readyQ))
                /\ Placed["scheduler"] = {} /\ Placed'["scheduler"] = {o}
                /\ Placed'["readyQ"] = {}
                /\ Placed'["ready"] = (Placed["ready"] \cup Placed["readyQ"]) \ {o}
                /\ task'["scheduler"].pc = "picked"
                /\ task'["recovery"] = task["recovery"]
           /\ \A u \in Places \ {"readyQ", "ready", "scheduler"} : Placed'[u] = Placed[u]
<1>1. PICK o \in ready \cup InQueue(readyQ) :
        /\ Selected(o, ready \cup InQueue(readyQ))
        /\ ready' = (ready \cup InQueue(readyQ)) \ {o}
        /\ task' = [task EXCEPT !["scheduler"] = [pc |-> "picked", obj |-> o]]
  BY DEF SchedulerPick
<1>2. /\ readyQ' = << >>
      /\ UNCHANGED <<pool, validationQ, runningQ, completionQ, halted>>
      /\ halted = "no"
  BY DEF SchedulerPick, CanRun
<1>3. o \in Objects
  BY QueueTypes DEF Typed, TypeOK
<1>4. task["scheduler"].obj = None
  BY DEF SchedulerPick, At, Typed, TaskFits, Tasks
<1>5. /\ task'["scheduler"].obj = o /\ task'["scheduler"].pc = "picked"
      /\ task'["recovery"] = task["recovery"]
      /\ \A t \in Tasks \ {"scheduler"} : task'[t] = task[t]
  BY <1>1 DEF Typed, TypeOK, Tasks
<1>6. /\ Placed["scheduler"] = {} /\ Placed'["scheduler"] = {o}
      /\ Placed'["readyQ"] = {}
      /\ Placed'["ready"] = (Placed["ready"] \cup Placed["readyQ"]) \ {o}
  BY <1>1, <1>2, <1>3, <1>4, <1>5, PlacedValues, EmptyOwned, PoolAssumption, SMTT(20)
     DEF Tasks
<1>7. \A u \in Places \ {"readyQ", "ready", "scheduler"} : Placed'[u] = Placed[u]
  BY <1>2, <1>5, PlacedValues DEF Places, Tasks
<1>8. o \in Placed["ready"] \cup Placed["readyQ"]
  BY PlacedValues
<1>9. Apart(Placed')
  BY <1>6, <1>7, <1>8, OwnerParts, SMTT(20) DEF Apart, Places
<1>10. Covers(Placed')
  <2>1. Covers(Placed)
    BY <1>2, OwnerParts
  <2>2. ASSUME NEW x \in Objects PROVE \E u \in Places : x \in Placed'[u]
    <3>1. PICK u \in Places : x \in Placed[u]
      BY <2>1 DEF Covers
    <3>2. CASE u \in {"readyQ", "ready", "scheduler"}
      BY <1>6, <3>1, <3>2 DEF Places
    <3>3. CASE u \notin {"readyQ", "ready", "scheduler"}
      BY <1>7, <3>1, <3>3
    <3> QED
      BY <3>2, <3>3
  <2> QED
    BY <2>2 DEF Covers
<1>11. OneOwner'
  BY <1>2, <1>9, <1>10, OwnerParts, EmptyOwned
<1> QED
  BY <1>1, <1>5, <1>6, <1>7, <1>11

(* A task that gives up the block it holds holds nothing, and the others   *)
(* hold what they held.                                                    *)
LEMMA ReleaseOwned ==
    ASSUME Typed, NEW t \in Tasks, task[t].pc # "idle", Release(t)
    PROVE  /\ task[t].obj \in Objects
           /\ task[t].obj \in Placed[t]
           /\ Placed'[t] = Placed[t] \ {task[t].obj}
           /\ \A u \in Tasks \ {t} : Placed'[u] = Placed[u]
<1>1. task[t].obj \in Objects
  BY DEF Typed, TaskFits
<1>2. /\ task'[t].obj = None
      /\ \A u \in Tasks \ {t} : task'[u] = task[u]
  BY DEF Release, Typed, TypeOK
<1>3. Placed[t] = {task[t].obj}
  BY <1>1, PlacedValues, SMTT(20)
<1>4. Placed'[t] = {}
  BY <1>2, PlacedValues, PoolAssumption, SMTT(20)
<1>5. ASSUME NEW u \in Tasks \ {t}
      PROVE  Placed'[u] = Placed[u]
  <2>1. task'[u].obj = task[u].obj
    BY <1>2
  <2>2. Placed[u] = {task[u].obj} \cap Objects
    BY PlacedValues
  <2>3. Placed'[u] = {task'[u].obj} \cap Objects
    BY PlacedValues
  <2> QED
    BY <2>1, <2>2, <2>3
<1> QED
  BY <1>1, <1>3, <1>4, <1>5

(* Scheduler and recovery manager hand a terminal command to the           *)
(* completion task.                                                        *)
LEMMA OwnedFinish ==
    ASSUME Typed, OneOwner, NEW t \in {"scheduler", "recovery"},
           task[t].pc # "idle", Release(t), halted = "no",
           completionQ' = PutOrKeep(completionQ, PoolSize, task[t].obj),
           AssertRoom(completionQ, PoolSize, "completion"),
           UNCHANGED <<pool, validationQ, readyQ, ready, runningQ>>
    PROVE  OneOwner' /\ Handed(t, "completionQ", task[t].obj)
<1> DEFINE o == task[t].obj
<1>1. /\ o \in Objects /\ o \in Placed[t] /\ Placed'[t] = Placed[t] \ {o}
      /\ \A u \in Tasks \ {t} : Placed'[u] = Placed[u]
  BY ReleaseOwned DEF Tasks
<1>2. completionQ \in Seq(Objects) /\ completionQ' = PutOrKeep(completionQ, PoolSize, o)
  BY DEF Typed, TypeOK
<1> HIDE DEF o
<1>3. o \notin InQueue(completionQ)
  BY <1>1, OwnerParts, PlacedValues DEF Apart, Places
<1>4. /\ Injective(completionQ')
      /\ InQueue(completionQ') = IF Room(completionQ, PoolSize)
                                 THEN InQueue(completionQ) \cup {o}
                                 ELSE InQueue(completionQ)
  BY <1>1, <1>2, <1>3, OwnerParts, PutOwned, SMTT(20)
<1>5. \A u \in Places \ {t, "completionQ"} : Placed'[u] = Placed[u]
  BY <1>1, PlacedValues DEF Places, Tasks
<1>6. /\ Apart(Placed')
      /\ Placed'["completionQ"] = Placed["completionQ"] \cup {o} /\ Covers(Placed)
           => Covers(Placed')
  <2>1. t \in Places /\ "completionQ" \in Places /\ t # "completionQ"
    BY DEF Places
  <2>2. \/ Placed'["completionQ"] = Placed["completionQ"]
        \/ Placed'["completionQ"] = Placed["completionQ"] \cup {o}
    BY <1>4, PlacedValues
  <2>3. Apart(Placed)
    BY OwnerParts
  <2>4. o \in Placed[t] /\ Placed'[t] = Placed[t] \ {o}
    BY <1>1
  <2> QED
    BY <1>5, <2>1, <2>2, <2>3, <2>4, Moved, SMTT(20)
<1>7. halted' = "no" => Room(completionQ, PoolSize)
  BY DEF AssertRoom
<1>8. Injective(validationQ') /\ Injective(readyQ') /\ Injective(runningQ')
  BY OwnerParts
<1>9. halted' = "no" => Covers(Placed')
  BY <1>4, <1>6, <1>7, OwnerParts, PlacedValues
<1>10. OneOwner'
  BY <1>4, <1>6, <1>8, <1>9, OwnerParts
<1>11. Handed(t, "completionQ", o)
  BY <1>1, <1>4, <1>5, PlacedValues DEF Handed
<1> QED
  BY <1>10, <1>11 DEF o

(* The scheduler hands an authorized command to the recovery manager.      *)
LEMMA OwnedRun ==
    ASSUME Typed, OneOwner, SchedulerRing
    PROVE  OneOwner' /\ Handed("scheduler", "runningQ", task["scheduler"].obj)
<1> DEFINE o == task["scheduler"].obj
<1>1. /\ task["scheduler"].pc # "idle" /\ Release("scheduler") /\ halted = "no"
      /\ runningQ' = PutOrKeep(runningQ, 1, o)
      /\ halted' = IF Room(runningQ, 1) THEN halted ELSE "running"
      /\ UNCHANGED <<pool, validationQ, readyQ, ready, completionQ>>
  BY DEF SchedulerRing, CanRun, At, AssertRoom
<1>2. /\ o \in Objects /\ o \in Placed["scheduler"]
      /\ Placed'["scheduler"] = Placed["scheduler"] \ {o}
      /\ \A u \in Tasks \ {"scheduler"} : Placed'[u] = Placed[u]
  BY <1>1, ReleaseOwned DEF Tasks
<1> HIDE DEF o
<1>3. runningQ \in Seq(Objects) /\ o \notin InQueue(runningQ)
  BY <1>2, OwnerParts, PlacedValues DEF Apart, Places, Typed, TypeOK
<1>4. /\ Injective(runningQ')
      /\ InQueue(runningQ') = IF Room(runningQ, 1) THEN InQueue(runningQ) \cup {o}
                              ELSE InQueue(runningQ)
  BY <1>1, <1>2, <1>3, OwnerParts, PutOwned
<1>5. \A u \in Places \ {"scheduler", "runningQ"} : Placed'[u] = Placed[u]
  BY <1>1, <1>2, PlacedValues DEF Places, Tasks
<1>6. /\ Apart(Placed')
      /\ Placed'["runningQ"] = Placed["runningQ"] \cup {o} /\ Covers(Placed)
           => Covers(Placed')
  BY <1>2, <1>4, <1>5, OwnerParts, PlacedValues, Moved, SMTT(20) DEF Places
<1>7. halted' = "no" => Covers(Placed')
  BY <1>1, <1>4, <1>6, OwnerParts, PlacedValues
<1>8. OneOwner'
  BY <1>1, <1>4, <1>6, <1>7, OwnerParts
<1>9. Handed("scheduler", "runningQ", o)
  BY <1>2, <1>4, <1>5, PlacedValues DEF Handed
<1> QED
  BY <1>8, <1>9 DEF o

(* A task that takes a block holds it, and the others hold what they held. *)
LEMMA TakeOwned ==
    ASSUME Typed, NEW t \in Tasks, task[t].pc = "idle", NEW pc, NEW o \in Objects,
           task' = [task EXCEPT ![t] = [pc |-> pc, obj |-> o]]
    PROVE  /\ Placed[t] = {} /\ Placed'[t] = {o}
           /\ \A u \in Tasks \ {t} : Placed'[u] = Placed[u]
<1>1. task[t].obj = None
  BY DEF Typed, TaskFits
<1>2. /\ task'[t].obj = o
      /\ \A u \in Tasks \ {t} : task'[u] = task[u]
  BY DEF Typed, TypeOK
<1>3. Placed[t] = {}
  BY <1>1, PlacedValues, PoolAssumption, SMTT(20)
<1>4. Placed'[t] = {o}
  BY <1>2, PlacedValues, SMTT(20)
<1>5. ASSUME NEW u \in Tasks \ {t}
      PROVE  Placed'[u] = Placed[u]
  <2>1. task'[u].obj = task[u].obj
    BY <1>2
  <2>2. Placed[u] = {task[u].obj} \cap Objects
    BY PlacedValues
  <2>3. Placed'[u] = {task'[u].obj} \cap Objects
    BY PlacedValues
  <2> QED
    BY <2>1, <2>2, <2>3
<1> QED
  BY <1>3, <1>4, <1>5

(* Completion task and recovery manager take the head of their queue.      *)
LEMMA OwnedTake ==
    ASSUME Typed, OneOwner, CompletionTake \/ RecoveryTake
    PROVE  /\ OneOwner'
           /\ CompletionTake =>
                Handed("completionQ", "completion", Head(completionQ))
           /\ RecoveryTake => Handed("runningQ", "recovery", Head(runningQ))
<1>1. ASSUME CompletionTake
      PROVE  OneOwner' /\ Handed("completionQ", "completion", Head(completionQ))
  <2> DEFINE o == Head(completionQ)
  <2>1. /\ completionQ # << >> /\ completionQ' = Tail(completionQ)
        /\ task["completion"].pc = "idle"
        /\ task' = [task EXCEPT !["completion"] = [pc |-> Publishing, obj |-> o]]
        /\ UNCHANGED <<pool, validationQ, readyQ, ready, runningQ, halted>>
    BY <1>1 DEF CompletionTake, At
  <2>2. completionQ \in Seq(Objects)
    BY DEF Typed, TypeOK
  <2>3. /\ o \in InQueue(completionQ) /\ Injective(completionQ')
        /\ InQueue(completionQ') = InQueue(completionQ) \ {o} /\ o \in Objects
    BY <2>1, <2>2, OwnerParts, TailOwned, QueueTypes
  <2> HIDE DEF o
  <2>4. /\ Placed["completion"] = {} /\ Placed'["completion"] = {o}
        /\ \A u \in Tasks \ {"completion"} : Placed'[u] = Placed[u]
    BY <2>1, <2>3, TakeOwned DEF Tasks
  <2>5. \A u \in Places \ {"completionQ", "completion"} : Placed'[u] = Placed[u]
    BY <2>1, <2>4, PlacedValues DEF Places, Tasks
  <2>6. Placed'["completion"] = Placed["completion"] \cup {o}
    BY <2>4
  <2>7. Apart(Placed') /\ (Covers(Placed) => Covers(Placed'))
    BY <2>3, <2>5, <2>6, OwnerParts, PlacedValues, Moved, SMTT(20) DEF Places
  <2>8. OneOwner' /\ Handed("completionQ", "completion", o)
    BY <2>1, <2>3, <2>5, <2>6, <2>7, OwnerParts, PlacedValues DEF Handed
  <2> QED
    BY <2>8 DEF o
<1>2. ASSUME RecoveryTake
      PROVE  OneOwner' /\ Handed("runningQ", "recovery", Head(runningQ))
  <2> DEFINE o == Head(runningQ)
  <2>1. /\ runningQ # << >> /\ runningQ' = Tail(runningQ)
        /\ task["recovery"].pc = "idle"
        /\ task' = [task EXCEPT !["recovery"] = [pc |-> "wait", obj |-> o]]
        /\ UNCHANGED <<pool, validationQ, readyQ, ready, completionQ, halted>>
    BY <1>2 DEF RecoveryTake, At
  <2>2. runningQ \in Seq(Objects)
    BY DEF Typed, TypeOK
  <2>3. /\ o \in InQueue(runningQ) /\ Injective(runningQ')
        /\ InQueue(runningQ') = InQueue(runningQ) \ {o} /\ o \in Objects
    BY <2>1, <2>2, OwnerParts, TailOwned, QueueTypes
  <2> HIDE DEF o
  <2>4. /\ Placed["recovery"] = {} /\ Placed'["recovery"] = {o}
        /\ \A u \in Tasks \ {"recovery"} : Placed'[u] = Placed[u]
    BY <2>1, <2>3, TakeOwned DEF Tasks
  <2>5. \A u \in Places \ {"runningQ", "recovery"} : Placed'[u] = Placed[u]
    BY <2>1, <2>4, PlacedValues DEF Places, Tasks
  <2>6. Placed'["recovery"] = Placed["recovery"] \cup {o}
    BY <2>4
  <2>7. Apart(Placed') /\ (Covers(Placed) => Covers(Placed'))
    BY <2>3, <2>5, <2>6, OwnerParts, PlacedValues, Moved, SMTT(20) DEF Places
  <2>8. OneOwner' /\ Handed("runningQ", "recovery", o)
    BY <2>1, <2>3, <2>5, <2>6, <2>7, OwnerParts, PlacedValues DEF Handed
  <2> QED
    BY <2>8 DEF o
<1> QED
  BY <1>1, <1>2

(* The completion task returns a published block to the pool.              *)
LEMMA OwnedReturn ==
    ASSUME Typed, OneOwner, CompletionRing
    PROVE  OneOwner' /\ Handed("completion", "pool", task["completion"].obj)
<1> DEFINE o == task["completion"].obj
<1>1. /\ task["completion"].pc # "idle" /\ Release("completion")
      /\ pool' = pool \cup {o}
      /\ UNCHANGED <<validationQ, readyQ, ready, runningQ, completionQ, halted>>
  BY DEF CompletionRing, At
<1>2. /\ o \in Objects /\ o \in Placed["completion"]
      /\ Placed'["completion"] = Placed["completion"] \ {o}
      /\ \A u \in Tasks \ {"completion"} : Placed'[u] = Placed[u]
  BY <1>1, ReleaseOwned DEF Tasks
<1> HIDE DEF o
<1>3. \A u \in Places \ {"completion", "pool"} : Placed'[u] = Placed[u]
  BY <1>1, <1>2, PlacedValues DEF Places, Tasks
<1>4. Placed'["pool"] = Placed["pool"] \cup {o}
  BY <1>1, PlacedValues
<1>5. Apart(Placed') /\ (Covers(Placed) => Covers(Placed'))
  BY <1>2, <1>3, <1>4, OwnerParts, Moved DEF Places
<1>6. OneOwner'
  BY <1>1, <1>5, OwnerParts
<1>7. Handed("completion", "pool", o)
  BY <1>2, <1>3, <1>4 DEF Handed
<1> QED
  BY <1>6, <1>7 DEF o

(* The steps that end a command use OwnedFinish.                           *)
LEMMA OwnedEnd ==
    ASSUME Typed, OneOwner,
           SchedulerExpire \/ SchedulerNop \/ RecoveryResult \/ RecoveryEscalate
    PROVE  /\ OneOwner'
           /\ SchedulerExpire \/ SchedulerNop =>
                Handed("scheduler", "completionQ", task["scheduler"].obj)
           /\ RecoveryResult \/ RecoveryEscalate =>
                Handed("recovery", "completionQ", task["recovery"].obj)
<1>1. ASSUME SchedulerExpire \/ SchedulerNop
      PROVE  OneOwner' /\ Handed("scheduler", "completionQ", task["scheduler"].obj)
  <2>1. /\ task["scheduler"].pc # "idle" /\ Release("scheduler") /\ halted = "no"
        /\ completionQ' = PutOrKeep(completionQ, PoolSize, task["scheduler"].obj)
        /\ AssertRoom(completionQ, PoolSize, "completion")
        /\ UNCHANGED <<pool, validationQ, readyQ, ready, runningQ>>
    BY <1>1 DEF SchedulerExpire, SchedulerNop, CanRun, At
  <2> QED
    BY <2>1, OwnedFinish
<1>2. ASSUME RecoveryResult \/ RecoveryEscalate
      PROVE  OneOwner' /\ Handed("recovery", "completionQ", task["recovery"].obj)
  <2>1. /\ task["recovery"].pc # "idle" /\ Release("recovery") /\ halted = "no"
        /\ completionQ' = PutOrKeep(completionQ, PoolSize, task["recovery"].obj)
        /\ AssertRoom(completionQ, PoolSize, "completion")
        /\ UNCHANGED <<pool, validationQ, readyQ, ready, runningQ>>
    BY <1>2 DEF RecoveryResult, RecoveryEscalate, CanRun, At
  <2> QED
    BY <2>1, OwnedFinish
<1> QED
  BY <1>1, <1>2

(* A step that moves no block keeps the ownership.                         *)
LEMMA OwnedStay ==
    ASSUME OneOwner, \A t \in Tasks : task'[t].obj = task[t].obj,
           UNCHANGED <<pool, validationQ, readyQ, ready, runningQ, completionQ, halted>>
    PROVE  OneOwner'
<1>1. \A t \in Tasks : Placed'[t] = Placed[t]
  BY PlacedValues
<1>2. \A u \in Places : Placed'[u] = Placed[u]
  BY <1>1, PlacedValues DEF Places, Tasks
<1>3. Apart(Placed') /\ (halted' = "no" => Covers(Placed'))
  BY <1>2, OwnerParts DEF Apart, Covers
<1> QED
  BY <1>3, OwnerParts

(* A task that only moves its program counter keeps its block.             *)
LEMMA OwnedGoto ==
    ASSUME Typed, OneOwner, NEW t \in Tasks, NEW pc, Goto(t, pc),
           UNCHANGED <<pool, validationQ, readyQ, ready, runningQ, completionQ, halted>>
    PROVE  OneOwner'
<1>1. \A u \in Tasks : task'[u].obj = task[u].obj
  BY DEF Goto, Typed, TypeOK
<1> QED
  BY <1>1, OwnedStay

LEMMA OwnedStep ==
    ASSUME Typed, OneOwner,
           \/ SchedulerRun \/ RecoveryExpire \/ AbortCheck \/ AbortWrite \/ AbortRing
           \/ \E t \in Publishers : PublishRetry(t) \/ PublishTimeout(t) \/ PublishWrite(t)
    PROVE  OneOwner'
<1>1. PICK t \in Tasks, pc \in TaskPC :
        /\ Goto(t, pc)
        /\ UNCHANGED <<pool, validationQ, readyQ, ready, runningQ, completionQ, halted>>
  BY DEF SchedulerRun, RecoveryExpire, AbortCheck, AbortWrite, AbortRing, PublishRetry,
         PublishTimeout, PublishWrite, Publishers, Publishing, Tasks, TaskPC
<1> QED
  BY <1>1, OwnedGoto

(* At power on and after a CPU reset every block is in the pool.           *)
LEMMA OwnedReset ==
    ASSUME pool' = Objects, validationQ' = << >>, readyQ' = << >>, ready' = {},
           runningQ' = << >>, completionQ' = << >>,
           task' = [t \in Tasks |-> [pc |-> "idle", obj |-> None]]
    PROVE  OneOwner'
<1>1. Placed'["pool"] = Objects
  BY PlacedValues
<1>2. \A u \in Places \ {"pool"} : Placed'[u] = {}
  <2>1. \A t \in Tasks : Placed'[t] = {}
    BY PlacedValues, PoolAssumption
  <2> QED
    BY <2>1, PlacedValues, EmptyOwned DEF Places, Tasks
<1>3. Apart(Placed') /\ Covers(Placed')
  BY <1>1, <1>2 DEF Apart, Covers, Places
<1> QED
  BY <1>3, OwnerParts, EmptyOwned

LEMMA OwnedInit == Init => OneOwner
<1> SUFFICES ASSUME Init PROVE OneOwner
  OBVIOUS
<1>1. /\ pool = Objects /\ validationQ = << >> /\ readyQ = << >> /\ ready = {}
      /\ runningQ = << >> /\ completionQ = << >>
      /\ task = [t \in Tasks |-> [pc |-> "idle", obj |-> None]]
  BY DEF Init
<1>2. Placed["pool"] = Objects
  BY <1>1, PlacedValues
<1>3. \A u \in Places \ {"pool"} : Placed[u] = {}
  <2>1. \A t \in Tasks : Placed[t] = {}
    BY <1>1, PlacedValues, PoolAssumption, SMTT(20)
  <2> QED
    BY <1>1, <2>1, PlacedValues, EmptyOwned DEF Places, Tasks
<1>4. Apart(Placed) /\ Covers(Placed)
  BY <1>2, <1>3 DEF Apart, Covers, Places
<1> QED
  BY <1>1, <1>4, EmptyOwned DEF OneOwner, Apart, Covers

(* Every step keeps the ownership.                                         *)
LEMMA OwnedNext == Typed /\ OneOwner /\ [Next]_vars => OneOwner'
<1> SUFFICES ASSUME Typed, OneOwner, [Next]_vars PROVE OneOwner'
  OBVIOUS
<1>1. CASE Firmware
  <2>1. CASE Receiver
    BY <2>1, OwnedReceiver
  <2>2. CASE Validator
    BY <2>2, OwnedValidator
  <2>3. CASE Scheduler
    BY <2>3, OwnedPick, OwnedEnd, OwnedStep, OwnedRun DEF Scheduler, Publishers
  <2>4. CASE Recovery
    BY <2>4, OwnedTake, OwnedEnd, OwnedStep DEF Recovery
  <2>5. CASE CompletionTask
    BY <2>5, OwnedTake, OwnedStep, OwnedReturn DEF CompletionTask, Publishers
  <2> QED
    BY <1>1, <2>1, <2>2, <2>3, <2>4, <2>5 DEF Firmware
<1>2. CASE CpuReset
  BY <1>2, OwnedReset DEF CpuReset
<1>3. CASE ResetAckTimeout \/ WatchdogExpire \/ Tick \/ Peer \/ UNCHANGED vars
  <2>1. UNCHANGED <<task, pool, validationQ, readyQ, ready, runningQ, completionQ, halted>>
    BY <1>3 DEF ResetAckTimeout, WatchdogExpire, Tick, Peer, PeerSubmit, PeerReply,
                PeerGarbage, PeerTake, Disconnect, Connect, fwVars, vars
  <2> QED
    BY <2>1, OwnedStay
<1> QED
  BY <1>1, <1>2, <1>3 DEF Next, Device

(* Every command block has exactly one owner - the pool, one queue, the    *)
(* ready list or one task - in every state the firmware reaches, whatever  *)
(* the size of the pool and whatever the peer does; once an assertion has  *)
(* stopped the firmware, at most one.  No block is freed twice, queued     *)
(* twice or held by two tasks, and none is lost.                           *)
THEOREM BlocksHaveOneOwner == Spec => []OneOwner
<1>1. Init => Typed /\ OneOwner
  BY TypedInit, OwnedInit
<1>2. Typed /\ OneOwner /\ [Next]_vars => (Typed /\ OneOwner)'
  BY TypedNext, OwnedNext
<1> QED
  BY <1>1, <1>2, PTL DEF Spec
=============================================================================
