------------------------ MODULE CommandOutcomeProofs ------------------------
(***************************************************************************)
(* What becomes of a command: it is lost by no step, answered once and     *)
(* with its own result, and goes through the states of CommandLifecycle.   *)
(*                                                                         *)
(* Whatever a step does, of all objects it changes at most one, in one of  *)
(* the ways Effect lists. There is one lemma per step that says so;        *)
(* conservation, the answers and the refinement are then each a matter of  *)
(* the five cases of Effect.                                               *)
(***************************************************************************)
EXTENDS CommandPipelineProofs

(* Sets and functions without arithmetic are the rule here: Zenon is tried *)
(* first and alone.  A leaf that needs more cites SMT.                     *)
USE ZenonT(20)

-----------------------------------------------------------------------------
(* The states an object may be in, for each place: what StateFitsOwner     *)
(* says of the places.                                                     *)
Fit ==
    [w \in Places |->
        CASE w = "pool" -> {"FREE"}
          [] w = "validationQ" -> {"SUBMITTED"}
          [] w \in {"readyQ", "ready"} -> {"QUEUED"}
          [] w = "runningQ" -> {"RUNNING"}
          [] w = "scheduler" -> IF task[w].pc = "picked" THEN {"QUEUED"} ELSE {"RUNNING"}
          [] w = "recovery" -> IF task[w].pc = "wait" THEN {"RUNNING"} ELSE {"ABORTING"}
          [] OTHER -> Terminal]

(* Fit, place by place, before and after a step. *)
LEMMA FitValues ==
    /\ Fit["pool"] = {"FREE"} /\ Fit["validationQ"] = {"SUBMITTED"}
    /\ Fit["readyQ"] = {"QUEUED"} /\ Fit["ready"] = {"QUEUED"}
    /\ Fit["runningQ"] = {"RUNNING"}
    /\ Fit["completionQ"] = Terminal /\ Fit["completion"] = Terminal
    /\ Fit["scheduler"] = IF task["scheduler"].pc = "picked" THEN {"QUEUED"}
                          ELSE {"RUNNING"}
    /\ Fit["recovery"] = IF task["recovery"].pc = "wait" THEN {"RUNNING"}
                         ELSE {"ABORTING"}
    /\ Fit'["scheduler"] = IF task'["scheduler"].pc = "picked" THEN {"QUEUED"}
                           ELSE {"RUNNING"}
    /\ Fit'["recovery"] = IF task'["recovery"].pc = "wait" THEN {"RUNNING"}
                          ELSE {"ABORTING"}
    /\ \A w \in Places \ {"scheduler", "recovery"} : Fit'[w] = Fit[w]
<1>1. /\ Fit["pool"] = {"FREE"} /\ Fit["validationQ"] = {"SUBMITTED"}
      /\ Fit["readyQ"] = {"QUEUED"} /\ Fit["ready"] = {"QUEUED"}
      /\ Fit["runningQ"] = {"RUNNING"}
      /\ Fit["completionQ"] = Terminal /\ Fit["completion"] = Terminal
  BY DEF Fit, Places
<1>2. /\ Fit["scheduler"] = IF task["scheduler"].pc = "picked" THEN {"QUEUED"}
                            ELSE {"RUNNING"}
      /\ Fit["recovery"] = IF task["recovery"].pc = "wait" THEN {"RUNNING"}
                           ELSE {"ABORTING"}
  BY DEF Fit, Places
<1>3. /\ Fit'["scheduler"] = IF task'["scheduler"].pc = "picked" THEN {"QUEUED"}
                             ELSE {"RUNNING"}
      /\ Fit'["recovery"] = IF task'["recovery"].pc = "wait" THEN {"RUNNING"}
                            ELSE {"ABORTING"}
  BY DEF Fit, Places
<1>4. \A w \in Places \ {"scheduler", "recovery"} : Fit'[w] = Fit[w]
  BY DEF Fit, Places
<1> QED BY <1>1, <1>2, <1>3, <1>4

(* StateFitsOwner says that the state of every block fits the place it is  *)
(* in.                                                                     *)
LEMMA FitsMeans ==
    /\ StateFitsOwner => \A w \in Places : \A o \in Placed[w] : cmd[o].state \in Fit[w]
    /\ (\A w \in Places : \A o \in Placed'[w] : cmd'[o].state \in Fit'[w])
         => StateFitsOwner'
<1>1. ASSUME StateFitsOwner, NEW w \in Places, NEW o \in Placed[w]
      PROVE  cmd[o].state \in Fit[w]
  <2>1. CASE w \in {"pool", "validationQ", "readyQ", "ready", "runningQ"}
    BY <1>1, <2>1, PlacedValues, FitValues, SMTT(20) DEF StateFitsOwner
  <2>2. CASE w \in {"completionQ", "completion"}
    BY <1>1, <2>2, PlacedValues, FitValues, SMTT(20) DEF StateFitsOwner, Holds, Tasks
  <2>3. CASE w \in {"scheduler", "recovery"}
    BY <1>1, <2>3, PlacedValues, FitValues, SMTT(20) DEF StateFitsOwner, Holds, Tasks, At
  <2> QED BY <2>1, <2>2, <2>3 DEF Places
<1>2. ASSUME \A w \in Places : \A o \in Placed'[w] : cmd'[o].state \in Fit'[w]
      PROVE  StateFitsOwner'
  <2>1. /\ \A o \in pool' : cmd'[o].state = "FREE"
        /\ \A o \in InQueue(validationQ') : cmd'[o].state = "SUBMITTED"
        /\ \A o \in InQueue(readyQ') \cup ready' : cmd'[o].state = "QUEUED"
        /\ \A o \in InQueue(runningQ') : cmd'[o].state = "RUNNING"
    BY <1>2, PlacedValues, FitValues, SMTT(20) DEF Places
  <2>2. \A o \in InQueue(completionQ') \cup Holds("completion")' :
          cmd'[o].state \in Terminal
    BY <1>2, PlacedValues, FitValues DEF Places, Holds, Tasks
  <2>3. \A o \in Holds("scheduler")' :
          cmd'[o].state = IF task'["scheduler"].pc = "picked" THEN "QUEUED" ELSE "RUNNING"
    BY <1>2, PlacedValues, FitValues DEF Places, Holds, Tasks
  <2>4. \A o \in Holds("recovery")' :
          cmd'[o].state = IF task'["recovery"].pc = "wait" THEN "RUNNING" ELSE "ABORTING"
    BY <1>2, PlacedValues, FitValues, SMTT(20) DEF Places, Holds, Tasks
  <2> QED BY <2>1, <2>2, <2>3, <2>4 DEF StateFitsOwner, At, InQueue
<1> QED BY <1>1, <1>2

(* When a block goes from one place to another, only its own state has to  *)
(* be looked at.                                                           *)
LEMMA FitsHanded ==
    ASSUME Typed', OneOwner, StateFitsOwner, NEW v \in Places, NEW w \in Places, v # w,
           NEW o, Handed(v, w, o),
           \A x \in Objects \ {o} : cmd'[x] = cmd[x],
           \A u \in Places : Fit'[u] = Fit[u] \/ Placed'[u] \subseteq {o},
           o \in Placed'[w] => cmd'[o].state \in Fit'[w]
    PROVE  StateFitsOwner'
<1> SUFFICES ASSUME NEW u \in Places, NEW x \in Placed'[u]
             PROVE  cmd'[x].state \in Fit'[u]
  BY FitsMeans
<1>1. x \in Objects
  <2>1. u \in Tasks => x \in Objects
    BY PlacedValues
  <2>2. /\ pool' \subseteq Objects /\ ready' \subseteq Objects
        /\ validationQ' \in Seq(Objects) /\ readyQ' \in Seq(Objects)
        /\ runningQ' \in Seq(Objects) /\ completionQ' \in Seq(Objects)
    BY DEF Typed, TypeOK
  <2> QED BY <2>1, <2>2, PlacedValues, QueueTypes, SMTT(20) DEF Places, Tasks
<1>2. CASE x = o
  <2>1. u # v
    BY <1>2 DEF Handed
  <2>2. u \notin {v, w} => o \in Placed[u] /\ o \in Placed[v]
    BY <1>2 DEF Handed
  <2>3. u = w
    BY <2>1, <2>2, OwnerParts DEF Apart
  <2> QED BY <1>2, <2>3
<1>3. CASE x # o
  <2>1. x \in Placed[u]
    BY <1>3, SMTT(20) DEF Handed
  <2>2. cmd'[x] = cmd[x] /\ Fit'[u] = Fit[u]
    BY <1>1, <1>3
  <2> QED BY <2>1, <2>2, FitsMeans
<1> QED BY <1>2, <1>3

(* The same when the block stays where it is and its state changes. *)
LEMMA FitsStay ==
    ASSUME Typed', StateFitsOwner, NEW o,
           \A u \in Places : Placed'[u] = Placed[u],
           \A x \in Objects \ {o} : cmd'[x] = cmd[x],
           \A u \in Places : Fit'[u] = Fit[u] \/ Placed[u] \subseteq {o},
           \A u \in Places : o \in Placed[u] => cmd'[o].state \in Fit'[u]
    PROVE  StateFitsOwner'
<1> SUFFICES ASSUME NEW u \in Places, NEW x \in Placed'[u]
             PROVE  cmd'[x].state \in Fit'[u]
  BY FitsMeans
<1>1. x \in Objects
  <2>1. u \in Tasks => x \in Objects
    BY PlacedValues
  <2>2. /\ pool' \subseteq Objects /\ ready' \subseteq Objects
        /\ validationQ' \in Seq(Objects) /\ readyQ' \in Seq(Objects)
        /\ runningQ' \in Seq(Objects) /\ completionQ' \in Seq(Objects)
    BY DEF Typed, TypeOK
  <2> QED BY <2>1, <2>2, PlacedValues, QueueTypes, SMTT(20) DEF Places, Tasks
<1>2. CASE x = o
  BY <1>2
<1>3. CASE x # o
  <2>1. cmd'[x] = cmd[x] /\ Fit'[u] = Fit[u] /\ x \in Placed[u]
    BY <1>1, <1>3, SMTT(20)
  <2> QED BY <2>1, FitsMeans
<1> QED BY <1>2, <1>3
-----------------------------------------------------------------------------
(* From validation on the completion in the object names the command, it   *)
(* says success until something else happens, and at the end it says so    *)
(* exactly if the command completed.                                       *)
Answered(c) ==
    /\ c.state \in {"QUEUED", "RUNNING", "ABORTING"} \cup Terminal =>
         c.comp.id = c.sub.id
    /\ c.state = "QUEUED" => c.comp.status = "SUCCESS"
    /\ c.state \in Terminal => (c.comp.status = "SUCCESS" <=> c.state = "COMPLETED")

(* Every object is so. *)
Answers == \A o \in Objects : Answered(cmd[o])

(* What a step does to the commands: one is captured, one goes on to its   *)
(* next state, one is published, all are forgotten, or none is touched.    *)
Captures(o) ==
    /\ o \in pool /\ pool' = pool \ {o}
    /\ cmd' = [cmd EXCEPT ![o] = Captured(portal.sub)]
    /\ seq' = seq + 1 /\ done' = done

Advances(o) ==
    /\ o \in Objects \ pool
    /\ \A x \in Objects \ {o} : cmd'[x] = cmd[x]
    /\ cmd'[o].seq = cmd[o].seq
    /\ cmd'[o].state \in Lifecycle!Successors(cmd[o].state)
    /\ Answered(cmd'[o])
    /\ UNCHANGED <<pool, seq, done>>

Publishes(o) ==
    /\ o \in Objects \ pool /\ cmd[o].state \in Terminal
    /\ cmd' = [cmd EXCEPT ![o] = FreeObject]
    /\ pool' = pool \cup {o} /\ done' = done \cup {cmd[o].seq} /\ seq' = seq

Restarts ==
    /\ cmd' = [o \in Objects |-> FreeObject] /\ pool' = Objects
    /\ seq' = 0 /\ done' = {}

Idles == UNCHANGED <<cmd, pool, seq, done>>

Effect ==
    \/ \E o \in Objects : Captures(o) \/ Advances(o) \/ Publishes(o)
    \/ Restarts \/ Idles

(* What the effect of a step depends on. *)
Accounted ==
    Typed /\ OneOwner /\ StateFitsOwner /\ Answers

(* The states that may follow a state. *)
LEMMA SuccessorValues ==
    /\ Lifecycle!Successors("SUBMITTED") = {"QUEUED", "COMPLETED_ERROR"}
    /\ Lifecycle!Successors("QUEUED") =
         {"RUNNING", "COMPLETED", "COMPLETED_ERROR", "CANCELLED"}
    /\ Lifecycle!Successors("RUNNING") = {"ABORTING", "COMPLETED", "COMPLETED_ERROR"}
    /\ Lifecycle!Successors("ABORTING") = {"COMPLETED", "COMPLETED_ERROR"}
BY DEF Lifecycle!Successors

(* A block that is in one place is in no other. *)
LEMMA OwnedElsewhere ==
    ASSUME OneOwner, NEW v \in Places, NEW o \in Placed[v]
    PROVE  \A u \in Places \ {v} : o \notin Placed[u]
BY OwnerParts DEF Apart

(* The receiver captures a command in a block of the pool. *)
LEMMA ReceiverEffect ==
    ASSUME Accounted, Typed', Receiver
    PROVE  StateFitsOwner' /\ Effect
<1>a. Typed /\ OneOwner /\ StateFitsOwner
  BY DEF Accounted
<1>1. PICK o \in pool : /\ pool' = pool \ {o}
                        /\ cmd' = [cmd EXCEPT ![o] = Captured(portal.sub)]
                        /\ Handed("pool", "validationQ", o)
  BY <1>a, OwnedReceiver
<1>2. seq' = seq + 1 /\ done' = done /\ task' = task
  BY DEF Receiver, ReceiverAdmit
<1>3. o \in Objects /\ cmd \in [Objects -> Object]
  BY <1>a DEF Typed, TypeOK
<1>7. cmd'[o].state = "SUBMITTED" /\ \A x \in Objects \ {o} : cmd'[x] = cmd[x]
  BY <1>1, <1>3 DEF Captured
<1>8. \A u \in Places : Fit'[u] = Fit[u]
  BY <1>2, FitValues DEF Places
<1>9. Fit["validationQ"] = {"SUBMITTED"} /\ "pool" \in Places /\ "validationQ" \in Places
  BY FitValues DEF Places
<1>10. StateFitsOwner'
  BY <1>a, <1>1, <1>7, <1>8, <1>9, FitsHanded
<1> QED BY <1>1, <1>2, <1>3, <1>10 DEF Effect, Captures

(* The validator queues the command, or rejects it with the status of the  *)
(* first test it fails.                                                    *)
LEMMA ValidatorEffect ==
    ASSUME Accounted, Typed', Validator
    PROVE  StateFitsOwner' /\ Effect
<1>a. Typed /\ OneOwner /\ StateFitsOwner /\ cmd \in [Objects -> Object]
  BY DEF Accounted, Typed, TypeOK
<1> DEFINE o == Head(validationQ)
<1>1. /\ o \in Placed["validationQ"]
      /\ ValidatorAccept => Handed("validationQ", "readyQ", o)
      /\ ValidatorReject => Handed("validationQ", "completionQ", o)
  BY <1>a, OwnedValidator
<1>2. UNCHANGED <<pool, seq, done, task>>
  BY DEF Validator, ValidatorAccept, ValidatorReject
<1>3. o \in Objects /\ o \notin pool
  <2>1. o \in InQueue(validationQ) /\ validationQ \in Seq(Objects)
    BY <1>a, <1>1, PlacedValues DEF Typed, TypeOK
  <2>2. o \in Objects
    BY <2>1, QueueTypes
  <2> QED BY <1>a, <1>1, <2>2, OwnedElsewhere, PlacedValues DEF Places
<1>7. \A u \in Places : Fit'[u] = Fit[u]
  BY <1>2, FitValues DEF Places
<1>8. cmd[o].state = "SUBMITTED" /\ cmd[o] \in Object
  BY <1>a, <1>1, <1>3, FitsMeans, FitValues DEF Places
<1>9. "validationQ" \in Places /\ "readyQ" \in Places /\ "completionQ" \in Places
  BY DEF Places
<1>10. CASE ValidatorAccept
  <2>1. cmd' = [cmd EXCEPT ![o].state = "QUEUED",
                           ![o].comp = MakeCompletion(cmd[o].sub.id, "SUCCESS")]
    BY <1>10 DEF ValidatorAccept
  <2> HIDE DEF o
  <2>2. /\ cmd'[o] = [cmd[o] EXCEPT !.state = "QUEUED",
                                    !.comp = MakeCompletion(cmd[o].sub.id, "SUCCESS")]
        /\ \A x \in Objects \ {o} : cmd'[x] = cmd[x]
    BY <1>a, <1>3, <2>1
  <2>3. /\ cmd'[o].state = "QUEUED" /\ cmd'[o].seq = cmd[o].seq /\ cmd'[o].sub = cmd[o].sub
        /\ cmd'[o].comp = MakeCompletion(cmd[o].sub.id, "SUCCESS")
    BY <1>8, <2>2 DEF Object
  <2>4. Answered(cmd'[o])
    BY <2>3, SMTT(20) DEF Answered, MakeCompletion, Terminal
  <2>5. StateFitsOwner'
    <3>1. Handed("validationQ", "readyQ", o) /\ cmd'[o].state \in Fit'["readyQ"]
      BY <1>1, <1>7, <1>9, <1>10, <2>3, FitValues
    <3> QED BY <1>a, <1>7, <1>9, <2>2, <3>1, FitsHanded
  <2>6. Advances(o)
    BY <1>2, <1>3, <1>8, <2>2, <2>3, <2>4, SuccessorValues DEF Advances
  <2> QED BY <1>3, <2>5, <2>6 DEF Effect
<1>11. CASE ValidatorReject
  <2>1. cmd' = [cmd EXCEPT ![o].state = "COMPLETED_ERROR",
                           ![o].comp = MakeCompletion(cmd[o].sub.id, "INVALID")]
    BY <1>11 DEF ValidatorReject
  <2> HIDE DEF o
  <2>2. /\ cmd'[o] = [cmd[o] EXCEPT !.state = "COMPLETED_ERROR",
                                    !.comp = MakeCompletion(cmd[o].sub.id, "INVALID")]
        /\ \A x \in Objects \ {o} : cmd'[x] = cmd[x]
    BY <1>a, <1>3, <2>1
  <2>3. /\ cmd'[o].state = "COMPLETED_ERROR" /\ cmd'[o].seq = cmd[o].seq
        /\ cmd'[o].sub = cmd[o].sub
        /\ cmd'[o].comp = MakeCompletion(cmd[o].sub.id, "INVALID")
    BY <1>8, <2>2 DEF Object
  <2>4. Answered(cmd'[o])
    BY <2>3, SMTT(20) DEF Answered, MakeCompletion, Terminal
  <2>5. StateFitsOwner'
    <3>1. Handed("validationQ", "completionQ", o) /\ cmd'[o].state \in Fit'["completionQ"]
      BY <1>1, <1>7, <1>9, <1>11, <2>3, FitValues DEF Terminal
    <3> QED BY <1>a, <1>7, <1>9, <2>2, <3>1, FitsHanded
  <2>6. Advances(o)
    BY <1>2, <1>3, <1>8, <2>2, <2>3, <2>4, SuccessorValues DEF Advances
  <2> QED BY <1>3, <2>5, <2>6 DEF Effect
<1> QED BY <1>10, <1>11 DEF Validator

(* What is known of the object a task works on: it is the task's alone, in *)
(* a state that fits the task's place in its code, and its completion      *)
(* names its command.                                                      *)
LEMMA HeldObject ==
    ASSUME Accounted, NEW t \in Tasks, task[t].pc # "idle"
    PROVE  /\ task[t].obj \in Objects \ pool
           /\ Placed[t] = {task[t].obj}
           /\ cmd[task[t].obj] \in Object
           /\ cmd[task[t].obj].state \in Fit[t]
           /\ Answered(cmd[task[t].obj])
           /\ \A u \in Places \ {t} : task[t].obj \notin Placed[u]
<1>a. Typed /\ OneOwner /\ StateFitsOwner /\ Answers /\ t \in Places
  BY DEF Accounted, Tasks, Places
<1>1. task[t].obj \in Objects
  BY <1>a DEF Typed, TaskFits
<1>2. Placed[t] = {task[t].obj}
  BY <1>1, PlacedValues, SMTT(20)
<1>3. \A u \in Places \ {t} : task[t].obj \notin Placed[u]
  BY <1>a, <1>2, OwnedElsewhere
<1>4. task[t].obj \notin pool
  <2>1. "pool" \in Places /\ "pool" # t
    BY DEF Tasks, Places
  <2> QED BY <1>3, <2>1, PlacedValues
<1>5. cmd[task[t].obj].state \in Fit[t]
  BY <1>a, <1>2, FitsMeans
<1> QED BY <1>a, <1>1, <1>2, <1>3, <1>4, <1>5 DEF Typed, TypeOK, Answers

(* A task that has the last word on a command brings it to a terminal      *)
(* state, with a completion that says the same.                            *)
LEMMA FinishEffect ==
    ASSUME Accounted, Typed', NEW t \in {"scheduler", "recovery"},
           task[t].pc # "idle", Release(t), Handed(t, "completionQ", task[t].obj),
           NEW c, cmd' = [cmd EXCEPT ![task[t].obj] = c],
           c.seq = cmd[task[t].obj].seq, c.state \in Terminal,
           c.state \in Lifecycle!Successors(cmd[task[t].obj].state), Answered(c),
           UNCHANGED <<pool, seq, done>>
    PROVE  StateFitsOwner' /\ Effect
<1>a. Typed /\ OneOwner /\ StateFitsOwner /\ cmd \in [Objects -> Object]
  BY DEF Accounted, Typed, TypeOK
<1> DEFINE o == task[t].obj
<1>1. /\ o \in Objects \ pool /\ Placed[t] = {o}
      /\ t \in Places /\ "completionQ" \in Places /\ t # "completionQ"
  <2>1. /\ t \in Tasks /\ t \in Places /\ "completionQ" \in Places
        /\ t # "completionQ"
    BY DEF Tasks, Places
  <2> QED BY <2>1, HeldObject
<1> HIDE DEF o
<1>3. cmd'[o] = c /\ \A x \in Objects \ {o} : cmd'[x] = cmd[x]
  BY <1>a, <1>1 DEF o
<1>4. Handed(t, "completionQ", o) /\ Placed'[t] = {}
  BY <1>1 DEF Handed, o
<1>5. \A u \in Places : Fit'[u] = Fit[u] \/ Placed'[u] \subseteq {o}
  <2>1. \A u \in Tasks \ {t} : task'[u] = task[u]
    BY <1>a DEF Release, Typed, TypeOK
  <2>2. \A u \in Places \ {t} : Fit'[u] = Fit[u]
    BY <2>1, FitValues DEF Places, Tasks
  <2> QED BY <1>4, <2>2
<1>6. cmd'[o].state \in Fit'["completionQ"]
  BY <1>3, FitValues DEF Places
<1>7. StateFitsOwner'
  BY <1>a, <1>1, <1>3, <1>4, <1>5, <1>6, FitsHanded
<1>8. Advances(o)
  BY <1>1, <1>3 DEF Advances, o
<1> QED BY <1>1, <1>7, <1>8 DEF Effect

(* The scheduler does so for an expired command and for a NOP. *)
LEMMA SchedulerEndEffect ==
    ASSUME Accounted, Typed', SchedulerExpire \/ SchedulerNop
    PROVE  StateFitsOwner' /\ Effect
<1> DEFINE o == task["scheduler"].obj
<1>1. /\ task["scheduler"].pc = "picked" /\ Release("scheduler")
      /\ UNCHANGED <<pool, seq, done>>
  BY DEF SchedulerExpire, SchedulerNop, At
<1>2. Handed("scheduler", "completionQ", o)
  BY OwnedEnd DEF Accounted
<1>3. /\ o \in Objects /\ cmd[o] \in Object /\ cmd[o].state = "QUEUED"
      /\ Answered(cmd[o]) /\ cmd \in [Objects -> Object]
  BY <1>1, HeldObject, FitValues DEF Tasks, Accounted, Typed, TypeOK
<1>4. \E c : /\ cmd' = [cmd EXCEPT ![o] = c] /\ c.seq = cmd[o].seq
             /\ c.state \in Terminal /\ c.state \in Lifecycle!Successors(cmd[o].state)
             /\ Answered(c)
  <2>1. CASE SchedulerExpire
    <3>s. cmd' = [cmd EXCEPT
                    ![o].state = IF cmd[o].gen # bootGen THEN "CANCELLED"
                                 ELSE "COMPLETED_ERROR",
                    ![o].comp.status = IF cmd[o].gen # bootGen THEN "RESET"
                                       ELSE "TIMED_OUT"]
      BY <2>1 DEF SchedulerExpire
    <3> DEFINE st == IF cmd[o].gen # bootGen THEN "CANCELLED" ELSE "COMPLETED_ERROR"
               r == IF cmd[o].gen # bootGen THEN "RESET" ELSE "TIMED_OUT"
    <3>1. /\ st \in {"CANCELLED", "COMPLETED_ERROR"} /\ r \in {"RESET", "TIMED_OUT"}
          /\ cmd' = [cmd EXCEPT ![o].state = st, ![o].comp.status = r]
      BY <3>s
    <3> HIDE DEF st, r
    <3> DEFINE c == [cmd[o] EXCEPT !.state = st, !.comp.status = r]
    <3>2. cmd' = [cmd EXCEPT ![o] = c]
      BY <1>3, <3>1
    <3>3. /\ c.seq = cmd[o].seq /\ c.state = st /\ c.sub = cmd[o].sub
          /\ c.comp.status = r /\ c.comp.id = cmd[o].comp.id
      BY <1>3 DEF Object, Completion
    <3> HIDE DEF c
    <3>4. Answered(c)
      BY <1>3, <3>1, <3>3 DEF Answered, Terminal
    <3>5. c.state \in Terminal /\ c.state \in Lifecycle!Successors(cmd[o].state)
      BY <1>3, <3>1, <3>3, SuccessorValues DEF Terminal
    <3> QED BY <3>2, <3>3, <3>4, <3>5
  <2>2. CASE SchedulerNop
    <3> DEFINE c == [cmd[o] EXCEPT !.state = "COMPLETED"]
    <3>1. cmd' = [cmd EXCEPT ![o] = c]
      BY <1>3, <2>2 DEF SchedulerNop
    <3>2. /\ c.seq = cmd[o].seq /\ c.state = "COMPLETED" /\ c.sub = cmd[o].sub
          /\ c.comp = cmd[o].comp
      BY <1>3 DEF Object
    <3> HIDE DEF c
    <3>3. Answered(c)
      BY <1>3, <3>2 DEF Answered, Terminal
    <3>4. c.state \in Terminal /\ c.state \in Lifecycle!Successors(cmd[o].state)
      BY <1>3, <3>2, SuccessorValues DEF Terminal
    <3> QED BY <3>1, <3>2, <3>3, <3>4
  <2> QED BY <2>1, <2>2
<1> QED BY <1>1, <1>2, <1>4, FinishEffect

(* The recovery manager does so for a result from the endpoint and for an  *)
(* abort that nobody answered.                                             *)
LEMMA RecoveryEndEffect ==
    ASSUME Accounted, Typed', RecoveryResult \/ RecoveryEscalate
    PROVE  StateFitsOwner' /\ Effect
<1> DEFINE o == task["recovery"].obj
<1>1. /\ task["recovery"].pc # "idle" /\ Release("recovery")
      /\ UNCHANGED <<pool, seq, done>>
  BY DEF RecoveryResult, RecoveryEscalate, At
<1>2. Handed("recovery", "completionQ", o)
  BY OwnedEnd DEF Accounted
<1>3. /\ o \in Objects /\ cmd[o] \in Object /\ cmd[o].state \in {"RUNNING", "ABORTING"}
      /\ Answered(cmd[o]) /\ cmd \in [Objects -> Object]
  BY <1>1, HeldObject, FitValues, SMTT(20) DEF Tasks, Accounted, Typed, TypeOK
<1>4. cmd[o].comp.id = cmd[o].sub.id
  BY <1>3 DEF Answered
<1> DEFINE failed == [cmd[o] EXCEPT !.comp.status = "FAILED", !.state = "COMPLETED_ERROR"]
<1>5. /\ failed.seq = cmd[o].seq /\ failed.state = "COMPLETED_ERROR"
      /\ failed.sub = cmd[o].sub
      /\ failed.comp.status = "FAILED" /\ failed.comp.id = cmd[o].comp.id
  BY <1>3 DEF Object, Completion
<1>6. \E c : /\ cmd' = [cmd EXCEPT ![o] = c] /\ c.seq = cmd[o].seq
             /\ c.state \in {"COMPLETED", "COMPLETED_ERROR"} /\ Answered(c)
  <2>1. CASE RecoveryEscalate
    <3>1. cmd' = [cmd EXCEPT ![o] = failed]
      BY <1>3, <2>1 DEF RecoveryEscalate
    <3> HIDE DEF failed
    <3> QED BY <1>4, <1>5, <3>1 DEF Answered, Terminal
  <2>2. CASE RecoveryResult
    <3> DEFINE r == portal.result
    <3>1. cmd' = [cmd EXCEPT ![o] = Applied(o, r)]
      BY <2>2 DEF RecoveryResult
    <3>2. CASE r.id = cmd[o].sub.id
      <4> DEFINE c == [cmd[o] EXCEPT !.comp = r,
                                     !.state = IF r.status = "SUCCESS" THEN "COMPLETED"
                                               ELSE "COMPLETED_ERROR"]
      <4>1. Applied(o, r) = c
        BY <3>2 DEF Applied
      <4>2. /\ c.seq = cmd[o].seq /\ c.sub = cmd[o].sub /\ c.comp = r
            /\ c.state = IF r.status = "SUCCESS" THEN "COMPLETED" ELSE "COMPLETED_ERROR"
        BY <1>3 DEF Object
      <4> HIDE DEF c
      <4>3. Answered(c)
        BY <3>2, <4>2 DEF Answered, Terminal
      <4> QED BY <3>1, <4>1, <4>2, <4>3
    <3>3. CASE r.id # cmd[o].sub.id
      <4>1. Applied(o, r) = failed
        BY <3>3 DEF Applied
      <4> HIDE DEF failed
      <4> QED BY <1>4, <1>5, <3>1, <4>1 DEF Answered, Terminal
    <3> QED BY <3>2, <3>3
  <2> QED BY <2>1, <2>2
<1>7. \A x \in {"COMPLETED", "COMPLETED_ERROR"} :
        x \in Terminal /\ x \in Lifecycle!Successors(cmd[o].state)
  BY <1>3, SuccessorValues DEF Terminal
<1> QED BY <1>1, <1>2, <1>6, <1>7, FinishEffect

(* The scheduler's choice changes no command. *)
LEMMA PickEffect ==
    ASSUME Accounted, Typed', SchedulerPick
    PROVE  StateFitsOwner' /\ Effect
<1>a. Typed /\ OneOwner /\ StateFitsOwner
  BY DEF Accounted
<1>1. UNCHANGED <<cmd, pool, seq, done>>
  BY DEF SchedulerPick
<1>2. PICK o \in ready \cup InQueue(readyQ) :
        /\ Placed'["scheduler"] = {o} /\ Placed'["readyQ"] = {}
        /\ Placed'["ready"] = (Placed["ready"] \cup Placed["readyQ"]) \ {o}
        /\ task'["scheduler"].pc = "picked" /\ task'["recovery"] = task["recovery"]
  BY <1>a, OwnedPick
<1>3. \A u \in Places \ {"readyQ", "ready", "scheduler"} : Placed'[u] = Placed[u]
  BY <1>a, OwnedPick
<1>4. \A u \in Places : \A x \in Placed[u] : cmd[x].state \in Fit[u]
  BY <1>a, FitsMeans
<1>5. \A x \in Placed["ready"] \cup Placed["readyQ"] : cmd[x].state = "QUEUED"
  BY <1>4, FitValues DEF Places
<1>6. \A u \in Places \ {"scheduler"} : Fit'[u] = Fit[u]
  BY <1>2, FitValues DEF Places
<1>7. ASSUME NEW u \in Places, NEW x \in Placed'[u]
      PROVE  cmd'[x].state \in Fit'[u]
  <2>1. CASE u = "scheduler"
    BY <1>1, <1>2, <1>5, <1>7, <2>1, FitValues, PlacedValues, SMTT(20)
  <2>2. CASE u \in {"ready", "readyQ"}
    BY <1>1, <1>2, <1>5, <1>6, <1>7, <2>2, FitValues
  <2>3. CASE u \notin {"scheduler", "ready", "readyQ"}
    BY <1>1, <1>3, <1>4, <1>6, <1>7, <2>3
  <2> QED BY <2>1, <2>2, <2>3
<1>8. StateFitsOwner'
  BY <1>7, FitsMeans
<1> QED BY <1>1, <1>8 DEF Effect, Idles

(* The doorbell that authorizes a payload command hands its object to the  *)
(* recovery manager, still running.                                        *)
LEMMA RingEffect ==
    ASSUME Accounted, Typed', SchedulerRing
    PROVE  StateFitsOwner' /\ Effect
<1>a. Typed /\ OneOwner /\ StateFitsOwner
  BY DEF Accounted
<1> DEFINE o == task["scheduler"].obj
<1>1. /\ UNCHANGED <<cmd, pool, seq, done>> /\ task["scheduler"].pc = "ring"
      /\ Release("scheduler")
  BY DEF SchedulerRing, At
<1>2. Handed("scheduler", "runningQ", o)
  BY <1>a, OwnedRun
<1>3. Placed["scheduler"] = {o} /\ cmd[o].state = "RUNNING"
  BY <1>1, HeldObject, FitValues DEF Tasks
<1> HIDE DEF o
<1>4. Placed'["scheduler"] = {}
  BY <1>2, <1>3 DEF Handed
<1>5. \A u \in Places \ {"scheduler"} : Fit'[u] = Fit[u]
  <2>1. task'["recovery"] = task["recovery"]
    BY <1>a, <1>1 DEF Release, Typed, TypeOK, Tasks
  <2> QED BY <2>1, FitValues DEF Places
<1>6. cmd'[o].state \in Fit'["runningQ"] /\ "runningQ" \in Places /\ "scheduler" \in Places
  BY <1>1, <1>3, FitValues DEF Places
<1>7. StateFitsOwner'
  BY <1>a, <1>1, <1>2, <1>4, <1>5, <1>6, FitsHanded
<1> QED BY <1>1, <1>7 DEF Effect, Idles

(* The completion task takes a terminal command. *)
LEMMA CompletionTakeEffect ==
    ASSUME Accounted, Typed', CompletionTake
    PROVE  StateFitsOwner' /\ Effect
<1>a. Typed /\ OneOwner /\ StateFitsOwner
  BY DEF Accounted
<1> DEFINE o == Head(completionQ)
<1>1. /\ UNCHANGED <<cmd, pool, seq, done>>
      /\ task' = [task EXCEPT !["completion"] = [pc |-> Publishing, obj |-> o]]
  BY DEF CompletionTake
<1>2. Handed("completionQ", "completion", o)
  BY <1>a, OwnedTake
<1> HIDE DEF o
<1>3. "completionQ" \in Places /\ "completion" \in Places
  BY DEF Places
<1>4. cmd[o].state \in Terminal
  BY <1>a, <1>2, <1>3, FitsMeans, FitValues, SMTT(20) DEF Handed
<1>5. \A u \in Places : Fit'[u] = Fit[u]
  <2>1. task'["recovery"] = task["recovery"] /\ task'["scheduler"] = task["scheduler"]
    BY <1>a, <1>1 DEF Typed, TypeOK, Tasks
  <2> QED BY <2>1, FitValues DEF Places
<1>6. cmd'[o].state \in Fit'["completion"]
  BY <1>1, <1>3, <1>4, <1>5, FitValues
<1>7. StateFitsOwner'
  BY <1>a, <1>1, <1>2, <1>3, <1>5, <1>6, FitsHanded
<1> QED BY <1>1, <1>7 DEF Effect, Idles

(* The recovery manager takes a running command. *)
LEMMA RecoveryTakeEffect ==
    ASSUME Accounted, Typed', RecoveryTake
    PROVE  StateFitsOwner' /\ Effect
<1>a. Typed /\ OneOwner /\ StateFitsOwner
  BY DEF Accounted
<1> DEFINE o == Head(runningQ)
<1>1. /\ UNCHANGED <<cmd, pool, seq, done>>
      /\ task["recovery"].pc = "idle" /\ runningQ # << >>
      /\ task' = [task EXCEPT !["recovery"] = [pc |-> "wait", obj |-> o]]
  BY DEF RecoveryTake, At
<1>2. Handed("runningQ", "recovery", o)
  BY <1>a, OwnedTake
<1>b. o \in Objects
  BY <1>a, <1>1, QueueTypes DEF Typed, TypeOK
<1> HIDE DEF o
<1>3. "runningQ" \in Places /\ "recovery" \in Places
  BY DEF Places
<1>4. cmd[o].state = "RUNNING"
  BY <1>a, <1>2, <1>3, FitsMeans, FitValues DEF Handed
<1>5. \A u \in Places : Fit'[u] = Fit[u] \/ Placed'[u] \subseteq {o}
  <2>1. task'["scheduler"] = task["scheduler"]
    BY <1>a, <1>1 DEF Typed, TypeOK, Tasks
  <2>2. Placed'["recovery"] = {o}
    BY <1>a, <1>b, <1>1, TakeOwned DEF Tasks
  <2> QED BY <2>1, <2>2, FitValues DEF Places
<1>6. cmd'[o].state \in Fit'["recovery"]
  <2>1. task'["recovery"].pc = "wait"
    BY <1>a, <1>1 DEF Typed, TypeOK, Tasks
  <2> QED BY <1>1, <1>4, <2>1, FitValues
<1>7. StateFitsOwner'
  BY <1>a, <1>1, <1>2, <1>3, <1>5, <1>6, FitsHanded
<1> QED BY <1>1, <1>7 DEF Effect, Idles

(* The doorbell that publishes a completion ends its command and gives the *)
(* block back to the pool.                                                 *)
LEMMA PublishEffect ==
    ASSUME Accounted, Typed', CompletionRing
    PROVE  StateFitsOwner' /\ Effect
<1>a. Typed /\ OneOwner /\ StateFitsOwner /\ cmd \in [Objects -> Object]
  BY DEF Accounted, Typed, TypeOK
<1> DEFINE o == task["completion"].obj
<1>1. /\ cmd' = [cmd EXCEPT ![o] = FreeObject] /\ pool' = pool \cup {o}
      /\ done' = done \cup {cmd[o].seq} /\ seq' = seq
      /\ Release("completion") /\ task["completion"].pc = "ring"
  BY DEF CompletionRing, At
<1>2. Handed("completion", "pool", o)
  BY <1>a, OwnedReturn
<1>3. o \in Objects \ pool /\ cmd[o].state \in Terminal
  BY <1>1, HeldObject, FitValues DEF Tasks
<1> HIDE DEF o
<1>4. cmd'[o] = FreeObject /\ \A x \in Objects \ {o} : cmd'[x] = cmd[x]
  BY <1>a, <1>1, <1>3
<1>5. \A u \in Places : Fit'[u] = Fit[u]
  <2>1. task'["recovery"] = task["recovery"] /\ task'["scheduler"] = task["scheduler"]
    BY <1>a, <1>1 DEF Release, Typed, TypeOK, Tasks
  <2> QED BY <2>1, FitValues DEF Places
<1>6. cmd'[o].state \in Fit'["pool"] /\ "pool" \in Places /\ "completion" \in Places
  BY <1>4, <1>5, FitValues, SMTT(20) DEF Places, FreeObject
<1>7. StateFitsOwner'
  BY <1>a, <1>2, <1>4, <1>5, <1>6, FitsHanded
<1> QED BY <1>1, <1>3, <1>7 DEF Effect, Publishes

(* A task that goes on in its code keeps its object, and no other block    *)
(* moves.                                                                  *)
LEMMA StayPlaced ==
    ASSUME Typed, NEW t \in Tasks, NEW pc, Goto(t, pc),
           UNCHANGED <<pool, validationQ, readyQ, ready, runningQ, completionQ>>
    PROVE  /\ \A u \in Places : Placed'[u] = Placed[u]
           /\ task'[t].pc = pc
           /\ \A u \in Tasks \ {t} : task'[u] = task[u]
<1>1. /\ \A u \in Tasks : task'[u].obj = task[u].obj
      /\ task'[t].pc = pc
      /\ \A u \in Tasks \ {t} : task'[u] = task[u]
  BY DEF Goto, Typed, TypeOK
<1>2. \A u \in Tasks : Placed'[u] = Placed[u]
  <2>1. \A u \in Tasks :
          /\ Placed[u] = {task[u].obj} \cap Objects
          /\ Placed'[u] = {task'[u].obj} \cap Objects
    BY PlacedValues
  <2> QED BY <1>1, <2>1
<1>3. \A u \in Places : Placed'[u] = Placed[u]
  BY <1>2, PlacedValues DEF Places, Tasks
<1> QED BY <1>1, <1>3

(* The scheduler starts a command, and the recovery manager aborts one     *)
(* that is overdue.                                                        *)
LEMMA RunEffect ==
    ASSUME Accounted, Typed', SchedulerRun \/ RecoveryExpire
    PROVE  StateFitsOwner' /\ Effect
<1>a. Typed /\ OneOwner /\ StateFitsOwner /\ cmd \in [Objects -> Object]
  BY DEF Accounted, Typed, TypeOK
<1>0. UNCHANGED <<pool, validationQ, readyQ, ready, runningQ, completionQ, seq, done>>
  BY DEF SchedulerRun, RecoveryExpire
<1>1. PICK t \in {"scheduler", "recovery"}, pc \in TaskPC :
        /\ Goto(t, pc) /\ task[t].pc # "idle"
        /\ \E c : /\ cmd' = [cmd EXCEPT ![task[t].obj] = c]
                  /\ c.seq = cmd[task[t].obj].seq
                  /\ c.state \in Lifecycle!Successors(cmd[task[t].obj].state)
                  /\ Answered(c)
                  /\ t = "scheduler" => c.state = "RUNNING" /\ pc # "picked"
                  /\ t = "recovery" => c.state = "ABORTING" /\ pc # "wait"
  <2>1. CASE SchedulerRun
    <3> DEFINE o == task["scheduler"].obj
               c == [cmd[o] EXCEPT !.state = "RUNNING"]
    <3>1. Goto("scheduler", Publishing) /\ task["scheduler"].pc = "picked"
      BY <2>1 DEF SchedulerRun, At
    <3>2. /\ o \in Objects /\ cmd[o] \in Object /\ Answered(cmd[o])
          /\ cmd[o].state = "QUEUED"
      BY <3>1, HeldObject, FitValues DEF Tasks
    <3>3. cmd' = [cmd EXCEPT ![o] = c]
      BY <1>a, <2>1, <3>2 DEF SchedulerRun
    <3>4. /\ c.seq = cmd[o].seq /\ c.state = "RUNNING" /\ c.sub = cmd[o].sub
          /\ c.comp = cmd[o].comp
      BY <3>2 DEF Object
    <3> HIDE DEF c
    <3>5. Answered(c) /\ c.state \in Lifecycle!Successors(cmd[o].state)
      BY <3>2, <3>4, SuccessorValues DEF Answered, Terminal
    <3>6. Publishing \in TaskPC /\ Publishing # "picked"
      BY DEF Publishing, TaskPC
    <3> QED BY <3>1, <3>3, <3>4, <3>5, <3>6
  <2>2. CASE RecoveryExpire
    <3> DEFINE o == task["recovery"].obj
               c == [cmd[o] EXCEPT !.state = "ABORTING", !.comp.status = "TIMED_OUT"]
    <3>1. Goto("recovery", "abortcheck") /\ task["recovery"].pc = "wait"
      BY <2>2 DEF RecoveryExpire, At
    <3>2. /\ o \in Objects /\ cmd[o] \in Object /\ Answered(cmd[o])
          /\ cmd[o].state = "RUNNING"
      BY <3>1, HeldObject, FitValues DEF Tasks
    <3>3. cmd' = [cmd EXCEPT ![o] = c]
      BY <1>a, <2>2, <3>2 DEF RecoveryExpire
    <3>4. /\ c.seq = cmd[o].seq /\ c.state = "ABORTING" /\ c.sub = cmd[o].sub
          /\ c.comp.id = cmd[o].comp.id
      BY <3>2 DEF Object, Completion
    <3> HIDE DEF c
    <3>5. Answered(c) /\ c.state \in Lifecycle!Successors(cmd[o].state)
      BY <3>2, <3>4, SuccessorValues DEF Answered, Terminal
    <3>6. "abortcheck" \in TaskPC
      BY DEF TaskPC
    <3> QED BY <3>1, <3>3, <3>4, <3>5, <3>6
  <2> QED BY <2>1, <2>2
<1>2. PICK c : /\ cmd' = [cmd EXCEPT ![task[t].obj] = c]
               /\ c.seq = cmd[task[t].obj].seq
               /\ c.state \in Lifecycle!Successors(cmd[task[t].obj].state)
               /\ Answered(c)
               /\ t = "scheduler" => c.state = "RUNNING" /\ pc # "picked"
               /\ t = "recovery" => c.state = "ABORTING" /\ pc # "wait"
  BY <1>1
<1> DEFINE o == task[t].obj
<1>3. /\ o \in Objects \ pool /\ Placed[t] = {o} /\ t \in Tasks
      /\ \A u \in Places \ {t} : o \notin Placed[u]
  BY <1>1, HeldObject DEF Tasks
<1>4. /\ \A u \in Places : Placed'[u] = Placed[u]
      /\ task'[t].pc = pc
      /\ \A u \in Tasks \ {t} : task'[u] = task[u]
  BY <1>a, <1>0, <1>1, <1>3, StayPlaced
<1> HIDE DEF o
<1>5. cmd'[o] = c /\ \A x \in Objects \ {o} : cmd'[x] = cmd[x]
  BY <1>a, <1>2, <1>3 DEF o
<1>6. \A u \in Places \ {t} : Fit'[u] = Fit[u]
  BY <1>4, FitValues DEF Places, Tasks
<1>7. cmd'[o].state \in Fit'[t]
  BY <1>2, <1>4, <1>5, FitValues, SMTT(20)
<1>8. StateFitsOwner'
  BY <1>a, <1>3, <1>4, <1>5, <1>6, <1>7, FitsStay
<1>9. Advances(o)
  BY <1>0, <1>2, <1>3, <1>5 DEF Advances, o
<1> QED BY <1>0, <1>3, <1>8, <1>9 DEF Effect

(* The steps of an abort and of a publication between its two doorbells    *)
(* touch no command.                                                       *)
LEMMA GotoEffect ==
    ASSUME Accounted, Typed',
           \/ AbortCheck \/ AbortWrite \/ AbortRing
           \/ \E t \in Publishers : PublishRetry(t) \/ PublishTimeout(t) \/ PublishWrite(t)
    PROVE  StateFitsOwner' /\ Effect
<1>a. Typed /\ StateFitsOwner
  BY DEF Accounted
<1>1. UNCHANGED <<pool, validationQ, readyQ, ready, runningQ, completionQ, seq, done, cmd>>
  BY DEF AbortCheck, AbortWrite, AbortRing, PublishRetry, PublishTimeout, PublishWrite
<1>2. PICK t \in Tasks, pc \in TaskPC :
        /\ Goto(t, pc)
        /\ t = "scheduler" => task[t].pc # "picked" /\ pc # "picked"
        /\ t = "recovery" => task[t].pc # "wait" /\ pc # "wait"
  BY DEF AbortCheck, AbortWrite, AbortRing, PublishRetry, PublishTimeout, PublishWrite,
         Publishers, Tasks, TaskPC, At
<1>3. /\ \A u \in Places : Placed'[u] = Placed[u]
      /\ task'[t].pc = pc
      /\ \A u \in Tasks \ {t} : task'[u] = task[u]
  BY <1>a, <1>1, <1>2, StayPlaced
<1>4. \A u \in Places : Fit'[u] = Fit[u]
  BY <1>2, <1>3, FitValues, SMTT(20) DEF Places, Tasks
<1>5. StateFitsOwner'
  BY <1>a, <1>1, <1>3, <1>4, FitsMeans
<1> QED BY <1>1, <1>5 DEF Effect, Idles

(* A reset of the processor forgets every command. *)
LEMMA ResetEffect ==
    ASSUME CpuReset
    PROVE  StateFitsOwner' /\ Effect
<1>1. /\ cmd' = [o \in Objects |-> FreeObject] /\ pool' = Objects
      /\ seq' = 0 /\ done' = {}
      /\ validationQ' = << >> /\ readyQ' = << >> /\ ready' = {} /\ runningQ' = << >>
      /\ completionQ' = << >> /\ task' = [t \in Tasks |-> [pc |-> "idle", obj |-> None]]
  BY DEF CpuReset
<1>2. Placed'["pool"] = Objects
  BY <1>1, PlacedValues
<1>3. \A u \in Places \ {"pool"} : Placed'[u] = {}
  <2>1. \A t \in Tasks : Placed'[t] = {}
    BY <1>1, PlacedValues, PoolAssumption
  <2> QED BY <1>1, <2>1, PlacedValues, EmptyOwned DEF Places, Tasks
<1>4. \A o \in Objects : cmd'[o].state \in Fit'["pool"]
  BY <1>1, FitValues DEF FreeObject, Places
<1>5. StateFitsOwner'
  BY <1>2, <1>3, <1>4, FitsMeans
<1> QED BY <1>1, <1>5 DEF Effect, Restarts

(* The device, the clock and the peer touch no command. *)
LEMMA OtherEffect ==
    ASSUME Accounted, ResetAckTimeout \/ WatchdogExpire \/ Tick \/ Peer \/ UNCHANGED vars
    PROVE  StateFitsOwner' /\ Effect
<1>a. StateFitsOwner
  BY DEF Accounted
<1>1. UNCHANGED <<task, pool, validationQ, readyQ, ready, runningQ, completionQ, cmd, seq,
                  done>>
  BY DEF ResetAckTimeout, WatchdogExpire, Tick, Peer, PeerSubmit, PeerReply, PeerGarbage,
         PeerTake, Disconnect, Connect, fwVars, vars
<1>2. StateFitsOwner'
  BY <1>a, <1>1, SMTT(20) DEF StateFitsOwner, Holds, At, InQueue
<1> QED BY <1>1, <1>2 DEF Effect, Idles

(* Every step has one of the effects and leaves every state fitting its    *)
(* owner.                                                                  *)
LEMMA NextEffect ==
    ASSUME Accounted, [Next]_vars
    PROVE  Typed' /\ OneOwner' /\ StateFitsOwner' /\ Effect
<1>a. Typed' /\ OneOwner'
  BY TypedNext, OwnedNext DEF Accounted
<1>1. CASE Firmware
  <2>1. CASE Receiver
    BY <1>a, <2>1, ReceiverEffect
  <2>2. CASE Validator
    BY <1>a, <2>2, ValidatorEffect
  <2>3. CASE Scheduler
    BY <1>a, <2>3, PickEffect, SchedulerEndEffect, RunEffect, GotoEffect, RingEffect
       DEF Scheduler, Publishers
  <2>4. CASE Recovery
    BY <1>a, <2>4, RecoveryTakeEffect, RecoveryEndEffect, RunEffect, GotoEffect DEF Recovery
  <2>5. CASE CompletionTask
    BY <1>a, <2>5, CompletionTakeEffect, GotoEffect, PublishEffect
       DEF CompletionTask, Publishers
  <2> QED BY <1>a, <1>1, <2>1, <2>2, <2>3, <2>4, <2>5 DEF Firmware
<1>2. CASE CpuReset
  BY <1>a, <1>2, ResetEffect
<1>3. CASE ResetAckTimeout \/ WatchdogExpire \/ Tick \/ Peer \/ UNCHANGED vars
  BY <1>a, <1>3, OtherEffect
<1> QED BY <1>1, <1>2, <1>3 DEF Next, Device
-----------------------------------------------------------------------------
(* The blocks of the pool are cleared. *)
FreeIsZero == \A o \in pool : cmd[o] = FreeObject

(* The inductive invariant. *)
OutcomeInv == Accounted /\ FreeIsZero /\ Conserved

(* It holds when the firmware starts. *)
LEMMA OutcomeInit == Init => OutcomeInv
<1> SUFFICES ASSUME Init PROVE OutcomeInv
  OBVIOUS
<1>1. /\ cmd = [o \in Objects |-> FreeObject] /\ pool = Objects /\ seq = 0 /\ done = {}
      /\ validationQ = << >> /\ readyQ = << >> /\ ready = {}
      /\ runningQ = << >> /\ completionQ = << >>
      /\ task = [t \in Tasks |-> [pc |-> "idle", obj |-> None]]
  BY DEF Init
<1>2. Typed /\ OneOwner
  BY TypedInit, OwnedInit
<1>3. StateFitsOwner
  <2>1. \A t \in Tasks : Holds(t) = {}
    BY <1>1, PoolAssumption DEF Holds
  <2> QED BY <1>1, <2>1, EmptyOwned DEF StateFitsOwner, FreeObject, Tasks
<1>4. Answers /\ FreeIsZero
  BY <1>1 DEF Answers, Answered, FreeIsZero, FreeObject, Terminal
<1>5. Conserved
  BY <1>1, SMTT(20) DEF Conserved
<1> QED
  BY <1>2, <1>3, <1>4, <1>5 DEF OutcomeInv, Accounted

(* No effect parts a command from its answer. *)
LEMMA EffectAnswers ==
    ASSUME Typed, Answers, FreeIsZero, Effect
    PROVE  Answers' /\ FreeIsZero'
<1>0. cmd \in [Objects -> Object]
  BY DEF Typed, TypeOK
<1>1. CASE \E o \in Objects : Captures(o)
  <2>1. PICK o \in Objects : Captures(o)
    BY <1>1
  <2>2. /\ cmd'[o].state = "SUBMITTED" /\ \A x \in Objects \ {o} : cmd'[x] = cmd[x]
        /\ pool' = pool \ {o} /\ pool \subseteq Objects
    BY <1>0, <2>1 DEF Captures, Captured, Typed, TypeOK
  <2> QED BY <2>2 DEF Answers, Answered, FreeIsZero, Terminal
<1>2. CASE \E o \in Objects : Advances(o)
  BY <1>2 DEF Advances, Answers, FreeIsZero, Typed, TypeOK
<1>3. CASE \E o \in Objects : Publishes(o)
  <2>1. PICK o \in Objects : Publishes(o)
    BY <1>3
  <2>2. /\ cmd'[o] = FreeObject /\ \A x \in Objects \ {o} : cmd'[x] = cmd[x]
        /\ pool' = pool \cup {o} /\ pool \subseteq Objects
    BY <1>0, <2>1 DEF Publishes, Typed, TypeOK
  <2>3. Answered(FreeObject)
    BY DEF Answered, FreeObject, Terminal
  <2> QED BY <2>2, <2>3 DEF Answers, FreeIsZero
<1>4. CASE Restarts
  <2>1. Answered(FreeObject)
    BY DEF Answered, FreeObject, Terminal
  <2> QED BY <1>4, <2>1 DEF Restarts, Answers, FreeIsZero
<1>5. CASE Idles
  BY <1>5 DEF Idles, Answers, FreeIsZero
<1> QED BY <1>1, <1>2, <1>3, <1>4, <1>5 DEF Effect

(* No effect loses a command or answers it twice: a capture takes the next *)
(* number, a publication moves the number of one block to the numbers that *)
(* are done.                                                               *)
LEMMA EffectConserved ==
    ASSUME Typed, Conserved, Effect
    PROVE  Conserved'
<1>0. /\ cmd \in [Objects -> Object] /\ pool \subseteq Objects /\ seq \in Nat
  BY DEF Typed, TypeOK
<1>c. /\ \A o, p \in Objects \ pool : cmd[o].seq = cmd[p].seq => o = p
      /\ \A o \in Objects \ pool : cmd[o].seq \notin done
      /\ {cmd[o].seq : o \in Objects \ pool} \cup done = 1 .. seq
  BY DEF Conserved
<1> SUFFICES
        /\ \A o, p \in Objects \ pool' : cmd'[o].seq = cmd'[p].seq => o = p
        /\ \A o \in Objects \ pool' : cmd'[o].seq \notin done'
        /\ {cmd'[o].seq : o \in Objects \ pool'} \cup done' = 1 .. seq'
  BY DEF Conserved
<1>1. CASE \E o \in Objects : Captures(o)
  <2>1. PICK o \in Objects : Captures(o)
    BY <1>1
  <2>2. /\ cmd'[o].seq = seq + 1 /\ \A x \in Objects \ {o} : cmd'[x] = cmd[x]
        /\ pool' = pool \ {o} /\ o \in pool /\ seq' = seq + 1 /\ done' = done
    BY <1>0, <2>1 DEF Captures, Captured
  <2>3. seq + 1 \notin 1 .. seq /\ 1 .. (seq + 1) = (1 .. seq) \cup {seq + 1}
    BY <1>0, SMTT(20)
  <2>4. \A x \in Objects \ pool : cmd[x].seq \in 1 .. seq /\ x # o
    BY <1>c, <2>2
  <2>5. seq + 1 \notin done
    BY <1>c, <2>3
  <2>6. Objects \ pool' = (Objects \ pool) \cup {o}
    BY <2>2
  <2>7. {cmd'[x].seq : x \in Objects \ pool'}
          = {cmd[x].seq : x \in Objects \ pool} \cup {seq + 1}
    BY <2>2, <2>4, <2>6, SMTT(20)
  <2>8. {cmd'[x].seq : x \in Objects \ pool'} \cup done' = 1 .. seq'
    BY <1>c, <2>2, <2>3, <2>7
  <2> QED BY <1>c, <2>2, <2>3, <2>4, <2>5, <2>6, <2>8, SMTT(20)
<1>2. CASE \E o \in Objects : Advances(o)
  <2>1. (\A x \in Objects : cmd'[x].seq = cmd[x].seq) /\ UNCHANGED <<pool, seq, done>>
    BY <1>2 DEF Advances
  <2> QED BY <1>c, <2>1, SMTT(20)
<1>3. CASE \E o \in Objects : Publishes(o)
  <2>1. PICK o \in Objects : Publishes(o)
    BY <1>3
  <2>2. /\ o \notin pool /\ \A x \in Objects \ {o} : cmd'[x] = cmd[x]
        /\ pool' = pool \cup {o} /\ done' = done \cup {cmd[o].seq} /\ seq' = seq
    BY <1>0, <2>1 DEF Publishes
  <2>3. Objects \ pool' = (Objects \ pool) \ {o}
    BY <2>2
  <2>4. {cmd'[x].seq : x \in Objects \ pool'} \cup {cmd[o].seq}
          = {cmd[x].seq : x \in Objects \ pool}
    BY <2>2, <2>3
  <2>5. {cmd'[x].seq : x \in Objects \ pool'} \cup done' = 1 .. seq'
    BY <1>c, <2>2, <2>4
  <2> QED BY <1>c, <2>2, <2>3, <2>5
<1>4. CASE Restarts
  BY <1>4, SMTT(20) DEF Restarts
<1>5. CASE Idles
  BY <1>c, <1>5 DEF Idles
<1> QED BY <1>1, <1>2, <1>3, <1>4, <1>5 DEF Effect

(* Every step keeps the invariant. *)
LEMMA OutcomeNext == OutcomeInv /\ [Next]_vars => OutcomeInv'
<1> SUFFICES ASSUME OutcomeInv, [Next]_vars PROVE OutcomeInv'
  OBVIOUS
<1>1. Typed' /\ OneOwner' /\ StateFitsOwner' /\ Effect
  BY NextEffect DEF OutcomeInv
<1>2. Answers' /\ FreeIsZero'
  BY <1>1, EffectAnswers DEF OutcomeInv, Accounted
<1>3. Conserved'
  BY <1>1, EffectConserved DEF OutcomeInv, Accounted
<1> QED BY <1>1, <1>2, <1>3 DEF OutcomeInv, Accounted

(* The invariant holds in every state. *)
LEMMA OutcomeAlways == Spec => []OutcomeInv
BY OutcomeInit, OutcomeNext, PTL DEF Spec

(* Every command captured since the last reset is in exactly one block or  *)
(* was published exactly once, for a pool of any size and through every    *)
(* interleaving of the tasks.                                              *)
THEOREM CommandsConserved == Spec => []Conserved
<1>1. OutcomeInv => Conserved
  BY DEF OutcomeInv
<1> QED BY <1>1, OutcomeAlways, PTL

(* A completion the firmware publishes names the command of its object and *)
(* says success exactly when that command completed, whichever of          *)
(* scheduler, validator and recovery manager had the last word.            *)
THEOREM OutcomesAreOwn == Spec => []OutcomeIsOwn
<1>1. OutcomeInv => OutcomeIsOwn
  <2> SUFFICES ASSUME OutcomeInv, NEW o \in InQueue(completionQ) \cup Holds("completion")
               PROVE  /\ cmd[o].comp.id = cmd[o].sub.id
                      /\ cmd[o].comp.status = "SUCCESS" <=> cmd[o].state = "COMPLETED"
    BY DEF OutcomeIsOwn
  <2>1. cmd[o].state \in Terminal
    BY DEF OutcomeInv, Accounted, StateFitsOwner
  <2>2. o \in Objects
    BY QueueTypes DEF OutcomeInv, Accounted, Typed, TypeOK, Holds
  <2> QED BY <2>1, <2>2 DEF OutcomeInv, Accounted, Answers, Answered
<1> QED BY <1>1, OutcomeAlways, PTL

(* Each effect is a step of CommandLifecycle, or none. *)
LEMMA StepAdvances ==
    ASSUME OutcomeInv, Effect
    PROVE  [Lifecycle!Next]_(Lifecycle!vars)
<1>0. cmd \in [Objects -> Object] /\ FreeIsZero /\ Conserved
  BY DEF OutcomeInv, Accounted, Typed, TypeOK
<1> DEFINE life == [o \in Objects |-> [state |-> cmd[o].state, seq |-> cmd[o].seq]]
           lifeN == [o \in Objects |-> [state |-> cmd'[o].state, seq |-> cmd'[o].seq]]
<1>1. CASE \E o \in Objects : Captures(o)
  <2>1. PICK o \in Objects : Captures(o)
    BY <1>1
  <2>2. /\ o \in pool /\ seq' = seq + 1 /\ done' = done
        /\ cmd'[o] = Captured(portal.sub)
        /\ \A x \in Objects \ {o} : cmd'[x] = cmd[x]
    BY <1>0, <2>1 DEF Captures
  <2>3. life[o] = [state |-> "FREE", seq |-> 0]
    BY <1>0, <2>2, SMTT(20) DEF FreeIsZero, FreeObject
  <2>4. cmd'[o].state = "SUBMITTED" /\ cmd'[o].seq = seq + 1
    BY <2>2, SMTT(20) DEF Captured
  <2>5. lifeN = [life EXCEPT ![o] = [state |-> "SUBMITTED", seq |-> seq + 1]]
    BY <2>2, <2>4
  <2>6. Lifecycle!Capture(o)
    BY <2>2, <2>3, <2>5 DEF Lifecycle!Capture, Lifecycle!Idle
  <2> QED BY <2>6 DEF Lifecycle!Next
<1>2. CASE \E o \in Objects : Advances(o)
  <2>1. PICK o \in Objects : Advances(o)
    BY <1>2
  <2>2. /\ UNCHANGED <<seq, done>> /\ cmd'[o].seq = cmd[o].seq
        /\ \A x \in Objects \ {o} : cmd'[x] = cmd[x]
        /\ cmd'[o].state \in Lifecycle!Successors(cmd[o].state)
    BY <2>1 DEF Advances
  <2>3. lifeN = [life EXCEPT ![o].state = cmd'[o].state]
    BY <2>2
  <2>4. life[o].state = cmd[o].state
    OBVIOUS
  <2>5. Lifecycle!Advance(o)
    BY <2>2, <2>3, <2>4 DEF Lifecycle!Advance
  <2> QED BY <2>5 DEF Lifecycle!Next
<1>3. CASE \E o \in Objects : Publishes(o)
  <2>1. PICK o \in Objects : Publishes(o)
    BY <1>3
  <2>2. /\ cmd'[o] = FreeObject /\ \A x \in Objects \ {o} : cmd'[x] = cmd[x]
        /\ o \notin pool /\ cmd[o].state \in Terminal
        /\ done' = done \cup {cmd[o].seq} /\ seq' = seq
    BY <1>0, <2>1 DEF Publishes
  <2>3. cmd[o].seq \notin done
    BY <1>0, <2>2 DEF Conserved
  <2>4. lifeN = [life EXCEPT ![o] = [state |-> "FREE", seq |-> 0]]
    <3>1. cmd'[o].state = "FREE" /\ cmd'[o].seq = 0
      BY <2>2, SMTT(20) DEF FreeObject
    <3> QED BY <2>2, <3>1
  <2>5. life[o].state = cmd[o].state /\ life[o].seq = cmd[o].seq
    OBVIOUS
  <2>6. Lifecycle!Publish(o)
    BY <2>2, <2>3, <2>4, <2>5 DEF Lifecycle!Publish, Lifecycle!Idle, Terminal
  <2> QED BY <2>6 DEF Lifecycle!Next
<1>4. CASE Restarts
  <2>1. lifeN = [o \in Objects |-> [state |-> "FREE", seq |-> 0]]
    BY <1>4 DEF Restarts, FreeObject
  <2>2. Lifecycle!Reset
    BY <1>4, <2>1 DEF Restarts, Lifecycle!Reset, Lifecycle!Idle
  <2> QED BY <2>2 DEF Lifecycle!Next
<1>5. CASE Idles
  BY <1>5 DEF Idles, Lifecycle!vars
<1> QED BY <1>1, <1>2, <1>3, <1>4, <1>5 DEF Effect

(* The command service implements CommandLifecycle: every step of five     *)
(* tasks, device and peer is, of the commands' states, one legal           *)
(* transition of one command, a restart, or no transition at all.          *)
THEOREM PipelineImplementsLifecycle == Spec => ImplementsLifecycle
<1>1. Init => Lifecycle!Init
  BY SMTT(20) DEF Init, Lifecycle!Init, Lifecycle!Idle, FreeObject
<1>2. OutcomeInv /\ [Next]_vars => [Lifecycle!Next]_(Lifecycle!vars)
  BY NextEffect, StepAdvances DEF OutcomeInv
<1> QED BY <1>1, <1>2, OutcomeAlways, PTL DEF Spec, ImplementsLifecycle, Lifecycle!Spec

(* vams_scheduler_select never passes over a command that is due before    *)
(* the one it returns, whatever was queued since it last ran.              *)
THEOREM SchedulerIsEarliestDeadlineFirst == Spec => EarliestDeadlineFirst
<1> DEFINE Urgent ==
             \A o \in Objects :
               (o \in Holds("scheduler")' /\ o \notin Holds("scheduler")) =>
                 \A p \in Objects \ {o} : cmd[p].state = "QUEUED" => Precedes(o, p)
<1>1. OutcomeInv /\ [Next]_vars => [Urgent]_vars
  <2> SUFFICES ASSUME OutcomeInv, Next PROVE Urgent
    OBVIOUS
  <2>a. Typed /\ OneOwner /\ StateFitsOwner
    BY DEF OutcomeInv, Accounted
  <2>1. CASE SchedulerPick
    <3>1. PICK o \in ready \cup InQueue(readyQ) :
            /\ Selected(o, ready \cup InQueue(readyQ))
            /\ Placed["scheduler"] = {} /\ Placed'["scheduler"] = {o}
      BY <2>a, <2>1, OwnedPick
    <3>2. Holds("scheduler")' = {o}
      BY <3>1, PlacedValues DEF Holds, Tasks
    <3>3. ASSUME NEW p \in Objects \ {o}, cmd[p].state = "QUEUED"
          PROVE  p \in ready \cup InQueue(readyQ)
      <4>1. halted = "no"
        BY <2>1 DEF SchedulerPick, CanRun
      <4>2. PICK w \in Places : p \in Placed[w]
        BY <2>a, <4>1, OwnerParts DEF Covers
      <4>3. cmd[p].state \in Fit[w]
        BY <2>a, <4>2, FitsMeans
      <4>4. w \in {"ready", "readyQ"}
        BY <3>1, <3>3, <4>2, <4>3, FitValues, SMTT(20) DEF Places, Terminal
      <4> QED BY <4>2, <4>4, PlacedValues
    <3> QED BY <3>1, <3>2, <3>3 DEF Selected
  <2>2. CASE ~SchedulerPick
    <3>1. Holds("scheduler")' \subseteq Holds("scheduler")
      <4>1. task'["scheduler"].obj \in {task["scheduler"].obj, None}
        <5>0. task \in [Tasks -> [pc : TaskPC, obj : Objects \cup {None}]]
          BY <2>a DEF Typed, TypeOK
        <5>1. CASE Receiver \/ Validator
          BY <5>1 DEF Receiver, ReceiverAdmit, Validator, ValidatorReject, ValidatorAccept
        <5>3. CASE Scheduler
          <6>1. \/ Release("scheduler") \/ \E pc : Goto("scheduler", pc)
            BY <2>2, <5>3 DEF Scheduler, SchedulerExpire, SchedulerNop, SchedulerRun,
               PublishRetry, PublishTimeout, PublishWrite, SchedulerRing
          <6> QED BY <5>0, <6>1, SMTT(20) DEF Goto, Release, Tasks
        <5>4. CASE Recovery \/ CompletionTask
          <6>1. \E t \in {"recovery", "completion"} : \E k : task' = [task EXCEPT ![t] = k]
            BY <5>4 DEF Recovery, RecoveryTake, RecoveryResult, RecoveryExpire, AbortCheck,
               AbortWrite, AbortRing, RecoveryEscalate, CompletionTask, CompletionTake,
               CompletionRing, PublishRetry, PublishTimeout, PublishWrite, Goto, Release
          <6> QED BY <5>0, <6>1 DEF Tasks
        <5>2. CASE Device \/ Tick \/ Peer
          BY <5>2, SMTT(20) DEF Device, ResetAckTimeout, WatchdogExpire, CpuReset, Tick, Peer,
             PeerSubmit, PeerReply, PeerGarbage, PeerTake, Disconnect, Connect, fwVars,
             Tasks
        <5> QED BY <5>1, <5>2, <5>3, <5>4 DEF Next, Firmware
      <4> QED BY <4>1, PoolAssumption DEF Holds
    <3> QED BY <3>1
  <2> QED BY <2>1, <2>2
<1> QED BY <1>1, OutcomeAlways, PTL DEF Spec, EarliestDeadlineFirst
-----------------------------------------------------------------------------
(* Counting blocks *)
INSTANCE FiniteSetTheorems

(* A queue as large as the pool has room for every block that is not in    *)
(* it: vams_queue_put on one of the three queues cannot fail.              *)
LEMMA RoomLeft ==
    ASSUME NEW q \in Seq(Objects), Injective(q), NEW o \in Objects \ InQueue(q)
    PROVE  Room(q, PoolSize)
<1> DEFINE T == Objects \ {o}
           n == Len(q)
<1>1. n \in Nat /\ IsFiniteSet(1 .. n) /\ Cardinality(1 .. n) = n
  <2>1. n \in Nat
    BY SMTT(20)
  <2> HIDE DEF n
  <2> QED BY <2>1, FS_Interval, SMTT(20)
<1>2. IsFiniteSet(T) /\ Cardinality(T) = PoolSize - 1 /\ PoolSize \in Nat
  BY PoolAssumption, FS_RemoveElement, FS_CardinalityType DEF PoolSize
<1>3. q \in Injection(1 .. n, T)
  <2>1. q \in [1 .. n -> T]
    BY SMTT(20) DEF InQueue
  <2> QED BY <2>1 DEF Injection, Injective, IsInjective
<1>4. Cardinality(1 .. n) <= Cardinality(T)
  BY <1>2, <1>3, FS_Injection
<1> QED BY <1>1, <1>2, <1>4, SMTT(20) DEF Room

(* Whoever has a block to put finds room for it: the receiver in           *)
(* validation_queue, the validator in both queues it may use, scheduler    *)
(* and recovery manager in completion_queue.                               *)
LEMMA RoomInPoolQueues ==
    ASSUME Typed, OneOwner
    PROVE  /\ pool # {} => Room(validationQ, PoolSize)
           /\ validationQ # << >> =>
                Room(readyQ, PoolSize) /\ Room(completionQ, PoolSize)
           /\ \A t \in {"scheduler", "recovery"} :
                task[t].pc # "idle" => Room(completionQ, PoolSize)
<1>1. /\ validationQ \in Seq(Objects) /\ readyQ \in Seq(Objects)
      /\ completionQ \in Seq(Objects) /\ pool \subseteq Objects
  BY DEF Typed, TypeOK
<1>2. Injective(validationQ) /\ Injective(readyQ) /\ Injective(completionQ)
  BY OwnerParts
<1>3. ASSUME NEW o \in pool PROVE Room(validationQ, PoolSize)
  <2>1. o \in Objects \ InQueue(validationQ)
    BY <1>1, OwnedElsewhere, PlacedValues, SMTT(20) DEF Places
  <2> QED BY <1>1, <1>2, <2>1, RoomLeft
<1>4. ASSUME validationQ # << >>
      PROVE  Room(readyQ, PoolSize) /\ Room(completionQ, PoolSize)
  <2>1. Head(validationQ) \in InQueue(validationQ) /\ Head(validationQ) \in Objects
    BY <1>1, <1>2, <1>4, TailOwned, QueueTypes
  <2>2. Head(validationQ) \notin InQueue(readyQ) /\ Head(validationQ) \notin InQueue(completionQ)
    BY <2>1, OwnedElsewhere, PlacedValues, SMTT(20) DEF Places
  <2> QED BY <1>1, <1>2, <2>1, <2>2, RoomLeft
<1>5. ASSUME NEW t \in {"scheduler", "recovery"}, task[t].pc # "idle"
      PROVE  Room(completionQ, PoolSize)
  <2>1. task[t].obj \in Objects
    BY <1>5 DEF Typed, TaskFits, Tasks
  <2>2. task[t].obj \in Placed[t]
    BY <2>1, PlacedValues DEF Tasks
  <2>3. task[t].obj \notin InQueue(completionQ)
    BY <2>2, OwnedElsewhere, PlacedValues, SMTT(20) DEF Places
  <2> QED BY <1>1, <1>2, <2>1, <2>3, RoomLeft
<1> QED BY <1>3, <1>4, <1>5

(* No k_msgq_put on a queue as deep as the pool fails, so the only         *)
(* assertion on a queue that can stop the firmware is the one on           *)
(* running_queue, which is shorter.                                        *)
THEOREM PoolQueuesNeverOverflow == Spec => []OnlyRunningQueueOverflows
<1>1. Init => OnlyRunningQueueOverflows
  BY DEF Init, OnlyRunningQueueOverflows
<1>2. Typed /\ OneOwner /\ OnlyRunningQueueOverflows /\ [Next]_vars
        => OnlyRunningQueueOverflows'
  <2> SUFFICES ASSUME Typed, OneOwner, OnlyRunningQueueOverflows, [Next]_vars
               PROVE  OnlyRunningQueueOverflows'
    OBVIOUS
  <2> USE DEF OnlyRunningQueueOverflows
  <2>1. CASE Receiver \/ Validator
    BY <2>1, RoomInPoolQueues DEF Receiver, ReceiverAdmit, Validator, ValidatorReject,
       ValidatorAccept, AssertRoom, CanRun
  <2>2. CASE Scheduler
    <3>1. CASE SchedulerExpire \/ SchedulerNop
      BY <3>1, RoomInPoolQueues DEF SchedulerExpire, SchedulerNop, At, AssertRoom
    <3>2. CASE SchedulerRing
      BY <3>2 DEF SchedulerRing, AssertRoom
    <3> QED BY <2>2, <3>1, <3>2 DEF Scheduler, SchedulerPick, SchedulerRun, PublishRetry,
               PublishTimeout, PublishWrite
  <2>3. CASE Recovery
    <3>1. CASE RecoveryResult \/ RecoveryEscalate
      BY <3>1, RoomInPoolQueues DEF RecoveryResult, RecoveryEscalate, At, AssertRoom
    <3> QED BY <2>3, <3>1 DEF Recovery, RecoveryTake, RecoveryExpire, AbortCheck, AbortWrite,
               AbortRing
  <2>4. CASE CompletionTask
    BY <2>4 DEF CompletionTask, CompletionTake, PublishRetry, PublishTimeout, PublishWrite,
       CompletionRing
  <2>5. CASE Device \/ Tick \/ Peer \/ UNCHANGED vars
    BY <2>5 DEF Device, ResetAckTimeout, WatchdogExpire, CpuReset, Tick, Peer, PeerSubmit,
       PeerReply, PeerGarbage, PeerTake, Disconnect, Connect, fwVars, vars
  <2> QED BY <2>1, <2>2, <2>3, <2>4, <2>5 DEF Next, Firmware
<1> QED BY <1>1, <1>2, TypedInit, TypedNext, OwnedInit, OwnedNext, PTL DEF Spec
=============================================================================
