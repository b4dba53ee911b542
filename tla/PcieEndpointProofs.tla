------------------------- MODULE PcieEndpointProofs -------------------------
(***************************************************************************)
(* The endpoint keeps its assertions and answers each command once, for    *)
(* every depth of the queues, every set of commands and every firmware.    *)
(*                                                                         *)
(* Every handler is a function on endpoints. There is one lemma per        *)
(* handler: it maps a sound endpoint to a sound one, and it says how many  *)
(* commands the host loses or gains by it. The steps follow from these.    *)
(***************************************************************************)
EXTENDS PcieEndpoint, TLAPS

(* One at most of a request in flight, a reply to discard and the engine   *)
(* has the command in service: the ownership rules of                      *)
(* vams_pcie_check_invariants.                                             *)
Owned(e) ==
    /\ ~(e.inflight /\ e.discard)
    /\ ~(e.inflight /\ e.engine)
    /\ ~(e.discard /\ e.engine)
    /\ e.final => e.inflight
    /\ e.engine => e.current /\ e.sub.payload
    /\ e.ackTimer => e.discard

(* A command has left the submission queue and is not answered yet. *)
InService(e) == e.inflight \/ e.engine

(* The completion queue has a slot for the command in service, which is    *)
(* why the assertion of vams_pcie_publish_completion holds.                *)
Room(e) ==
    /\ Len(e.cq) <= CqDepth - 1
    /\ InService(e) => Len(e.cq) < CqDepth - 1

(* An endpoint on which no assertion has failed and none can. *)
Sound(e) == e \in EndpointState /\ ~e.failed /\ Owned(e) /\ Room(e)

(* The places that hold a command of the host. *)
Load(e) == Len(e.sq) + Len(e.cq) + (IF InService(e) THEN 1 ELSE 0)

(* What the endpoint writes to the stream is well formed. *)
LEMMA LinkValues ==
    /\ GarbageSubmission \in Submission
    /\ ZeroCompletion \in Completion
    /\ \A id \in AnyId, st \in Status : MakeCompletion(id, st) \in Completion
    /\ \A s \in Submission : SubmissionUnits(s) \in Seq(Unit)
    /\ \A c \in Completion : CompletionUnit(c) \in Unit
BY DEF GarbageSubmission, Submission, ZeroCompletion, Completion, MakeCompletion,
       AnyId, Status, SubmissionUnits, CompletionUnit, Unit

(* The endpoint starts idle and with empty queues. *)
LEMMA InitSound == Sound(EndpointInit) /\ Load(EndpointInit) = 0
BY LinkValues, DepthAssumption
   DEF EndpointInit, Sound, EndpointState, Owned, Room, Load, InService

(* The number of commands the endpoint holds is a number. *)
LEMMA LoadType == ASSUME NEW e \in EndpointState PROVE Load(e) \in Nat
BY DEF EndpointState, Load

(* A g_assert whose condition holds changes nothing. *)
LEMMA CheckedHolds ==
    ASSUME NEW e \in EndpointState, ~e.failed, NEW condition, condition
    PROVE  Checked(e, condition) = e
<1>1. e.failed = FALSE /\ (e.failed \/ ~condition) = FALSE
  BY DEF EndpointState
<1>2. [e EXCEPT !.failed = FALSE] = e
  BY <1>1 DEF EndpointState
<1> QED
  BY <1>1, <1>2, Zenon DEF Checked

(* vams_pcie_process_sq takes a command into service only when nothing is  *)
(* in service and the completion queue has a slot: the command is where it *)
(* was, or in service.                                                     *)
LEMMA ProcessSqSound ==
    ASSUME NEW e, Sound(e), NEW conn \in BOOLEAN
    PROVE  /\ Sound(ProcessSq(e, conn))
           /\ Load(ProcessSq(e, conn)) = Load(e)
<1> DEFINE held == [e EXCEPT !.sub = Head(e.sq), !.final = FALSE]
           sent == [e EXCEPT !.inflight = TRUE, !.final = FALSE, !.sub = Head(e.sq),
                             !.sq = Tail(@), !.out = @ \o SubmissionUnits(Head(e.sq))]
<1>1. ASSUME e.sq # << >>, ~CqFull(e), ~e.inflight, ~e.discard, ~e.engine
      PROVE  Sound(held) /\ Load(held) = Load(e) /\ Sound(sent) /\ Load(sent) = Load(e)
  <2>1. Head(e.sq) \in Submission /\ Tail(e.sq) \in Seq(Submission)
        /\ Len(Tail(e.sq)) = Len(e.sq) - 1
    BY <1>1 DEF Sound, EndpointState
  <2>2. e.out \o SubmissionUnits(Head(e.sq)) \in Seq(Unit)
    BY <2>1, LinkValues DEF Sound, EndpointState
  <2>3. held \in EndpointState /\ sent \in EndpointState
    BY <2>1, <2>2 DEF Sound, EndpointState
  <2>4. Owned(held) /\ Owned(sent) /\ ~held.failed /\ ~sent.failed
    BY <1>1 DEF Sound, EndpointState, Owned
  <2>5. Room(held) /\ Room(sent)
    BY <1>1, DepthAssumption DEF Sound, EndpointState, Room, InService, CqFull
  <2>6. Load(held) = Load(e) /\ Load(sent) = Load(e)
    BY <1>1, <2>1 DEF Sound, EndpointState, Load, InService
  <2> QED
    BY <2>3, <2>4, <2>5, <2>6 DEF Sound
<1> QED
  BY <1>1, Zenon DEF ProcessSq

(* vams_pcie_update_cq_backpressure moves no command. *)
LEMMA BackpressureSound ==
    ASSUME NEW e, Sound(e)
    PROVE  /\ Sound(UpdateBackpressure(e))
           /\ Load(UpdateBackpressure(e)) = Load(e)
<1> DEFINE b == /\ e.enabled
                /\ IF e.backpressure THEN Len(e.cq) > LowWater
                   ELSE Len(e.cq) >= HighWater
<1>1. b \in BOOLEAN
  BY DEF Sound, EndpointState
<1>2. UpdateBackpressure(e) = [e EXCEPT !.backpressure = b]
  BY Zenon DEF UpdateBackpressure
<1> HIDE DEF b
<1> DEFINE d == [e EXCEPT !.backpressure = b]
<1>3. d \in EndpointState
  BY <1>1 DEF Sound, EndpointState
<1>4. /\ d.failed = e.failed /\ d.sq = e.sq /\ d.cq = e.cq /\ d.inflight = e.inflight
      /\ d.discard = e.discard /\ d.engine = e.engine /\ d.final = e.final
      /\ d.current = e.current /\ d.sub = e.sub /\ d.ackTimer = e.ackTimer
  BY DEF Sound, EndpointState
<1> HIDE DEF d
<1>5. Sound(d) /\ Load(d) = Load(e)
  BY <1>3, <1>4 DEF Sound, Owned, Room, InService, Load
<1> QED
  BY <1>2, <1>5 DEF d

(* vams_pcie_publish_completion adds one answer, and finds its slot        *)
(* whenever the command it answers is in service no longer.                *)
LEMMA PublishSound ==
    ASSUME NEW e, Sound(e), ~InService(e), Len(e.cq) < CqDepth - 1,
           NEW c \in Completion
    PROVE  /\ Sound(PublishCompletion(e, c))
           /\ Load(PublishCompletion(e, c)) = Load(e) + 1
<1> DEFINE entry == [c EXCEPT !.tag = FALSE]
           d == [e EXCEPT !.cq = Append(@, entry)]
<1>1. entry \in Completion
  BY DEF Completion
<1>2. e \in EndpointState /\ ~e.failed /\ ~CqFull(e)
  BY DepthAssumption DEF Sound, CqFull, EndpointState
<1>3. PublishCompletion(e, c) = UpdateBackpressure(d)
  BY <1>2, CheckedHolds, Zenon DEF PublishCompletion
<1> HIDE DEF entry
<1>4. Append(e.cq, entry) \in Seq(Completion) /\ Len(Append(e.cq, entry)) = Len(e.cq) + 1
  BY <1>1, <1>2 DEF EndpointState
<1>5. d \in EndpointState
  BY <1>2, <1>4 DEF EndpointState
<1>6. Sound(d)
  BY <1>4, <1>5, DepthAssumption DEF Sound, EndpointState, Owned, Room, InService
<1>7. Load(d) = Load(e) + 1
  BY <1>2, <1>4 DEF Load, EndpointState, InService
<1> HIDE DEF d
<1> QED
  BY <1>3, <1>6, <1>7, BackpressureSound

(* vams_pcie_report_engine_result hands the command of the engine back to  *)
(* the firmware, or gives it up when the host has reset the queues.        *)
LEMMA ReportSound ==
    ASSUME NEW e, Sound(e), ~InService(e), ~e.discard, NEW c \in Completion,
           NEW discard \in BOOLEAN, ~discard => Len(e.cq) < CqDepth - 1
    PROVE  /\ Sound(ReportEngineResult(e, c, discard))
           /\ Load(ReportEngineResult(e, c, discard))
                = Load(e) + (IF discard THEN 0 ELSE 1)
<1> DEFINE msg == Append(e.out, CompletionUnit(c))
           kept == [e EXCEPT !.inflight = TRUE, !.final = TRUE, !.discard = FALSE,
                             !.ackTimer = FALSE, !.comp = c, !.out = msg]
           left == [e EXCEPT !.inflight = FALSE, !.final = FALSE, !.discard = TRUE,
                             !.ackTimer = TRUE, !.comp = c, !.out = msg]
<1>1. e \in EndpointState /\ ~e.failed /\ ~e.inflight /\ e.ackTimer = FALSE
  BY DEF Sound, Owned, InService, EndpointState
<1>2. ReportEngineResult(e, c, discard) = IF discard THEN left ELSE kept
  <2>1. Checked(e, ~e.inflight /\ ~e.discard) = e
    BY <1>1, CheckedHolds
  <2>2. CASE discard
    <3>1. discard = TRUE /\ (~discard) = FALSE /\ (e.ackTimer \/ discard) = TRUE
      BY <2>2
    <3> QED
      BY <2>1, <3>1, Zenon DEF ReportEngineResult
  <2>3. CASE ~discard
    <3>1. discard = FALSE /\ (~discard) = TRUE /\ (e.ackTimer \/ discard) = FALSE
      BY <1>1, <2>3
    <3> QED
      BY <2>1, <3>1, Zenon DEF ReportEngineResult
  <2> QED
    BY <2>2, <2>3
<1>3. msg \in Seq(Unit)
  BY <1>1, LinkValues DEF EndpointState
<1> HIDE DEF msg
<1>4. kept \in EndpointState /\ left \in EndpointState
  BY <1>1, <1>3 DEF EndpointState
<1>5. Owned(kept) /\ Owned(left) /\ ~kept.failed /\ ~left.failed
  BY <1>1 DEF EndpointState, Owned, InService
<1>6. Room(left) /\ (~discard => Room(kept))
  BY <1>1 DEF Sound, EndpointState, Room, InService
<1>7. Load(left) = Load(e) /\ Load(kept) = Load(e) + 1
  BY <1>1 DEF Load, EndpointState, InService
<1>8. Load(e) + 0 = Load(e)
  BY <1>1, LoadType
<1> HIDE DEF kept, left
<1> QED
  BY <1>2, <1>4, <1>5, <1>6, <1>7, <1>8 DEF Sound

(* The command of the engine goes to the firmware or, when the stream is   *)
(* closed, to the completion queue: never to both, never to none.          *)
LEMMA ReportOrPublishSound ==
    ASSUME NEW e, Sound(e), ~InService(e), ~e.discard, Len(e.cq) < CqDepth - 1,
           NEW c \in Completion, NEW otherwise \in Status, NEW conn \in BOOLEAN
    PROVE  /\ Sound(ReportOrPublish(e, c, otherwise, conn))
           /\ Load(ReportOrPublish(e, c, otherwise, conn)) = Load(e) + 1
<1> DEFINE p == [c EXCEPT !.status = otherwise]
           d == [e EXCEPT !.comp = p]
<1>1. p \in Completion
  BY DEF Completion
<1>2. ReportOrPublish(e, c, otherwise, conn)
        = IF conn THEN ReportEngineResult(e, c, FALSE) ELSE PublishCompletion(d, p)
  BY Zenon DEF ReportOrPublish
<1> HIDE DEF p
<1>3. Sound(d) /\ ~InService(d) /\ d.cq = e.cq /\ Load(d) = Load(e)
  BY <1>1 DEF Sound, EndpointState, Owned, Room, InService, Load
<1> HIDE DEF d
<1>4. Sound(PublishCompletion(d, p)) /\ Load(PublishCompletion(d, p)) = Load(e) + 1
  BY <1>1, <1>3, PublishSound
<1>5. /\ Sound(ReportEngineResult(e, c, FALSE))
      /\ Load(ReportEngineResult(e, c, FALSE)) = Load(e) + 1
  BY ReportSound
<1> QED
  BY <1>2, <1>4, <1>5

(* vams_pcie_cancel_engine takes the command out of service, and the slot  *)
(* that was kept for it stays free.                                        *)
LEMMA StopSound ==
    ASSUME NEW e, Sound(e)
    PROVE  /\ Sound(CancelEngine(e))
           /\ Sound([CancelEngine(e) EXCEPT !.current = FALSE])
           /\ \A d \in {CancelEngine(e), [CancelEngine(e) EXCEPT !.current = FALSE]} :
                /\ ~d.engine /\ d.inflight = e.inflight /\ d.discard = e.discard
                /\ d.cq = e.cq /\ d.sq = e.sq /\ d.comp = e.comp /\ d.sub = e.sub
                /\ e.engine => Load(e) = Load(d) + 1
                /\ ~e.engine => Load(e) = Load(d)
<1>1. e \in EndpointState
  BY DEF Sound
<1>2. \A d \in {CancelEngine(e), [CancelEngine(e) EXCEPT !.current = FALSE]} :
        /\ d \in EndpointState
        /\ d.engine = FALSE /\ d.inflight = e.inflight /\ d.discard = e.discard
        /\ d.cq = e.cq /\ d.sq = e.sq /\ d.comp = e.comp /\ d.sub = e.sub
        /\ d.final = e.final /\ d.ackTimer = e.ackTimer /\ d.failed = e.failed
  BY <1>1 DEF CancelEngine, EndpointState
<1>3. \A d \in {CancelEngine(e), [CancelEngine(e) EXCEPT !.current = FALSE]} : Sound(d)
  BY <1>1, <1>2 DEF Sound, Owned, Room, InService
<1>4. \A d \in {CancelEngine(e), [CancelEngine(e) EXCEPT !.current = FALSE]} :
        /\ e.engine => Load(e) = Load(d) + 1
        /\ ~e.engine => Load(e) = Load(d)
  <2> TAKE d \in {CancelEngine(e), [CancelEngine(e) EXCEPT !.current = FALSE]}
  <2>1. /\ d.engine = FALSE /\ d.inflight = e.inflight /\ d.cq = e.cq /\ d.sq = e.sq
    BY <1>2
  <2>2. Len(e.sq) \in Nat /\ Len(e.cq) \in Nat
    BY <1>1 DEF EndpointState
  <2>3. e.engine => ~e.inflight
    BY DEF Sound, Owned
  <2>4. /\ e.engine => InService(e) /\ ~InService(d)
        /\ ~e.engine => (InService(d) <=> InService(e))
    BY <2>1, <2>3 DEF InService
  <2>5. CASE e.engine
    <3>1. Load(e) = Len(e.sq) + Len(e.cq) + 1 /\ Load(d) = Len(e.sq) + Len(e.cq) + 0
      BY <2>1, <2>4, <2>5 DEF Load
    <3> QED
      BY <2>2, <2>5, <3>1
  <2>6. CASE ~e.engine
    BY <2>1, <2>4, <2>6 DEF Load
  <2> QED
    BY <2>5, <2>6
<1> QED
  BY <1>2, <1>3, <1>4

(* vams_pcie_cancel_bridge_request gives up the request in flight and has  *)
(* its reply discarded.                                                    *)
LEMMA CancelRequestSound ==
    ASSUME NEW e, Sound(e)
    PROVE  /\ Sound(CancelBridgeRequest(e))
           /\ ~CancelBridgeRequest(e).inflight
           /\ CancelBridgeRequest(e).engine = e.engine
           /\ e.engine => CancelBridgeRequest(e) = e
<1> DEFINE d == [e EXCEPT !.discard = TRUE, !.inflight = FALSE, !.final = FALSE]
<1>1. e \in EndpointState
  BY DEF Sound
<1>2. e.inflight => Sound(d) /\ ~d.inflight /\ d.engine = e.engine /\ ~e.engine
  BY <1>1 DEF EndpointState, Sound, Owned, Room, InService
<1> QED
  BY <1>2 DEF CancelBridgeRequest

(* After cancel and abort of a reset nothing is in service, whichever of   *)
(* bridge and engine had the command.                                      *)
LEMMA InvalidateSound ==
    ASSUME NEW e, Sound(e), NEW status \in Status, NEW conn \in BOOLEAN
    PROVE  /\ Sound(Invalidate(e, status, conn))
           /\ ~InService(Invalidate(e, status, conn))
<1> DEFINE c == CancelBridgeRequest(e)
           idle == CancelEngine(c)
           m == [c.comp EXCEPT !.status = status]
           n == [idle EXCEPT !.comp = m]
<1>1. Sound(c) /\ ~c.inflight /\ c.engine = e.engine /\ (e.engine => c = e)
  BY CancelRequestSound
<1>2. Invalidate(e, status, conn)
        = IF c.engine THEN IF conn THEN ReportEngineResult(idle, m, TRUE) ELSE n
          ELSE idle
  BY Zenon DEF Invalidate, AbortEngineToFirmware
<1> HIDE DEF c
<1>3. Sound(idle) /\ ~idle.engine /\ ~idle.inflight /\ idle.discard = c.discard
      /\ idle.comp = c.comp
  BY <1>1, StopSound
<1> HIDE DEF idle
<1>4. m \in Completion
  BY <1>1 DEF Sound, EndpointState, Completion
<1> HIDE DEF m
<1>5. Sound(n) /\ ~InService(n)
  BY <1>3, <1>4 DEF Sound, EndpointState, Owned, Room, InService
<1>6. c.engine => ~c.discard
  BY <1>1 DEF Sound, Owned
<1>7. c.engine => Sound(ReportEngineResult(idle, m, TRUE))
  BY <1>3, <1>4, <1>6, ReportSound DEF InService
<1>8. ~InService(ReportEngineResult(idle, m, TRUE))
  <2>1. idle \in EndpointState /\ Checked(idle, ~idle.inflight /\ ~idle.discard).engine = FALSE
    BY <1>3 DEF Sound, EndpointState, Checked
  <2> QED
    BY <2>1 DEF ReportEngineResult, InService, EndpointState, Checked
<1> QED
  BY <1>2, <1>3, <1>5, <1>7, <1>8 DEF InService

(* Queue reset and device reset leave no command behind, in either queue   *)
(* or in service.                                                          *)
LEMMA ResetsSound ==
    ASSUME NEW e, Sound(e), NEW conn \in BOOLEAN
    PROVE  /\ Sound(QueueReset(e, conn)) /\ Load(QueueReset(e, conn)) = 0
           /\ ~e.resetting => /\ Sound(DeviceReset(e, conn))
                              /\ Load(DeviceReset(e, conn)) = 0
<1>1. ASSUME NEW i, Sound(i), ~InService(i)
      PROVE  \A d \in {[i EXCEPT !.enabled = FALSE, !.sq = << >>, !.cq = << >>,
                                 !.backpressure = FALSE, !.current = FALSE],
                       [i EXCEPT !.enabled = FALSE, !.sq = << >>, !.cq = << >>,
                                 !.backpressure = FALSE, !.current = FALSE,
                                 !.resetting = TRUE]} :
                Sound(d) /\ Load(d) = 0
  <2>1. i \in EndpointState
    BY <1>1 DEF Sound
  <2> TAKE d \in {[i EXCEPT !.enabled = FALSE, !.sq = << >>, !.cq = << >>,
                            !.backpressure = FALSE, !.current = FALSE],
                  [i EXCEPT !.enabled = FALSE, !.sq = << >>, !.cq = << >>,
                            !.backpressure = FALSE, !.current = FALSE,
                            !.resetting = TRUE]}
  <2>2. << >> \in Seq(Submission) /\ << >> \in Seq(Completion)
    OBVIOUS
  <2>3. d \in EndpointState
    BY <2>1, <2>2 DEF EndpointState
  <2>4. /\ d.sq = << >> /\ d.cq = << >> /\ d.inflight = i.inflight /\ d.engine = i.engine
        /\ d.discard = i.discard /\ d.final = i.final /\ d.ackTimer = i.ackTimer
        /\ d.failed = i.failed
    BY <2>1 DEF EndpointState
  <2> QED
    BY <1>1, <2>3, <2>4, DepthAssumption DEF Sound, Owned, Room, InService, Load
<1>2. "QRESET" \in Status /\ "RESET" \in Status
  BY DEF Status
<1>3. Sound(QueueReset(e, conn)) /\ Load(QueueReset(e, conn)) = 0
  BY <1>1, <1>2, InvalidateSound DEF QueueReset
<1>4. ~e.resetting => Sound(DeviceReset(e, conn)) /\ Load(DeviceReset(e, conn)) = 0
  BY <1>1, <1>2, InvalidateSound DEF DeviceReset
<1> QED
  BY <1>3, <1>4

(* The engine reset of the host answers the command it cancels exactly     *)
(* once.                                                                   *)
LEMMA EngineResetSound ==
    ASSUME NEW e, Sound(e), NEW conn \in BOOLEAN
    PROVE  /\ Sound(EngineReset(e, conn))
           /\ Load(EngineReset(e, conn)) = Load(e)
<1> DEFINE idle == [CancelEngine(e) EXCEPT !.current = FALSE]
           m == [e.comp EXCEPT !.status = "RESET"]
<1>1. Sound(idle) /\ ~idle.engine /\ idle.inflight = e.inflight /\ idle.discard = e.discard
      /\ idle.cq = e.cq
      /\ (e.engine => Load(e) = Load(idle) + 1) /\ (~e.engine => Load(e) = Load(idle))
  BY StopSound
<1>2. m \in Completion /\ "RESET" \in Status
  BY DEF Sound, EndpointState, Completion, Status
<1>3. EngineReset(e, conn) = IF e.engine THEN ReportOrPublish(idle, m, "RESET", conn)
                             ELSE ProcessSq(idle, conn)
  BY Zenon DEF EngineReset
<1> HIDE DEF idle, m
<1>4. CASE e.engine
  <2>1. ~InService(idle) /\ ~idle.discard /\ Len(idle.cq) < CqDepth - 1
    BY <1>1, <1>4 DEF Sound, Owned, Room, InService
  <2> QED
    BY <1>1, <1>2, <1>3, <1>4, <2>1, ReportOrPublishSound
<1>5. CASE ~e.engine
  BY <1>1, <1>3, <1>5, ProcessSqSound
<1> QED
  BY <1>4, <1>5

(* vams_pcie_engine_complete finds its command current, and answers it     *)
(* exactly once.                                                           *)
LEMMA EngineCompleteSound ==
    ASSUME NEW e, Sound(e), e.engine, NEW status \in Status, NEW conn \in BOOLEAN
    PROVE  /\ Sound(EngineComplete(e, status, conn))
           /\ Load(EngineComplete(e, status, conn)) = Load(e)
<1> DEFINE idle == CancelEngine(e)
           m == [e.comp EXCEPT !.status = status]
<1>0. e \in EndpointState /\ ~e.failed /\ e.current
  BY DEF Sound, Owned
<1>1. Sound(idle) /\ ~idle.engine /\ idle.inflight = e.inflight /\ idle.discard = e.discard
      /\ idle.cq = e.cq /\ Load(e) = Load(idle) + 1
  BY StopSound
<1>2. m \in Completion
  BY DEF Sound, EndpointState, Completion
<1>3. EngineComplete(e, status, conn) = ReportOrPublish(idle, m, status, conn)
  BY <1>0, CheckedHolds, Zenon DEF EngineComplete
<1> HIDE DEF idle, m
<1>4. ~InService(idle) /\ ~idle.discard /\ Len(idle.cq) < CqDepth - 1
  BY <1>1 DEF Sound, Owned, Room, InService
<1> QED
  BY <1>1, <1>2, <1>3, <1>4, ReportOrPublishSound

(* The acknowledgement of a management reset moves no command. *)
LEMMA AckSound ==
    ASSUME NEW e, Sound(e), NEW c \in Completion, NEW conn \in BOOLEAN
    PROVE  /\ Sound(AckManagementReset(e, c, conn))
           /\ Load(AckManagementReset(e, c, conn)) = Load(e)
<1> DEFINE d == [e EXCEPT !.out = Append(@, CompletionUnit(c))]
<1>1. Append(e.out, CompletionUnit(c)) \in Seq(Unit)
  BY LinkValues DEF Sound, EndpointState
<1>2. Sound(d) /\ Load(d) = Load(e)
  BY <1>1 DEF Sound, EndpointState, Owned, Room, InService, Load
<1> QED
  BY <1>2 DEF AckManagementReset

(* A message while the engine runs, a reset notice, an abort or anything   *)
(* else, answers the running command exactly once.                         *)
LEMMA ReceiveRequestSound ==
    ASSUME NEW e, Sound(e), e.engine, NEW c \in Completion, NEW conn \in BOOLEAN
    PROVE  /\ Sound(ReceiveRequest(e, c, conn))
           /\ Load(ReceiveRequest(e, c, conn)) = Load(e)
<1> DEFINE idle == [CancelEngine(e) EXCEPT !.current = FALSE]
           p == PublishCompletion(idle, c)
           m == IF c.id = e.sub.id /\ c.status = "TIMED_OUT" THEN c
                ELSE MakeCompletion(e.sub.id, "FAILED")
<1>1. Sound(idle) /\ ~idle.engine /\ idle.inflight = e.inflight /\ idle.discard = e.discard
      /\ idle.cq = e.cq /\ Load(e) = Load(idle) + 1
  BY StopSound
<1>2. m \in Completion /\ "FAILED" \in Status
  BY LinkValues DEF Sound, EndpointState, Submission, Status
<1>3. ReceiveRequest(e, c, conn) \in
        {p, AckManagementReset(p, c, conn), ReportOrPublish(idle, m, "FAILED", conn)}
  BY Zenon DEF ReceiveRequest
<1> HIDE DEF idle, m
<1>4. ~InService(idle) /\ ~idle.discard /\ Len(idle.cq) < CqDepth - 1
  BY <1>1 DEF Sound, Owned, Room, InService
<1>5. Sound(p) /\ Load(p) = Load(e)
  BY <1>1, <1>4, PublishSound
<1> HIDE DEF p
<1>6. Sound(AckManagementReset(p, c, conn)) /\ Load(AckManagementReset(p, c, conn)) = Load(e)
  BY <1>5, AckSound
<1>7. /\ Sound(ReportOrPublish(idle, m, "FAILED", conn))
      /\ Load(ReportOrPublish(idle, m, "FAILED", conn)) = Load(e)
  BY <1>1, <1>2, <1>4, ReportOrPublishSound
<1> QED
  BY <1>3, <1>5, <1>6, <1>7

(* A reply is discarded, starts the engine or answers the command in       *)
(* service: in all cases the command stays in one place.                   *)
LEMMA ReceiveReplySound ==
    ASSUME NEW e, Sound(e), ~e.engine, e.inflight \/ e.discard,
           NEW c \in Completion, NEW conn \in BOOLEAN
    PROVE  /\ Sound(ReceiveReply(e, c, conn))
           /\ Load(ReceiveReply(e, c, conn)) = Load(e)
<1> DEFINE r == [e EXCEPT !.comp = c, !.inflight = FALSE, !.final = FALSE]
           d == [e EXCEPT !.discard = FALSE, !.ackTimer = FALSE, !.comp = c]
           p == PublishCompletion(r, c)
           a == AckManagementReset(p, c, conn)
<1>0. e \in EndpointState
  BY DEF Sound
<1>1. ReceiveReply(e, c, conn) =
        IF e.discard THEN ProcessSq(d, conn)
        ELSE IF ~e.final /\ c.status = "SUCCESS" /\ e.sub.payload THEN ScheduleEngine(r)
        ELSE ProcessSq(IF IsManagementReset(c) THEN a ELSE p, conn)
  BY Zenon DEF ReceiveReply
<1>2. CASE e.discard
  <2>1. Sound(d) /\ Load(d) = Load(e)
    BY <1>0, <1>2 DEF Sound, EndpointState, Owned, Room, InService, Load
  <2> QED
    BY <1>1, <1>2, <2>1, ProcessSqSound
<1>3. CASE ~e.discard
  <2>1. e.inflight
    BY <1>3
  <2>2. /\ r \in EndpointState /\ r.inflight = FALSE /\ r.final = FALSE /\ r.cq = e.cq
        /\ r.sq = e.sq /\ r.engine = e.engine /\ r.discard = e.discard /\ r.sub = e.sub
        /\ r.ackTimer = e.ackTimer /\ r.failed = e.failed
    BY <1>0 DEF EndpointState
  <2> HIDE DEF r
  <2>3. Sound(r) /\ ~InService(r) /\ Len(r.cq) < CqDepth - 1
    BY <2>1, <2>2 DEF Sound, Owned, Room, InService
  <2>4. Load(e) = Load(r) + 1
    <3>1. Len(e.sq) \in Nat /\ Len(e.cq) \in Nat /\ InService(e) /\ ~InService(r)
      BY <1>0, <2>1, <2>3 DEF EndpointState, InService
    <3> QED
      BY <2>2, <3>1 DEF Load
  <2>5. CASE e.sub.payload
    <3> DEFINE s == [r EXCEPT !.engine = TRUE, !.current = TRUE]
    <3>1. ScheduleEngine(r) = s
      BY <2>2, <2>3, <2>5, CheckedHolds DEF ScheduleEngine, Sound
    <3>2. s \in EndpointState /\ Owned(s) /\ ~s.failed
      BY <1>3, <2>2, <2>3, <2>5 DEF Sound, Owned, EndpointState
    <3>3. Room(s)
      BY <2>2, <2>3 DEF Room, InService, Sound, EndpointState
    <3>4. Load(s) = Load(r) + 1
      <4>1. s.sq = r.sq /\ s.cq = r.cq /\ InService(s) /\ ~InService(r)
        BY <2>2, <2>3 DEF InService, EndpointState
      <4>2. Len(r.sq) \in Nat /\ Len(r.cq) \in Nat
        BY <2>2 DEF EndpointState
      <4> QED
        BY <4>1, <4>2 DEF Load
    <3>5. Sound(ScheduleEngine(r)) /\ Load(ScheduleEngine(r)) = Load(e)
      BY <2>4, <3>1, <3>2, <3>3, <3>4 DEF Sound
    <3>6. Sound(p) /\ Load(p) = Load(e)
      BY <2>3, <2>4, PublishSound
    <3> HIDE DEF p
    <3>7. Sound(a) /\ Load(a) = Load(e)
      BY <3>6, AckSound
    <3> HIDE DEF a
    <3> QED
      BY <1>1, <1>3, <3>5, <3>6, <3>7, ProcessSqSound
  <2>6. CASE ~e.sub.payload
    <3>6. Sound(p) /\ Load(p) = Load(e)
      BY <2>3, <2>4, PublishSound
    <3> HIDE DEF p
    <3>7. Sound(a) /\ Load(a) = Load(e)
      BY <3>6, AckSound
    <3> HIDE DEF a
    <3> QED
      BY <1>1, <1>3, <2>6, <3>6, <3>7, ProcessSqSound
  <2> QED
    BY <2>5, <2>6
<1> QED
  BY <1>2, <1>3

(* When the firmware's socket closes, the command in service is answered   *)
(* as failed. Its slot is free, so the test for a full completion queue in *)
(* vams_pcie_bridge_event never drops it.                                  *)
LEMMA ClosedSound ==
    ASSUME NEW e, Sound(e), NEW conn \in BOOLEAN
    PROVE  /\ Sound(BridgeClosed(e, conn))
           /\ Load(BridgeClosed(e, conn)) = Load(e)
<1> DEFINE idle == [CancelEngine(e) EXCEPT !.inflight = FALSE, !.final = FALSE,
                        !.discard = FALSE, !.ackTimer = FALSE]
           m == MakeCompletion(e.sub.id, "FAILED")
           p == PublishCompletion(idle, m)
<1>1. e \in EndpointState
  BY DEF Sound
<1>2. BridgeClosed(e, conn) =
        IF ~e.inflight /\ ~e.discard /\ ~e.engine THEN e
        ELSE ProcessSq(IF ~e.discard /\ ~CqFull(e) THEN p ELSE idle, conn)
  BY Zenon DEF BridgeClosed
<1>3. m \in Completion
  BY <1>1, LinkValues DEF EndpointState, Submission, Status
<1>4. /\ idle \in EndpointState /\ ~idle.inflight /\ ~idle.final /\ ~idle.discard
      /\ ~idle.ackTimer /\ ~idle.engine /\ idle.cq = e.cq /\ idle.sq = e.sq
      /\ idle.failed = e.failed
  BY <1>1 DEF EndpointState, CancelEngine
<1> HIDE DEF idle, m
<1>5. Sound(idle) /\ ~InService(idle)
  BY <1>4 DEF Sound, Owned, Room, InService
<1>6. Len(e.sq) \in Nat /\ Len(e.cq) \in Nat
  BY <1>1 DEF EndpointState
<1>7. CASE e.discard
  <2>1. ~InService(e)
    BY <1>7 DEF Sound, Owned, InService
  <2>2. Load(idle) = Load(e)
    BY <1>4, <1>5, <1>6, <2>1 DEF Load
  <2> QED
    BY <1>2, <1>5, <1>7, <2>2, ProcessSqSound
<1>8. CASE ~e.discard /\ InService(e)
  <2>1. Len(e.cq) < CqDepth - 1 /\ ~CqFull(e)
    BY <1>6, <1>8, DepthAssumption DEF Sound, Room, CqFull
  <2>2. Load(e) = Load(idle) + 1
    BY <1>4, <1>5, <1>6, <1>8 DEF Load
  <2>3. Sound(p) /\ Load(p) = Load(e)
    BY <1>3, <1>4, <1>5, <2>1, <2>2, PublishSound
  <2> HIDE DEF p
  <2> QED
    BY <1>2, <1>8, <2>1, <2>3, ProcessSqSound DEF InService
<1>9. CASE ~e.discard /\ ~InService(e)
  BY <1>2, <1>9 DEF InService
<1> QED
  BY <1>7, <1>8, <1>9

(* vams_pcie_firmware_ack_timeout finds the discard it was armed for. *)
LEMMA TimeoutSound ==
    ASSUME NEW e, Sound(e), e.ackTimer, NEW conn \in BOOLEAN
    PROVE  /\ Sound(FirmwareAckTimeout(e, conn))
           /\ Load(FirmwareAckTimeout(e, conn)) = Load(e)
<1> DEFINE d == [e EXCEPT !.discard = FALSE, !.ackTimer = FALSE]
<1>1. e \in EndpointState /\ ~e.failed /\ e.discard
  BY DEF Sound, Owned
<1>2. FirmwareAckTimeout(e, conn) = ProcessSq(d, conn)
  BY <1>1, CheckedHolds, Zenon DEF FirmwareAckTimeout
<1>3. Sound(d) /\ Load(d) = Load(e)
  BY <1>1 DEF Sound, EndpointState, Owned, Room, InService, Load
<1> QED
  BY <1>2, <1>3, ProcessSqSound

-----------------------------------------------------------------------------
(* The steps *)

(* The inductive invariant: the endpoint is sound, and what the host is    *)
(* owed is what the endpoint holds.                                        *)
EndpointInv ==
    /\ Sound(ep) /\ owed = Load(ep)
    /\ up \in Seq(Completion) /\ connected \in BOOLEAN

(* Writing the output of a callback to the stream moves no command. *)
LEMMA PerformSound ==
    ASSUME NEW e, Sound(e), Perform(e)
    PROVE  Sound(ep') /\ Load(ep') = Load(e)
<1>1. << >> \in Seq(Unit) /\ e \in EndpointState
  BY DEF Sound
<1> QED
  BY <1>1 DEF Perform, Sound, EndpointState, Owned, Room, InService, Load

(* The doorbells of the host keep the invariant. *)
LEMMA CommandsStep ==
    ASSUME EndpointInv, Commands
    PROVE  EndpointInv'
<1>1. Sound(ep) /\ ep \in EndpointState /\ connected \in BOOLEAN
  BY DEF EndpointInv, Sound
<1>2. ASSUME NEW s \in HostCommands, HostSubmit(s)
      PROVE  EndpointInv'
  <2> DEFINE d == [ep EXCEPT !.sq = Append(@, s)]
  <2>1. s \in Submission
    BY HostAssumption
  <2>2. Append(ep.sq, s) \in Seq(Submission) /\ Len(Append(ep.sq, s)) = Len(ep.sq) + 1
    BY <1>1, <2>1 DEF EndpointState
  <2>3. Sound(d)
    BY <1>1, <2>2 DEF Sound, EndpointState, Owned, Room, InService
  <2>4. Load(d) = Load(ep) + 1
    BY <1>1, <2>2 DEF EndpointState, InService, Load
  <2>5. Perform(ProcessSq(d, connected)) /\ owed' = owed + 1 /\ UNCHANGED <<up, connected>>
    BY <1>2 DEF HostSubmit
  <2> HIDE DEF d
  <2> QED
    BY <1>1, <2>3, <2>4, <2>5, ProcessSqSound, PerformSound DEF EndpointInv
<1>3. CASE HostTake
  <2> DEFINE d == [ep EXCEPT !.cq = Tail(@)]
  <2>1. ep.cq # << >>
    BY <1>3 DEF HostTake
  <2>2. Tail(ep.cq) \in Seq(Completion) /\ Len(Tail(ep.cq)) = Len(ep.cq) - 1
    BY <1>1, <2>1 DEF EndpointState
  <2>3. Sound(d)
    <3>1. d \in EndpointState /\ Owned(d) /\ ~d.failed
      BY <1>1, <2>2 DEF Sound, EndpointState, Owned
    <3>2. /\ d.cq = Tail(ep.cq) /\ d.inflight = ep.inflight /\ d.engine = ep.engine
          /\ Len(ep.cq) \in Nat
      BY <1>1 DEF EndpointState
    <3> HIDE DEF d
    <3>3. Room(d)
      BY <1>1, <2>2, <3>2, DepthAssumption DEF Sound, Room, InService
    <3> QED
      BY <3>1, <3>3 DEF Sound
  <2>4. Load(d) = Load(ep) - 1
    BY <1>1, <2>2 DEF EndpointState, InService, Load
  <2>5. /\ Perform(ProcessSq(UpdateBackpressure(d), connected))
        /\ owed' = owed - 1 /\ UNCHANGED <<up, connected>>
    BY <1>3 DEF HostTake
  <2> HIDE DEF d
  <2> QED
    BY <1>1, <2>3, <2>4, <2>5, ProcessSqSound, BackpressureSound, PerformSound
       DEF EndpointInv
<1> QED
  BY <1>2, <1>3 DEF Commands

(* The resets, the end of a device reset and the new start keep it. *)
LEMMA ResetsStep ==
    ASSUME EndpointInv, Resets
    PROVE  EndpointInv'
<1>1. Sound(ep) /\ ep \in EndpointState /\ connected \in BOOLEAN
  BY DEF EndpointInv, Sound
<1>2. CASE HostQueueReset
  BY <1>1, <1>2, ResetsSound, PerformSound DEF HostQueueReset, EndpointInv
<1>3. CASE HostDeviceReset
  BY <1>1, <1>3, ResetsSound, PerformSound DEF HostDeviceReset, EndpointInv
<1>4. CASE HostEngineReset
  BY <1>1, <1>4, EngineResetSound, PerformSound DEF HostEngineReset, EndpointInv
<1>5. CASE HostEnable
  <2> DEFINE d == [ep EXCEPT !.enabled = TRUE]
  <2>1. Sound(d) /\ Load(d) = Load(ep)
    BY <1>1 DEF Sound, EndpointState, Owned, Room, InService, Load
  <2>2. Perform(ProcessSq(d, connected)) /\ UNCHANGED <<owed, up, connected>>
    BY <1>5 DEF HostEnable
  <2> HIDE DEF d
  <2> QED
    BY <1>1, <2>1, <2>2, ProcessSqSound, PerformSound DEF EndpointInv
<1>6. CASE ResetTimer
  <2>1. Sound([ep EXCEPT !.resetting = FALSE]) /\ Load([ep EXCEPT !.resetting = FALSE]) = Load(ep)
    BY <1>1 DEF Sound, EndpointState, Owned, Room, InService, Load
  <2> QED
    BY <1>6, <2>1 DEF ResetTimer, EndpointInv, linkVars
<1> QED
  BY <1>2, <1>3, <1>4, <1>5, <1>6 DEF Resets

(* The timers and the messages of the firmware keep it, whatever the       *)
(* firmware sends.                                                         *)
LEMMA CallbacksStep ==
    ASSUME EndpointInv, Callbacks
    PROVE  EndpointInv'
<1>1. Sound(ep) /\ ep \in EndpointState /\ connected \in BOOLEAN
  BY DEF EndpointInv, Sound
<1>2. CASE EngineTimer
  <2>1. \A st \in {"SUCCESS", "FAILED", "TIMED_OUT"} : st \in Status
    BY DEF Status
  <2> QED
    BY <1>1, <1>2, <2>1, EngineCompleteSound, PerformSound DEF EngineTimer, EndpointInv
<1>3. CASE AckTimer
  BY <1>1, <1>3, TimeoutSound, PerformSound DEF AckTimer, EndpointInv
<1>4. CASE EndpointReceive
  <2>1. Head(up) \in Completion /\ Tail(up) \in Seq(Completion)
    BY <1>4 DEF EndpointReceive, EndpointInv
  <2>2. /\ Sound(BridgeReceive(ep, Head(up), connected))
        /\ Load(BridgeReceive(ep, Head(up), connected)) = Load(ep)
    <3>1. ep.engine \/ ep.inflight \/ ep.discard
      BY <1>4 DEF EndpointReceive, CanReceiveReply
    <3> QED
      BY <1>1, <2>1, <3>1, ReceiveRequestSound, ReceiveReplySound DEF BridgeReceive
  <2> QED
    BY <1>4, <2>1, <2>2, PerformSound DEF EndpointReceive, EndpointInv
<1> QED
  BY <1>2, <1>3, <1>4 DEF Callbacks

(* A closing and reopening of the stream keeps it. *)
LEMMA LinkStep ==
    ASSUME EndpointInv,
           EndpointClosed \/ Disconnect \/ Connect \/ FirmwareSend \/ FirmwareTake
    PROVE  EndpointInv'
<1>1. Sound(ep) /\ ep \in EndpointState /\ connected \in BOOLEAN
  BY DEF EndpointInv, Sound
<1>2. ASSUME NEW e, Sound(e), NEW b \in BOOLEAN
      PROVE  Sound([e EXCEPT !.hup = b]) /\ Load([e EXCEPT !.hup = b]) = Load(e)
  BY <1>2 DEF Sound, EndpointState, Owned, Room, InService, Load
<1>3. CASE EndpointClosed
  <2> DEFINE c == BridgeClosed(ep, connected)
  <2>1. Perform([c EXCEPT !.hup = FALSE]) /\ UNCHANGED <<owed, up, connected>>
    BY <1>3 DEF EndpointClosed
  <2>2. Sound(c) /\ Load(c) = Load(ep)
    BY <1>1, ClosedSound
  <2> HIDE DEF c
  <2> QED
    BY <1>2, <2>1, <2>2, PerformSound DEF EndpointInv
<1>4. CASE Disconnect
  <2>1. up' \in Seq(Completion) /\ connected' \in BOOLEAN
    <3>1. << >> \in Seq(Completion)
      OBVIOUS
    <3> QED
      BY <1>4, <3>1 DEF Disconnect
  <2>2. Sound(ep') /\ Load(ep') = Load(ep) /\ owed' = owed
    BY <1>1, <1>2, <1>4 DEF Disconnect
  <2> QED
    BY <2>1, <2>2 DEF EndpointInv
<1>5. CASE Connect
  BY <1>5 DEF Connect, EndpointInv
<1>6. CASE FirmwareSend
  BY <1>6, HostAssumption DEF FirmwareSend, EndpointInv
<1>7. CASE FirmwareTake
  BY <1>7 DEF FirmwareTake, EndpointInv
<1> QED
  BY <1>3, <1>4, <1>5, <1>6, <1>7

(* Every step keeps the invariant. *)
LEMMA NextInv == EndpointInv /\ [Next]_vars => EndpointInv'
<1>1. EndpointInv /\ UNCHANGED vars => EndpointInv'
  BY DEF EndpointInv, vars, linkVars
<1> QED
  BY <1>1, CommandsStep, ResetsStep, CallbacksStep, LinkStep DEF Next

(* The invariant holds at the start. *)
LEMMA InitInv == Init => EndpointInv
BY InitSound DEF Init, LinkInit, EndpointInv

(* No g_assert of the endpoint fails, whatever the firmware sends,         *)
(* whenever the host resets and whatever the depths of the queues are; and *)
(* vams_pcie_check_invariants holds in every state.                        *)
THEOREM AssertionsTheorem == Spec => []AssertionsHold
<1>1. EndpointInv => AssertionsHold
  BY DEF EndpointInv, Sound, Owned, AssertionsHold
<1> QED
  BY <1>1, InitInv, NextInv, PTL DEF Spec

(* Every command of the host is in the submission queue, in service or     *)
(* answered in the completion queue, in exactly one of them: the endpoint  *)
(* loses no command and answers none twice.                                *)
THEOREM AnswersTheorem == Spec => []OneAnswerEach
<1>1. EndpointInv => OneAnswerEach
  BY DEF EndpointInv, Load, InService, OneAnswerEach
<1> QED
  BY <1>1, InitInv, NextInv, PTL DEF Spec
=============================================================================
