------------------------- MODULE DriverUnwindProofs -------------------------
(***************************************************************************)
(* What the driver holds at every step of probe, of the unwinding and of a *)
(* removal, for any number of files and resets and any interleaving of     *)
(* handlers, works and system calls; and who still uses it: the handlers,  *)
(* the works and the callers before BAR0 and the rings go, the endpoint's  *)
(* queues before their rings do.                                           *)
(***************************************************************************)
EXTENDS DriverLifecycle, FiniteSetTheorems, TLAPS

-----------------------------------------------------------------------------
(* The invariant *)

(* what is held apart from OfDevice when probe comes to a step *)
Rings(dma) == IF dma THEN {"rings"} ELSE {}

Mapped(dma) == {"enable", "region", "bar"} \cup Rings(dma)

HeldAt(s, dma) ==
    CASE s = "enable"   -> {}
      [] s = "region"   -> {"enable"}
      [] s = "bar"      -> {"enable", "region"}
      [] s \in {"validate", "rings"} -> {"enable", "region", "bar"}
      [] s = "vectors"  -> Mapped(dma)
      [] s = "cqirq"    -> Mapped(dma) \cup {"vectors"}
      [] s = "asyncirq" -> Mapped(dma) \cup {"vectors", "cqirq"}
      [] s = "master"   -> Mapped(dma) \cup {"vectors", "cqirq", "asyncirq"}
      [] OTHER          -> Mapped(dma) \cup {"vectors", "cqirq", "asyncirq",
                                             "master", "drvdata"}

(* what the way back releases from a step on *)
Last(mode) == IF mode = "remove" THEN {"drvdata"} ELSE {}

AheadOf(s, dma, mode) ==
    CASE s = "put"      -> Last(mode)
      [] s = "enable"   -> {"enable"} \cup Last(mode)
      [] s = "region"   -> {"enable", "region"} \cup Last(mode)
      [] s = "bar"      -> {"enable", "region", "bar"} \cup Last(mode)
      [] s = "rings"    -> Mapped(dma) \cup Last(mode)
      [] s \in {"vectors", "cancelrequests", "resetcancel"}
                        -> Mapped(dma) \cup {"vectors"} \cup Last(mode)
      [] s = "cqirq"    -> Mapped(dma) \cup {"vectors", "cqirq"} \cup Last(mode)
      [] s = "asyncirq" -> Mapped(dma) \cup {"vectors", "cqirq", "asyncirq"} \cup Last(mode)
      [] s \in {"quiesce", "pollcancel"}
                        -> Mapped(dma) \cup {"vectors", "cqirq", "asyncirq",
                                             "master", "drvdata"}
      [] OTHER          -> Mapped(dma) \cup {"vectors", "cqirq", "asyncirq",
                                             "master", "drvdata", "misc"}

ProbeAt == {"enable", "region", "bar", "validate", "rings", "vectors", "cqirq",
            "asyncirq", "master", "unmask", "irqtest", "noptest", "polltest", "chardev"}

ExitAt == {"removing", "misc", "pollcancel", "quiesce", "asyncirq", "cqirq",
           "resetcancel", "cancelrequests", "vectors", "rings", "bar", "region",
           "enable", "put"}

VdType ==
    [refs : Int, freed : BOOLEAN, removing : BOOLEAN, ready : BOOLEAN,
     dma : BOOLEAN, instance : BOOLEAN, stale : BOOLEAN, left : {{}}]

FileType ==
    [refs : Int, open : BOOLEAN, tracked : BOOLEAN, filed : BOOLEAN,
     uses : BOOLEAN, buffer : Int, used : BOOLEAN]

DevType ==
    [masked : BOOLEAN, msi : SUBSET Vectors, on : BOOLEAN, pending : SUBSET Vectors,
     reset : {"none", "engine", "queue", "device"}, resets : Int]

WorkType == [queued : SUBSET Works, running : SUBSET Works]

OnPath ==
    /\ thread \in [mode : {"probe", "bound", "unwind", "remove", "end"},
                   at : ProbeAt \cup ExitAt \cup {"bound", "end"}]
    /\ thread.mode = "probe" => thread.at \in ProbeAt
    /\ thread.mode \in {"unwind", "remove"} => thread.at \in ExitAt

Types ==
    /\ OnPath
    /\ vd \in VdType /\ dev \in DevType
    /\ work \in WorkType
    /\ file \in [Files -> FileType]
    /\ call \in [Files -> {"none", "submit", "drained", "poll", "pollread"}]

(* what is held apart from OfDevice, wherever the thread is *)
Holding(th, dma) ==
    CASE th.mode = "probe" -> HeldAt(th.at, dma)
      [] th.mode = "bound" -> AheadOf("removing", dma, "remove")
      [] th.mode \in {"unwind", "remove"} -> AheadOf(th.at, dma, th.mode)
      [] OTHER -> {}

Held ==
    /\ res \ OfDevice = Holding(thread, vd.dma)
    /\ ~vd.freed => (vd.instance <=> "instance" \in res) /\ "pdev" \in res
    /\ thread.mode = "probe" => ~vd.instance

-----------------------------------------------------------------------------
(* The order of the steps *)

LEMMA ProbeOrder ==
    /\ After(ProbeSteps, "enable") = "region"
    /\ After(ProbeSteps, "region") = "bar"
    /\ After(ProbeSteps, "bar") = "validate"
    /\ After(ProbeSteps, "validate") = "rings"
    /\ After(ProbeSteps, "rings") = "vectors"
    /\ After(ProbeSteps, "vectors") = "cqirq"
    /\ After(ProbeSteps, "cqirq") = "asyncirq"
    /\ After(ProbeSteps, "asyncirq") = "master"
    /\ After(ProbeSteps, "master") = "unmask"
    /\ After(ProbeSteps, "unmask") = "irqtest"
    /\ After(ProbeSteps, "irqtest") = "noptest"
    /\ After(ProbeSteps, "noptest") = "polltest"
    /\ After(ProbeSteps, "polltest") = "chardev"
<1>1. \A i, j \in 1 .. 14 : ProbeSteps[i] = ProbeSteps[j] => i = j
  BY DEF ProbeSteps
<1>2. \A n \in 1 .. 13 : After(ProbeSteps, ProbeSteps[n]) = ProbeSteps[n + 1]
  <2> TAKE n \in 1 .. 13
  <2>1. Len(ProbeSteps) = 14
    BY DEF ProbeSteps
  <2>2. (CHOOSE i \in 1 .. Len(ProbeSteps) : ProbeSteps[i] = ProbeSteps[n]) = n
    BY <1>1, <2>1
  <2> QED
    BY <2>2 DEF After
<1> QED
  BY <1>2 DEF ProbeSteps

LEMMA ExitOrder ==
    /\ After(ExitSteps, "removing") = "misc"
    /\ After(ExitSteps, "misc") = "pollcancel"
    /\ After(ExitSteps, "pollcancel") = "quiesce"
    /\ After(ExitSteps, "quiesce") = "asyncirq"
    /\ After(ExitSteps, "asyncirq") = "cqirq"
    /\ After(ExitSteps, "cqirq") = "resetcancel"
    /\ After(ExitSteps, "resetcancel") = "cancelrequests"
    /\ After(ExitSteps, "cancelrequests") = "vectors"
    /\ After(ExitSteps, "vectors") = "rings"
    /\ After(ExitSteps, "rings") = "bar"
    /\ After(ExitSteps, "bar") = "region"
    /\ After(ExitSteps, "region") = "enable"
    /\ After(ExitSteps, "enable") = "put"
<1>1. \A i, j \in 1 .. 14 : ExitSteps[i] = ExitSteps[j] => i = j
  BY DEF ExitSteps
<1>2. \A n \in 1 .. 13 : After(ExitSteps, ExitSteps[n]) = ExitSteps[n + 1]
  <2> TAKE n \in 1 .. 13
  <2>1. Len(ExitSteps) = 14
    BY DEF ExitSteps
  <2>2. (CHOOSE i \in 1 .. Len(ExitSteps) : ExitSteps[i] = ExitSteps[n]) = n
    BY <1>1, <2>1
  <2> QED
    BY <2>2 DEF After
<1> QED
  BY <1>2 DEF ExitSteps

(* AheadOf is what UnwindIsExact speaks of. *)
Ahead(s) == UNION {Releases(t) : t \in From(ExitSteps, s)}

LEMMA AheadOrder ==
    /\ Ahead("put") = Releases("put")
    /\ Ahead("enable") = Releases("enable") \cup Ahead("put")
    /\ Ahead("region") = Releases("region") \cup Ahead("enable")
    /\ Ahead("bar") = Releases("bar") \cup Ahead("region")
    /\ Ahead("rings") = Releases("rings") \cup Ahead("bar")
    /\ Ahead("vectors") = Releases("vectors") \cup Ahead("rings")
    /\ Ahead("cancelrequests") = Releases("cancelrequests") \cup Ahead("vectors")
    /\ Ahead("resetcancel") = Releases("resetcancel") \cup Ahead("cancelrequests")
    /\ Ahead("cqirq") = Releases("cqirq") \cup Ahead("resetcancel")
    /\ Ahead("asyncirq") = Releases("asyncirq") \cup Ahead("cqirq")
    /\ Ahead("quiesce") = Releases("quiesce") \cup Ahead("asyncirq")
    /\ Ahead("pollcancel") = Releases("pollcancel") \cup Ahead("quiesce")
    /\ Ahead("misc") = Releases("misc") \cup Ahead("pollcancel")
    /\ Ahead("removing") = Releases("removing") \cup Ahead("misc")
<1>1. \A i, j \in 1 .. 14 : ExitSteps[i] = ExitSteps[j] => i = j
  BY DEF ExitSteps
<1>2. Len(ExitSteps) = 14
  BY DEF ExitSteps
<1>3. \A n \in 1 .. 14 : From(ExitSteps, ExitSteps[n]) = {ExitSteps[j] : j \in n .. 14}
  <2> TAKE n \in 1 .. 14
  <2>1. (CHOOSE i \in 1 .. Len(ExitSteps) : ExitSteps[i] = ExitSteps[n]) = n
    BY <1>1, <1>2
  <2> QED
    BY <2>1, <1>2 DEF From
<1>4. \A n \in 1 .. 13 :
         Ahead(ExitSteps[n]) = Releases(ExitSteps[n]) \cup Ahead(ExitSteps[n + 1])
  <2> TAKE n \in 1 .. 13
  <2>1. From(ExitSteps, ExitSteps[n]) = {ExitSteps[n]} \cup From(ExitSteps, ExitSteps[n + 1])
    <3>1. n .. 14 = {n} \cup (n + 1) .. 14 /\ n \in 1 .. 14 /\ n + 1 \in 1 .. 14
      OBVIOUS
    <3>2. {ExitSteps[j] : j \in n .. 14} = {ExitSteps[n]} \cup {ExitSteps[j] : j \in (n + 1) .. 14}
      BY <3>1, Zenon
    <3> QED
      BY <1>3, <3>1, <3>2
  <2> QED
    BY <2>1, Zenon DEF Ahead
<1>5. Ahead(ExitSteps[14]) = Releases(ExitSteps[14])
  <2>1. 14 .. 14 = {14}
    OBVIOUS
  <2>2. {ExitSteps[j] : j \in {14}} = {ExitSteps[14]}
    BY Zenon
  <2>3. From(ExitSteps, ExitSteps[14]) = {ExitSteps[14]}
    BY <1>3, <2>1, <2>2
  <2> QED
    BY <2>3, Zenon DEF Ahead
<1> QED
  BY <1>4, <1>5 DEF ExitSteps

LEMMA AheadIs ==
    ASSUME thread.mode \in {"unwind", "remove"}, thread.at \in ExitAt
    PROVE  Ahead(thread.at) = AheadOf(thread.at, vd.dma, thread.mode)
<1> DEFINE A(s) == AheadOf(s, vd.dma, thread.mode)
<1>1. Ahead("put") = A("put")
  BY AheadOrder DEF Releases, AheadOf, Mapped, Rings, Last
<1>2. Ahead("enable") = A("enable")
  BY AheadOrder, <1>1 DEF Releases, AheadOf, Mapped, Rings, Last
<1>3. Ahead("region") = A("region")
  BY AheadOrder, <1>2 DEF Releases, AheadOf, Mapped, Rings, Last
<1>4. Ahead("bar") = A("bar")
  BY AheadOrder, <1>3 DEF Releases, AheadOf, Mapped, Rings, Last
<1>5. Ahead("rings") = A("rings")
  BY AheadOrder, <1>4 DEF Releases, AheadOf, Mapped, Rings, Last
<1>6. Ahead("vectors") = A("vectors")
  BY AheadOrder, <1>5 DEF Releases, AheadOf, Mapped, Rings, Last
<1>7. Ahead("cancelrequests") = A("cancelrequests")
  BY AheadOrder, <1>6 DEF Releases, AheadOf, Mapped, Rings, Last
<1>8. Ahead("resetcancel") = A("resetcancel")
  BY AheadOrder, <1>7 DEF Releases, AheadOf, Mapped, Rings, Last
<1>9. Ahead("cqirq") = A("cqirq")
  BY AheadOrder, <1>8 DEF Releases, AheadOf, Mapped, Rings, Last
<1>10. Ahead("asyncirq") = A("asyncirq")
  BY AheadOrder, <1>9 DEF Releases, AheadOf, Mapped, Rings, Last
<1>11. Ahead("quiesce") = A("quiesce")
  BY AheadOrder, <1>10 DEF Releases, AheadOf, Mapped, Rings, Last
<1>12. Ahead("pollcancel") = A("pollcancel")
  BY AheadOrder, <1>11 DEF Releases, AheadOf, Mapped, Rings, Last
<1>13. Ahead("misc") = A("misc")
  BY AheadOrder, <1>12 DEF Releases, AheadOf, Mapped, Rings, Last
<1>14. Ahead("removing") = A("removing")
  BY AheadOrder, <1>13 DEF Releases, AheadOf, Mapped, Rings, Last
<1> QED
  BY <1>1, <1>2, <1>3, <1>4, <1>5, <1>6, <1>7, <1>8, <1>9, <1>10, <1>11, <1>12, <1>13, <1>14 DEF ExitAt

-----------------------------------------------------------------------------
(* References *)

(* the fields only probe and the way back change *)
Alike(u, v) ==
    /\ u.removing = v.removing /\ u.dma = v.dma
    /\ u.instance = v.instance /\ u.freed = v.freed

(* vd' and res' after references were put in a step that makes them v and r *)
Puts(v, r) ==
    /\ vd' \in VdType
    /\ vd'.removing = v.removing /\ vd'.ready = v.ready /\ vd'.dma = v.dma
    /\ vd'.instance = v.instance /\ vd'.stale = v.stale
    /\ res' \ OfDevice = r \ OfDevice
    /\ ~vd'.freed => ~v.freed /\ res' = r

(* The release of the device gives back nothing but OfDevice. *)
LEMMA DevicePuts ==
    ASSUME NEW v \in VdType, NEW r, NEW n \in Nat, DevicePut(v, r, n)
    PROVE  Puts(v, r)
<1> DEFINE last == n > 0 /\ v.refs = n
<1>1. /\ vd' = [v EXCEPT !.refs = @ - n, !.freed = @ \/ last]
      /\ res' = IF last THEN r \ OfDevice ELSE r
  BY DEF DevicePut
<1>2. [v EXCEPT !.refs = @ - n] \in VdType
  BY DEF VdType
<1>3. (v.freed \/ last) \in BOOLEAN
  OBVIOUS
<1>4. vd' = [[v EXCEPT !.refs = @ - n] EXCEPT !.freed = v.freed \/ last]
  BY <1>1 DEF VdType
<1>5. vd' \in VdType
  BY <1>2, <1>3, <1>4 DEF VdType
<1>6. /\ vd'.removing = v.removing /\ vd'.ready = v.ready /\ vd'.dma = v.dma
      /\ vd'.instance = v.instance /\ vd'.stale = v.stale
      /\ vd'.freed = (v.freed \/ last)
  BY <1>1 DEF VdType
<1>7. res' \ OfDevice = r \ OfDevice
  BY <1>1
<1>8. ~vd'.freed => ~v.freed /\ res' = r
  BY <1>1, <1>6
<1> QED
  BY <1>5, <1>6, <1>7, <1>8 DEF Puts

LEMMA FilePuts ==
    ASSUME NEW fl \in [Files -> FileType], NEW v \in VdType, NEW r,
           NEW S \in SUBSET Files, FilePut(fl, v, r, S)
    PROVE  /\ Puts(v, r) /\ file' \in [Files -> FileType]
           /\ \A f \in Files : file'[f].open = fl[f].open
<1>1. Cardinality({f \in S : fl[f].refs = 1}) \in Nat
  <2>1. {f \in S : fl[f].refs = 1} \subseteq Files
    OBVIOUS
  <2>2. IsFiniteSet({f \in S : fl[f].refs = 1})
    BY <2>1, FS_Subset, LifecycleAssumption
  <2> QED
    BY <2>2, FS_CardinalityType
<1>2. Puts(v, r)
  BY <1>1, DevicePuts DEF FilePut
<1>3. \A q \in FileType : /\ [q EXCEPT !.refs = @ - 1] \in FileType
                           /\ [q EXCEPT !.refs = @ - 1].open = q.open
  BY DEF FileType
<1>4. file' = [f \in Files |-> IF f \in S THEN [fl[f] EXCEPT !.refs = @ - 1] ELSE fl[f]]
  BY DEF FilePut
<1> QED
  BY <1>2, <1>3, <1>4

LEMMA GoneType ==
    ASSUME NEW q \in FileType
    PROVE  RequestGone(q) \in FileType /\ RequestGone(q).open = q.open
<1>1. (IF q.uses THEN q.buffer - 1 ELSE q.buffer) \in Int
  BY DEF FileType
<1>2. [q EXCEPT !.buffer = IF q.uses THEN q.buffer - 1 ELSE q.buffer] \in FileType
  BY <1>1 DEF FileType
<1>3. RequestGone(q) = [[q EXCEPT !.buffer = IF q.uses THEN q.buffer - 1 ELSE q.buffer]
                        EXCEPT !.uses = FALSE]
  BY DEF RequestGone, FileType
<1> QED
  BY <1>2, <1>3 DEF FileType

LEMMA FinishPuts ==
    ASSUME file \in [Files -> FileType], NEW v \in VdType, NEW r,
           NEW S \in SUBSET Files, Finish(S, v, r)
    PROVE  /\ Puts(v, r) /\ file' \in [Files -> FileType]
           /\ \A f \in Files : file'[f].open = file[f].open
<1> DEFINE gone == {f \in S : ~file[f].filed}
           done(f) == [file[f] EXCEPT !.tracked = FALSE]
           fl == [f \in Files |->
                    IF f \notin S THEN file[f]
                    ELSE IF f \in gone THEN RequestGone(done(f)) ELSE done(f)]
<1>1. \A f \in Files : done(f) \in FileType /\ done(f).open = file[f].open
  BY DEF FileType
<1>2. \A f \in Files : /\ RequestGone(done(f)) \in FileType
                       /\ RequestGone(done(f)).open = file[f].open
  BY <1>1, GoneType
<1> HIDE DEF done
<1>3. fl \in [Files -> FileType] /\ \A f \in Files : fl[f].open = file[f].open
  BY <1>1, <1>2
<1>4. FilePut(fl, v, r, gone)
  BY DEF Finish, done
<1> HIDE DEF fl
<1> QED
  BY <1>3, <1>4, FilePuts

-----------------------------------------------------------------------------
(* The endpoint and the works *)

LEMMA RaiseType ==
    ASSUME NEW d \in DevType, NEW v \in Vectors
    PROVE  /\ Raise(d, v) \in DevType
           /\ Raise(d, v).on = d.on /\ Raise(d, v).reset = d.reset
<1> DEFINE m == IF Masked(d, v) \/ ~({"vectors", "master"} \subseteq res)
                THEN d.msi ELSE d.msi \cup {v}
<1>1. m \in SUBSET Vectors /\ d.pending \cup {v} \in SUBSET Vectors
  BY DEF DevType
<1>2. Raise(d, v) = [[d EXCEPT !.pending = d.pending \cup {v}] EXCEPT !.msi = m]
  BY DEF Raise, DevType
<1> HIDE DEF m
<1>3. [d EXCEPT !.pending = d.pending \cup {v}] \in DevType
  BY <1>1 DEF DevType
<1> QED
  BY <1>1, <1>2, <1>3 DEF DevType

LEMMA UnmaskType ==
    ASSUME NEW d \in DevType, NEW M
    PROVE  /\ Unmask(d, M) \in DevType
           /\ Unmask(d, M).on = d.on /\ Unmask(d, M).reset = d.reset
<1>1. [d EXCEPT !.masked = FALSE] \in DevType
  BY DEF DevType
<1>2. Unmask(d, M) = [[d EXCEPT !.masked = FALSE] EXCEPT !.msi = d.msi \cup (d.pending \ M)]
  BY DEF Unmask, DevType
<1>3. d.msi \cup (d.pending \ M) \in SUBSET Vectors
  BY DEF DevType
<1> QED
  BY <1>1, <1>2, <1>3 DEF DevType

LEMMA QueueType ==
    ASSUME NEW ws \in WorkType, NEW w \in Works
    PROVE  /\ Queue(ws, w) \in WorkType /\ Queue(ws, w).running = ws.running
           /\ Queue(ws, w).queued \subseteq ws.queued \cup {w}
  BY DEF Queue, WorkType

LEMMA SetStale ==
    ASSUME NEW v \in VdType
    PROVE  /\ \A u : u = [v EXCEPT !.stale = TRUE] =>
                 u \in VdType /\ u.stale /\ u.ready = v.ready /\ Alike(u, v)
           /\ \A u : u = [v EXCEPT !.stale = FALSE] =>
                 u \in VdType /\ ~u.stale /\ u.ready = v.ready /\ Alike(u, v)
  BY DEF VdType, Alike

LEMMA ObserveType ==
    ASSUME NEW v \in VdType, NEW ws \in WorkType
    PROVE  /\ ObserveReset(v, ws).vd \in VdType
           /\ Alike(ObserveReset(v, ws).vd, v)
           /\ ObserveReset(v, ws).vd.ready = v.ready
           /\ ~v.stale /\ dev.reset \notin {"queue", "device"} =>
                 ~ObserveReset(v, ws).vd.stale
           /\ ObserveReset(v, ws).work \in WorkType
           /\ ObserveReset(v, ws).work.running = ws.running
           /\ ObserveReset(v, ws).work.queued \subseteq ws.queued \cup {"reset"}
<1>1. CASE dev.reset = "none"
  BY <1>1 DEF ObserveReset, Alike
<1>2. CASE dev.reset # "none"
  <2>1. /\ ObserveReset(v, ws).vd = [v EXCEPT !.stale = dev.reset \in {"queue", "device"}]
        /\ ObserveReset(v, ws).work = Queue(ws, "reset")
    BY <1>2 DEF ObserveReset
  <2>3. /\ ObserveReset(v, ws).vd \in VdType
        /\ dev.reset \notin {"queue", "device"} => ~ObserveReset(v, ws).vd.stale
        /\ ObserveReset(v, ws).vd.ready = v.ready
        /\ Alike(ObserveReset(v, ws).vd, v)
    <3>1. CASE dev.reset \in {"queue", "device"}
      <4>0. (dev.reset \in {"queue", "device"}) = TRUE
        BY <3>1, Zenon
      <4>1. ObserveReset(v, ws).vd = [v EXCEPT !.stale = TRUE]
        BY <2>1, <4>0, Zenon
      <4> QED
        BY <4>1, <3>1, SetStale
    <3>2. CASE dev.reset \notin {"queue", "device"}
      <4>0. (dev.reset \in {"queue", "device"}) = FALSE
        BY <3>2
      <4>1. ObserveReset(v, ws).vd = [v EXCEPT !.stale = FALSE]
        BY <2>1, <4>0, Zenon
      <4> QED
        BY <4>1, <3>2, SetStale
    <3> QED
      BY <3>1, <3>2
  <2>4. "reset" \in Works
    BY DEF Works
  <2> QED
    BY <2>1, <2>3, <2>4, QueueType
<1> QED
  BY <1>1, <1>2

-----------------------------------------------------------------------------
(* Handlers, works, the endpoint and system calls *)

(* They leave what the driver holds alone, apart from the last reference. *)
Apart ==
    /\ thread' = thread /\ vd' \in VdType
    /\ vd'.removing = vd.removing /\ vd'.dma = vd.dma /\ vd'.instance = vd.instance
    /\ res' \ OfDevice = res \ OfDevice
    /\ ~vd'.freed => ~vd.freed /\ res' = res

LEMMA EndpointTypes ==
    ASSUME Types,
           \/ EndpointCompletes
           \/ EngineReset \/ \E k \in {"queue", "device"} : EndpointReset(k)
           \/ \E v \in Vectors : IrqStart(v)
    PROVE  Types' /\ Apart
<1>0. dev \in DevType /\ "cqirq" \in Vectors /\ "asyncirq" \in Vectors
  BY DEF Types, Vectors
<1>1. CASE EndpointCompletes
  BY <1>0, <1>1, RaiseType DEF EndpointCompletes, Types, OnPath, Apart
<1>2. ASSUME NEW k \in {"queue", "device"}, EndpointReset(k)
      PROVE  Types' /\ Apart
  <2> DEFINE d == [dev EXCEPT !.reset = k, !.resets = @ + 1, !.on = FALSE,
                              !.masked = @ \/ k = "device"]
  <2>1. d \in DevType
    <3>1. (dev.masked \/ k = "device") \in BOOLEAN
      OBVIOUS
    <3>2. \A c \in BOOLEAN :
             [dev EXCEPT !.reset = k, !.resets = @ + 1, !.on = FALSE, !.masked = c]
                \in DevType
      <4> TAKE c \in BOOLEAN
      <4>1. dev.resets + 1 \in Int /\ k \in {"none", "engine", "queue", "device"}
        BY <1>0 DEF DevType
      <4> QED
        BY <1>0, <4>1, Zenon DEF DevType
    <3> QED
      BY <3>1, <3>2
  <2>2. dev' = IF k = "device" THEN Raise(d, "asyncirq") ELSE d
    BY <1>2 DEF EndpointReset
  <2> HIDE DEF d
  <2>3. dev' \in DevType
    BY <1>0, <2>1, <2>2, RaiseType
  <2> QED
    BY <1>2, <2>3 DEF EndpointReset, Types, OnPath, Apart
<1>4. CASE EngineReset
  <2>1. [dev EXCEPT !.reset = "engine"] \in DevType
    BY <1>0 DEF DevType
  <2> QED
    BY <1>4, <2>1 DEF EngineReset, Types, OnPath, Apart
<1>3. ASSUME NEW v \in Vectors, IrqStart(v) PROVE Types' /\ Apart
  <2>1. [dev EXCEPT !.msi = @ \ {v}] \in DevType
    BY <1>0 DEF DevType
  <2> QED
    BY <1>3, <2>1 DEF IrqStart, Types, OnPath, Apart
<1> QED
  BY <1>1, <1>2, <1>3, <1>4

(* They make the queues unready after a reset, and acknowledge it. *)
Settles ==
    /\ dev'.on = dev.on /\ dev'.reset \in {dev.reset, "none"}
    /\ vd.ready /\ ~vd.stale => vd'.ready
    /\ ~vd.ready => ~vd'.ready
    /\ ~vd.stale /\ dev.reset \notin {"queue", "device"} => ~vd'.stale

LEMMA ContextTypes ==
    ASSUME Types,
           CqIrq \/ AsyncIrq \/ PollWork \/ ResetWork \/ \E w \in Works : WorkStart(w)
    PROVE  /\ Types' /\ Apart /\ Settles
           /\ \A f \in Files : file'[f].open = file[f].open
<1>0. /\ dev \in DevType /\ vd \in VdType /\ work \in WorkType
      /\ file \in [Files -> FileType]
  BY DEF Types
<1>t. ASSUME NEW S \in SUBSET Tracked PROVE S \in SUBSET Files
  BY DEF Tracked
<1>1. CASE CqIrq
  <2>1. PICK S \in SUBSET Tracked : Finish(S, vd, res)
    BY <1>1 DEF CqIrq
  <2>2. /\ Puts(vd, res) /\ file' \in [Files -> FileType]
        /\ \A f \in Files : file'[f].open = file[f].open
    BY <1>0, <1>t, <2>1, FinishPuts
  <2>3. dev' \in DevType /\ dev'.on = dev.on /\ dev'.reset = dev.reset
    BY <1>0, <1>1 DEF CqIrq, DevType
  <2>4. Settles
    BY <2>2, <2>3 DEF Settles, Puts
  <2> QED
    BY <1>1, <2>2, <2>3, <2>4 DEF CqIrq, Types, OnPath, Apart, Puts
<1>2. CASE AsyncIrq
  <2>1. dev' \in DevType
    <3>1. [dev EXCEPT !.pending = @ \ {"asyncirq"}] \in DevType
      BY <1>0 DEF DevType
    <3> QED
      BY <1>0, <1>2, <3>1 DEF AsyncIrq, DevType
  <2>2. vd' = ObserveReset(vd, work).vd /\ work' = ObserveReset(vd, work).work
    BY <1>2 DEF AsyncIrq
  <2>3. vd' \in VdType /\ Alike(vd', vd) /\ work' \in WorkType
    BY <1>0, <2>2, ObserveType
  <2>4. dev'.on = dev.on /\ dev'.reset = "none"
    BY <1>0, <1>2 DEF AsyncIrq, DevType
  <2>5. Settles
    BY <1>0, <2>2, <2>4, ObserveType DEF Settles
  <2> QED
    BY <1>2, <2>1, <2>3, <2>5 DEF AsyncIrq, Types, OnPath, Apart, Alike
<1>3. CASE PollWork
  <2> DEFINE ws == [work EXCEPT !.running = @ \ {"poll"}]
             seen == ObserveReset(vd, ws)
  <2>1. ws \in WorkType
    BY <1>0 DEF WorkType
  <2>2. /\ seen.vd \in VdType /\ Alike(seen.vd, vd) /\ seen.work \in WorkType
        /\ seen.vd.ready = vd.ready
        /\ ~vd.stale /\ dev.reset \notin {"queue", "device"} => ~seen.vd.stale
    BY <1>0, <2>1, ObserveType
  <2>3. PICK S \in SUBSET Tracked :
           /\ Finish(S, seen.vd, res)
           /\ work' = IF Tracked \ S # {} \/ test' = "tracked"
                      THEN Queue(seen.work, "poll") ELSE seen.work
    BY <1>3 DEF PollWork
  <2> HIDE DEF seen
  <2>4. /\ Puts(seen.vd, res) /\ file' \in [Files -> FileType]
        /\ \A f \in Files : file'[f].open = file[f].open
    BY <1>0, <1>t, <2>2, <2>3, FinishPuts
  <2>5. work' \in WorkType
    BY <2>2, <2>3, QueueType DEF Works
  <2>6. dev' \in DevType /\ dev'.on = dev.on /\ dev'.reset = "none"
    BY <1>0, <1>3 DEF PollWork, DevType
  <2>7. Settles
    BY <2>2, <2>4, <2>6 DEF Settles, Puts
  <2> QED
    BY <1>3, <2>2, <2>4, <2>5, <2>6, <2>7 DEF PollWork, Types, OnPath, Apart, Puts, Alike
<1>4. CASE ResetWork
  <2>0. [work EXCEPT !.running = @ \ {"reset"}] \in WorkType
    BY <1>0 DEF WorkType
  <2>1. CASE vd.removing
    BY <1>4, <2>0, <2>1 DEF ResetWork, Types, OnPath, Apart, Settles
  <2>2. CASE ~vd.removing
    <3> DEFINE v == [vd EXCEPT !.ready = @ /\ ~vd.stale]
    <3>1. PICK S \in SUBSET Tracked : Finish(S, v, res)
      BY <1>4, <2>2 DEF ResetWork
    <3>2. \A b \in BOOLEAN : /\ [vd EXCEPT !.ready = b] \in VdType
                             /\ Alike([vd EXCEPT !.ready = b], vd)
                             /\ [vd EXCEPT !.ready = b].stale = vd.stale
                             /\ [vd EXCEPT !.ready = b].ready <=> b
      BY <1>0 DEF VdType, Alike
    <3>3. (vd.ready /\ ~vd.stale) \in BOOLEAN /\ v = [vd EXCEPT !.ready = vd.ready /\ ~vd.stale]
      OBVIOUS
    <3>4. /\ v \in VdType /\ Alike(v, vd) /\ v.stale = vd.stale
          /\ v.ready <=> vd.ready /\ ~vd.stale
      BY <3>2, <3>3
    <3> HIDE DEF v
    <3>5. /\ Puts(v, res) /\ file' \in [Files -> FileType]
          /\ \A f \in Files : file'[f].open = file[f].open
      BY <1>0, <1>t, <3>1, <3>4, FinishPuts
    <3>6. Settles
      BY <1>4, <3>4, <3>5 DEF ResetWork, Settles, Puts
    <3> QED
      BY <1>4, <2>0, <3>4, <3>5, <3>6 DEF ResetWork, Types, OnPath, Apart, Puts, Alike
  <2> QED
    BY <2>1, <2>2
<1>5. ASSUME NEW w \in Works, WorkStart(w)
      PROVE  /\ Types' /\ Apart /\ Settles
             /\ \A f \in Files : file'[f].open = file[f].open
  <2>1. work' \in WorkType
    BY <1>0, <1>5 DEF WorkStart, WorkType
  <2> QED
    BY <1>5, <2>1 DEF WorkStart, Types, OnPath, Apart, Settles
<1> QED
  BY <1>1, <1>2, <1>3, <1>4, <1>5

(* vams_ioctl_buffer_register: each error label releases what was acquired. *)
LEMMA RegisterExact ==
    ASSUME NEW i \in 1 .. Len(RegisterSteps)
    PROVE  {RegisterSteps[j] : j \in 1 .. i - 1} \ {"range"} = RegisterLabel(RegisterSteps[i])
<1>0. i \in 1 .. 8
  BY DEF RegisterSteps
<1> DEFINE got(n) == {RegisterSteps[j] : j \in 1 .. n}
<1>1. got(0) = {}
  OBVIOUS
<1>2. \A n \in 1 .. 7 : got(n) = got(n - 1) \cup {RegisterSteps[n]}
  <2> TAKE n \in 1 .. 7
  <2>1. 1 .. n = (1 .. n - 1) \cup {n}
    OBVIOUS
  <2> QED
    BY <2>1, Zenon
<1> HIDE DEF got
<1>3. got(1) = {"mapping"}
  BY <1>1, <1>2 DEF RegisterSteps
<1>4. got(2) = {"mapping", "pages"}
  BY <1>3, <1>2 DEF RegisterSteps
<1>5. got(3) = {"mapping", "pages", "pin"}
  BY <1>4, <1>2 DEF RegisterSteps
<1>6. got(4) = {"mapping", "pages", "pin", "sg"}
  BY <1>5, <1>2 DEF RegisterSteps
<1>7. got(5) = {"mapping", "pages", "pin", "sg", "dma"}
  BY <1>6, <1>2 DEF RegisterSteps
<1>8. got(6) = {"mapping", "pages", "pin", "sg", "dma", "range"}
  BY <1>7, <1>2 DEF RegisterSteps
<1>9. got(7) = {"mapping", "pages", "pin", "sg", "dma", "range", "handle"}
  BY <1>8, <1>2 DEF RegisterSteps
<1>10. got(i - 1) \ {"range"} = RegisterLabel(RegisterSteps[i])
  BY <1>0, <1>1, <1>3, <1>4, <1>5, <1>6, <1>7, <1>8, <1>9 DEF RegisterSteps, RegisterLabel
<1> QED
  BY <1>10 DEF got

LEMMA CallTypes ==
    ASSUME Types, NEW f \in Files, Calls(f)
    PROVE  /\ Types' /\ Apart /\ vd'.ready = vd.ready /\ vd'.stale = vd.stale
           /\ Open(f) \/ \A g \in Files : file'[g].open => file[g].open
           /\ \A g \in Files \ {f} : file'[g].open => file[g].open
<1>0. /\ dev \in DevType /\ vd \in VdType /\ work \in WorkType
      /\ file \in [Files -> FileType] /\ file[f] \in FileType
      /\ call \in [Files -> {"none", "submit", "drained", "poll", "pollread"}]
  BY DEF Types
<1>p. ASSUME NEW q \in FileType PROVE [file EXCEPT ![f] = q] \in [Files -> FileType]
  BY <1>0
<1>1. CASE Open(f)
  <2>1. [NewFile EXCEPT !.refs = 1, !.open = TRUE, !.used = TRUE] \in FileType
    <3>1. NewFile \in FileType /\ 1 \in Int
      BY DEF NewFile, FileType
    <3> QED
      BY <3>1, Zenon DEF FileType
  <2>2. vd' \in VdType /\ Alike(vd', vd) /\ vd'.ready = vd.ready /\ vd'.stale = vd.stale
    BY <1>0, <1>1 DEF Open, VdType, Alike
  <2>3. file' \in [Files -> FileType] /\ \A g \in Files \ {f} : file'[g] = file[g]
    BY <1>0, <1>1, <1>p, <2>1 DEF Open
  <2> QED
    BY <1>1, <2>2, <2>3 DEF Open, Types, OnPath, Apart, Alike
<1>2. CASE SubmitStart(f)
  <2>1. PICK b \in {FALSE, file[f].buffer > 0} :
           file' = [file EXCEPT ![f].refs = @ + 1, ![f].uses = b,
                                ![f].buffer = IF b THEN @ + 1 ELSE @]
    BY <1>2 DEF SubmitStart
  <2>2. b \in BOOLEAN
    <3>1. (file[f].buffer > 0) \in BOOLEAN
      OBVIOUS
    <3> QED
      BY <3>1, Zenon
  <2> DEFINE n == IF b THEN file[f].buffer + 1 ELSE file[f].buffer
             q == [file[f] EXCEPT !.refs = @ + 1, !.uses = b, !.buffer = n]
  <2>3. file[f].refs + 1 \in Int /\ n \in Int
    BY <1>0 DEF FileType
  <2>4. file' = [file EXCEPT ![f] = q]
    BY <1>0, <2>1, Zenon
  <2> HIDE DEF n
  <2>5. q \in FileType /\ q.open = file[f].open
    BY <1>0, <2>2, <2>3, Zenon DEF FileType
  <2> HIDE DEF q
  <2>6. file' \in [Files -> FileType] /\ \A g \in Files : file'[g].open = file[g].open
    BY <1>0, <1>p, <2>4, <2>5
  <2> QED
    BY <1>0, <1>2, <2>6 DEF SubmitStart, Types, OnPath, Apart
<1>3. CASE SubmitDrain(f)
  <2>1. PICK S \in SUBSET Tracked : Finish(S, vd, res)
    BY <1>3 DEF SubmitDrain
  <2>2. S \in SUBSET Files
    BY DEF Tracked
  <2>3. /\ Puts(vd, res) /\ file' \in [Files -> FileType]
        /\ \A g \in Files : file'[g].open = file[g].open
    BY <1>0, <2>1, <2>2, FinishPuts
  <2> QED
    BY <1>0, <1>3, <2>3 DEF SubmitDrain, Types, OnPath, Apart, Puts
<1>4. CASE SubmitEnd(f)
  <2>1. CASE /\ file' = [file EXCEPT ![f].tracked = TRUE, ![f].filed = TRUE]
             /\ work' = Queue(work, "poll") /\ UNCHANGED <<vd, res>>
    <3> DEFINE q == [file[f] EXCEPT !.tracked = TRUE, !.filed = TRUE]
    <3>1. file' = [file EXCEPT ![f] = q]
      BY <1>0, <2>1, Zenon
    <3>2. q \in FileType /\ q.open = file[f].open
      BY <1>0 DEF FileType
    <3> HIDE DEF q
    <3>3. file' \in [Files -> FileType] /\ \A g \in Files : file'[g].open = file[g].open
      BY <1>0, <1>p, <3>1, <3>2
    <3>4. work' \in WorkType
      BY <1>0, <2>1, QueueType DEF Works
    <3> QED
      BY <1>0, <1>4, <2>1, <3>3, <3>4 DEF SubmitEnd, Types, OnPath, Apart
  <2>2. CASE FilePut([file EXCEPT ![f] = RequestGone(@)], vd, res, {f}) /\ UNCHANGED work
    <3> DEFINE fl == [file EXCEPT ![f] = RequestGone(@)]
    <3>1. fl \in [Files -> FileType] /\ \A g \in Files : fl[g].open = file[g].open
      BY <1>0, GoneType
    <3>2. FilePut(fl, vd, res, {f})
      BY <2>2
    <3> HIDE DEF fl
    <3>3. /\ Puts(vd, res) /\ file' \in [Files -> FileType]
          /\ \A g \in Files : file'[g].open = file[g].open
      BY <1>0, <3>1, <3>2, FilePuts
    <3> QED
      BY <1>0, <1>4, <2>2, <3>3 DEF SubmitEnd, Types, OnPath, Apart, Puts
  <2> QED
    BY <1>4, <2>1, <2>2 DEF SubmitEnd
<1>5. CASE Reap(f)
  <2> DEFINE q == [file[f] EXCEPT !.filed = FALSE]
             fl == [file EXCEPT ![f] = RequestGone(q)]
  <2>1. q \in FileType /\ q.open = file[f].open
    BY <1>0 DEF FileType
  <2>2. FilePut(fl, vd, res, {f})
    BY <1>5 DEF Reap
  <2> HIDE DEF q
  <2>3. fl \in [Files -> FileType] /\ \A g \in Files : fl[g].open = file[g].open
    BY <1>0, <2>1, GoneType
  <2> HIDE DEF fl
  <2>4. /\ Puts(vd, res) /\ file' \in [Files -> FileType]
        /\ \A g \in Files : file'[g].open = file[g].open
    BY <1>0, <2>2, <2>3, FilePuts
  <2> QED
    BY <1>0, <1>5, <2>4 DEF Reap, Types, OnPath, Apart, Puts
<1>6. CASE Register(f)
  <2>1. CASE file' = [file EXCEPT ![f].buffer = 1] /\ UNCHANGED vd
    <3>1. [file[f] EXCEPT !.buffer = 1] \in FileType /\ [file[f] EXCEPT !.buffer = 1].open = file[f].open
      BY <1>0 DEF FileType
    <3>2. file' \in [Files -> FileType] /\ \A g \in Files : file'[g].open = file[g].open
      BY <1>0, <2>1, <3>1
    <3> QED
      BY <1>0, <1>6, <2>1, <3>2 DEF Register, Types, OnPath, Apart
  <2>2. CASE \E i \in 1 .. Len(RegisterSteps) :
               LET got == {RegisterSteps[j] : j \in 1 .. i - 1} \ {"range"}
                   given == RegisterLabel(RegisterSteps[i])
               IN  /\ vd' = [vd EXCEPT !.left = @ \cup (got \ given) \cup (given \ got)]
                   /\ UNCHANGED file
    <3>1. PICK i \in 1 .. Len(RegisterSteps) :
             LET got == {RegisterSteps[j] : j \in 1 .. i - 1} \ {"range"}
                 given == RegisterLabel(RegisterSteps[i])
             IN  /\ vd' = [vd EXCEPT !.left = @ \cup (got \ given) \cup (given \ got)]
                 /\ UNCHANGED file
      BY <2>2
    <3> DEFINE given == RegisterLabel(RegisterSteps[i])
    <3>2. vd' = [vd EXCEPT !.left = @ \cup (given \ given) \cup (given \ given)]
      BY <3>1, RegisterExact
    <3> HIDE DEF given
    <3>3. vd' \in VdType /\ Alike(vd', vd) /\ vd'.ready = vd.ready /\ vd'.stale = vd.stale
      BY <1>0, <3>2 DEF VdType, Alike
    <3> QED
      BY <1>0, <1>6, <3>1, <3>3 DEF Register, Types, OnPath, Apart, Alike
  <2> QED
    BY <1>6, <2>1, <2>2 DEF Register
<1>7. CASE Unregister(f)
  <2>1. [file[f] EXCEPT !.buffer = 0] \in FileType /\ [file[f] EXCEPT !.buffer = 0].open = file[f].open
    BY <1>0 DEF FileType
  <2>2. file' \in [Files -> FileType] /\ \A g \in Files : file'[g].open = file[g].open
    BY <1>0, <1>7, <2>1 DEF Unregister
  <2> QED
    BY <1>0, <1>7, <2>2 DEF Unregister, Types, OnPath, Apart
<1>8. CASE PollStart(f) \/ PollReady(f) \/ PollRead(f)
  BY <1>0, <1>8 DEF PollStart, PollReady, PollRead, Types, OnPath, Apart
<1>9. CASE Close(f)
  <2> DEFINE n == IF file[f].buffer > 0 THEN file[f].buffer - 1 ELSE 0
             q == [file[f] EXCEPT !.open = FALSE, !.filed = FALSE, !.buffer = n]
             last == file[f].filed /\ ~file[f].tracked
             kept == IF last THEN [RequestGone(q) EXCEPT !.refs = @ - 1] ELSE q
             fl == [file EXCEPT ![f] = kept]
  <2>1. n \in Int
    BY <1>0 DEF FileType
  <2>2. FilePut(fl, vd, res, {f})
    BY <1>9 DEF Close
  <2> HIDE DEF n
  <2>3. q \in FileType
    BY <1>0, <2>1, Zenon DEF FileType
  <2> HIDE DEF q
  <2>4. [RequestGone(q) EXCEPT !.refs = @ - 1] \in FileType
    BY <2>3, GoneType DEF FileType
  <2>5. kept \in FileType
    BY <2>3, <2>4
  <2>6. ~kept.open
    <3>1. ~q.open
      BY <1>0 DEF q, FileType
    <3>2. RequestGone(q) \in FileType /\ ~RequestGone(q).open
      BY <2>3, <3>1, GoneType
    <3>3. ~[RequestGone(q) EXCEPT !.refs = @ - 1].open
      BY <3>2 DEF FileType
    <3> QED
      BY <3>1, <3>3
  <2> HIDE DEF kept
  <2>7. fl \in [Files -> FileType] /\ \A g \in Files : fl[g].open => file[g].open
    BY <1>0, <2>5, <2>6
  <2> HIDE DEF fl
  <2>8. /\ Puts(vd, res) /\ file' \in [Files -> FileType]
        /\ \A g \in Files : file'[g].open = fl[g].open
    BY <1>0, <2>2, <2>7, FilePuts
  <2> QED
    BY <1>0, <1>9, <2>7, <2>8 DEF Close, Types, OnPath, Apart, Puts
<1> QED
  BY <1>1, <1>2, <1>3, <1>4, <1>5, <1>6, <1>7, <1>8, <1>9 DEF Calls

(* Apart steps do not change what is held. *)
LEMMA ApartHeld ==
    ASSUME Types, Held, Apart
    PROVE  Held'
  BY DEF Types, Held, Apart, OnPath

-----------------------------------------------------------------------------
(* What the steps of probe and of the way back do to what is held *)

Gain(s, dma) ==
    CASE s \in Plain    -> {s}
      [] s = "rings"    -> Rings(dma)
      [] s = "master"   -> {"master", "drvdata"}
      [] s = "chardev"  -> {"misc"}
      [] OTHER          -> {}

LEMMA ProbeTable ==
    ASSUME NEW s \in ProbeAt, NEW dma \in BOOLEAN
    PROVE  /\ s # "chardev" =>
                /\ After(ProbeSteps, s) \in ProbeAt
                /\ HeldAt(After(ProbeSteps, s), dma) = HeldAt(s, dma) \cup Gain(s, dma)
           /\ s = "chardev" =>
                AheadOf("removing", dma, "remove") = HeldAt(s, dma) \cup Gain(s, dma)
           /\ s \in Injectable =>
                /\ InjectLabel(s) \in ExitAt
                /\ AheadOf(InjectLabel(s), dma, "unwind") = HeldAt(s, dma) \cup Gain(s, dma)
           /\ ErrorLabel(s) \in ExitAt
           /\ AheadOf(ErrorLabel(s), dma, "unwind") =
                HeldAt(s, dma) \cup (IF s = "master" THEN Gain(s, dma) ELSE {})
<1> USE DEF HeldAt, AheadOf, Mapped, Rings, Last, Gain, Plain, Injectable,
            InjectLabel, ErrorLabel, ProbeAt, ExitAt
<1>1. CASE s = "enable"  BY <1>1, ProbeOrder
<1>2. CASE s = "region"  BY <1>2, ProbeOrder
<1>3. CASE s = "bar"  BY <1>3, ProbeOrder
<1>4. CASE s = "validate"  BY <1>4, ProbeOrder
<1>5. CASE s = "rings"  BY <1>5, ProbeOrder
<1>6. CASE s = "vectors"  BY <1>6, ProbeOrder
<1>7. CASE s = "cqirq"  BY <1>7, ProbeOrder
<1>8. CASE s = "asyncirq"  BY <1>8, ProbeOrder
<1>9. CASE s = "master"  BY <1>9, ProbeOrder
<1>10. CASE s = "unmask"  BY <1>10, ProbeOrder
<1>11. CASE s = "irqtest"  BY <1>11, ProbeOrder
<1>12. CASE s = "noptest"  BY <1>12, ProbeOrder
<1>13. CASE s = "polltest"  BY <1>13, ProbeOrder
<1>14. CASE s = "chardev"  BY <1>14, ProbeOrder
<1> QED
  BY <1>1, <1>2, <1>3, <1>4, <1>5, <1>6, <1>7, <1>8, <1>9, <1>10, <1>11, <1>12, <1>13, <1>14

LEMMA ExitTable ==
    ASSUME thread.mode \in {"unwind", "remove"}, NEW s \in ExitAt \ {"put"}
    PROVE  /\ After(ExitSteps, s) \in ExitAt
           /\ AheadOf(After(ExitSteps, s), vd.dma, thread.mode) =
                AheadOf(s, vd.dma, thread.mode) \ Releases(s)
<1> USE DEF AheadOf, Mapped, Rings, Last, Releases, ExitAt
<1>1. CASE s = "removing"  BY <1>1, ExitOrder
<1>2. CASE s = "misc"  BY <1>2, ExitOrder
<1>3. CASE s = "pollcancel"  BY <1>3, ExitOrder
<1>4. CASE s = "quiesce"  BY <1>4, ExitOrder
<1>5. CASE s = "asyncirq"  BY <1>5, ExitOrder
<1>6. CASE s = "cqirq"  BY <1>6, ExitOrder
<1>7. CASE s = "resetcancel"  BY <1>7, ExitOrder
<1>8. CASE s = "cancelrequests"  BY <1>8, ExitOrder
<1>9. CASE s = "vectors"  BY <1>9, ExitOrder
<1>10. CASE s = "rings"  BY <1>10, ExitOrder
<1>11. CASE s = "bar"  BY <1>11, ExitOrder
<1>12. CASE s = "region"  BY <1>12, ExitOrder
<1>13. CASE s = "enable"  BY <1>13, ExitOrder
<1> QED
  BY <1>1, <1>2, <1>3, <1>4, <1>5, <1>6, <1>7, <1>8, <1>9, <1>10, <1>11, <1>12, <1>13

(* A step of probe succeeds, or fails once it has acquired what it is for, *)
(* or fails before.                                                        *)
LEMMA ProbeMoves ==
    ASSUME Types, Held, NEW s \in ProbeAt, Probing(s), vd' \in VdType,
           vd'.dma = vd.dma \/ s = "validate",
           \/ Proceed(s) /\ res' \ OfDevice = (res \ OfDevice) \cup Gain(s, vd'.dma)
           \/ /\ UnwindFrom(ErrorLabel(s))
              /\ res' \ OfDevice =
                   (res \ OfDevice) \cup (IF s = "master" THEN Gain(s, vd'.dma) ELSE {})
    PROVE  OnPath' /\ res' \ OfDevice = Holding(thread', vd'.dma)
<1> DEFINE d == vd'.dma
<1>1. d \in BOOLEAN /\ thread.mode = "probe" /\ thread.at = s
      /\ thread = [mode |-> "probe", at |-> s]
  BY DEF VdType, Probing, Types, OnPath
<1>2. HeldAt(s, vd.dma) = HeldAt(s, d)
  BY DEF HeldAt
<1>3. res \ OfDevice = HeldAt(s, d)
  BY <1>1, <1>2 DEF Held, Holding
<1> HIDE DEF d
<1>4. CASE /\ Proceed(s) /\ res' \ OfDevice = (res \ OfDevice) \cup Gain(s, d)
  <2>1. CASE s # "chardev" /\ thread' = [mode |-> "probe", at |-> After(ProbeSteps, s)]
    BY <1>1, <1>3, <1>4, <2>1, ProbeTable DEF OnPath, Holding, d
  <2>2. CASE s = "chardev" /\ thread' = [mode |-> "bound", at |-> "bound"]
    BY <1>1, <1>3, <1>4, <2>2, ProbeTable DEF OnPath, Holding, d
  <2>3. CASE s \in Injectable /\ thread' = [mode |-> "unwind", at |-> InjectLabel(s)]
    BY <1>1, <1>3, <1>4, <2>3, ProbeTable DEF OnPath, Holding, d
  <2>4. [thread EXCEPT !.at = After(ProbeSteps, s)] = [mode |-> "probe", at |-> After(ProbeSteps, s)]
    BY <1>1
  <2> QED
    BY <1>4, <2>1, <2>2, <2>3, <2>4 DEF Proceed, UnwindFrom
<1>5. CASE /\ UnwindFrom(ErrorLabel(s))
           /\ res' \ OfDevice = (res \ OfDevice) \cup (IF s = "master" THEN Gain(s, d) ELSE {})
  BY <1>1, <1>3, <1>5, ProbeTable DEF OnPath, Holding, UnwindFrom, d
<1> QED
  BY <1>4, <1>5 DEF d

(* A step of the way back releases what the steps after it do not. *)
LEMMA ExitMoves ==
    ASSUME Types, Held, NEW s \in ExitAt \ {"put"}, Leaving(s), Done(s),
           vd' \in VdType, vd'.dma = vd.dma,
           res' \ OfDevice = (res \ OfDevice) \ Releases(s)
    PROVE  /\ OnPath' /\ res' \ OfDevice = Holding(thread', vd'.dma)
           /\ thread'.mode = thread.mode /\ thread'.at = After(ExitSteps, s)
<1>1. /\ thread.mode \in {"unwind", "remove"} /\ thread.at = s
      /\ thread = [mode |-> thread.mode, at |-> s]
  BY DEF Leaving, Types, OnPath
<1>2. thread' = [mode |-> thread.mode, at |-> After(ExitSteps, s)]
  BY <1>1 DEF Done
<1>3. res \ OfDevice = AheadOf(s, vd.dma, thread.mode)
  BY <1>1 DEF Held, Holding
<1> QED
  BY <1>1, <1>2, <1>3, ExitTable DEF OnPath, Holding

(* The steps of probe that change neither struct vams_device nor what is   *)
(* held by more than Gain.                                                 *)
LEMMA ProbePlain ==
    ASSUME Types, Held, NEW s \in ProbeAt \ {"chardev"}, Probing(s),
           vd' \in VdType, vd'.dma = vd.dma \/ s = "validate",
           vd'.instance = vd.instance, vd'.freed = vd.freed,
           dev' \in DevType, work' \in WorkType, UNCHANGED <<file, call>>,
           \/ Proceed(s) /\ res' = res \cup Gain(s, vd'.dma)
           \/ UnwindFrom(ErrorLabel(s)) /\ res' = res /\ s # "master"
           \/ UnwindFrom(ErrorLabel(s)) /\ res' = res \cup Gain(s, vd'.dma) /\ s = "master"
    PROVE  Types' /\ Held'
<1>1. Gain(s, vd'.dma) \cap OfDevice = {}
  BY DEF Gain, Plain, Rings, OfDevice, ProbeAt
<1>2. (res \cup Gain(s, vd'.dma)) \ OfDevice = (res \ OfDevice) \cup Gain(s, vd'.dma)
  BY <1>1
<1>3. OnPath' /\ res' \ OfDevice = Holding(thread', vd'.dma)
  BY <1>2, ProbeMoves
<1>4. ~vd'.freed => (vd'.instance <=> "instance" \in res') /\ "pdev" \in res'
  BY <1>1 DEF Held, OfDevice
<1>5. ~vd'.instance
  BY DEF Held, Probing
<1> QED
  BY <1>3, <1>4, <1>5 DEF Types, Held

LEMMA ProbeKeeps ==
    ASSUME Types, Held, Probe
    PROVE  Types' /\ Held'
<1>0. vd \in VdType /\ dev \in DevType /\ work \in WorkType
      /\ {"cqirq", "asyncirq"} \subseteq Vectors /\ "poll" \in Works
  BY DEF Types, Vectors, Works
<1>1. ASSUME NEW s \in Plain, ProbeAcquire(s) PROVE Types' /\ Held'
  <2>1. s \in ProbeAt \ {"chardev"} /\ s # "master" /\ Gain(s, vd.dma) = {s}
    BY DEF Plain, ProbeAt, Gain
  <2> QED
    BY <1>0, <1>1, <2>1, ProbePlain DEF ProbeAcquire
<1>2. CASE ProbeValidate
  <2>1. dev' \in DevType
    BY <1>0, <1>2 DEF ProbeValidate, DevType
  <2>2. /\ vd' \in VdType /\ vd'.instance = vd.instance /\ vd'.freed = vd.freed
    BY <1>0, <1>2 DEF ProbeValidate, VdType
  <2>3. "validate" \in ProbeAt \ {"chardev"} /\ Gain("validate", vd'.dma) = {}
    BY DEF Plain, ProbeAt, Gain
  <2> QED
    BY <1>0, <1>2, <2>1, <2>2, <2>3, ProbePlain DEF ProbeValidate
<1>3. CASE ProbeRings
  <2>1. "rings" \in ProbeAt \ {"chardev"} /\ Gain("rings", vd.dma) = Rings(vd.dma)
    BY DEF Plain, ProbeAt, Gain
  <2>2. (IF vd.dma THEN res \cup {"rings"} ELSE res) = res \cup Rings(vd.dma)
    BY DEF Rings
  <2> QED
    BY <1>0, <1>3, <2>1, <2>2, ProbePlain DEF ProbeRings
<1>4. CASE ProbeMaster
  <2>1. \A b \in BOOLEAN : /\ [vd EXCEPT !.ready = b] \in VdType
                           /\ [vd EXCEPT !.ready = b].instance = vd.instance
                           /\ [vd EXCEPT !.ready = b].freed = vd.freed
                           /\ [vd EXCEPT !.ready = b].dma = vd.dma
                           /\ [dev EXCEPT !.on = b] \in DevType
    BY <1>0 DEF VdType, DevType
  <2>2. vd.dma \in BOOLEAN
    BY <1>0 DEF VdType
  <2>3. "master" \in ProbeAt \ {"chardev"} /\ Gain("master", vd.dma) = {"drvdata", "master"}
    BY DEF Plain, ProbeAt, Gain
  <2>4. /\ vd' \in VdType /\ vd'.instance = vd.instance /\ vd'.freed = vd.freed
        /\ vd'.dma = vd.dma /\ dev' \in DevType
    BY <1>4, <2>1, <2>2 DEF ProbeMaster, ConfigureFailed
  <2> QED
    BY <1>0, <1>4, <2>3, <2>4, ProbePlain DEF ProbeMaster
<1>5. CASE ProbeUnmask
  <2>1. "unmask" \in ProbeAt \ {"chardev"} /\ Gain("unmask", vd.dma) = {}
    BY DEF Plain, ProbeAt, Gain
  <2> QED
    BY <1>0, <1>5, <2>1, ProbePlain, UnmaskType DEF ProbeUnmask
<1>6. ASSUME NEW s \in {"irqtest", "noptest"}, ProbeSelftest(s) PROVE Types' /\ Held'
  <2>1. s \in ProbeAt \ {"chardev"} /\ Gain(s, vd.dma) = {} /\ s # "master"
    BY DEF Plain, ProbeAt, Gain
  <2>2. /\ Raise(dev, "cqirq") \in DevType
        /\ Raise(Raise(dev, "cqirq"), "asyncirq") \in DevType
    BY <1>0, RaiseType
  <2>3. dev' \in DevType
    BY <1>0, <1>6, <2>2 DEF ProbeSelftest
  <2>4. /\ Probing(s) /\ UNCHANGED <<res, vd, work, file, call>>
        /\ Proceed(s) \/ UnwindFrom(ErrorLabel(s))
    BY <1>6 DEF ProbeSelftest
  <2> QED
    BY <1>0, <2>1, <2>3, <2>4, ProbePlain
<1>7. CASE ProbePolltest \/ ProbePolltestEnd
  <2>1. "polltest" \in ProbeAt \ {"chardev"} /\ Gain("polltest", vd.dma) = {}
    BY DEF Plain, ProbeAt, Gain
  <2>2. [dev EXCEPT !.pending = @ \ {"cqirq"}] \in DevType
    BY <1>0 DEF DevType
  <2>3. /\ Unmask(dev, {"cqirq"}) \in DevType
        /\ Unmask([dev EXCEPT !.pending = @ \ {"cqirq"}], {}) \in DevType
    BY <1>0, <2>2, UnmaskType
  <2>4. dev' \in DevType
    BY <1>0, <1>7, <2>3 DEF ProbePolltest, ProbePolltestEnd
  <2>5. work' \in WorkType
    BY <1>0, <1>7, QueueType DEF ProbePolltest, ProbePolltestEnd
  <2>6. /\ Probing("polltest") /\ UNCHANGED <<res, vd, file, call>>
        /\ \/ Proceed("polltest") \/ UnwindFrom(ErrorLabel("polltest"))
           \/ UNCHANGED thread
    BY <1>7 DEF ProbePolltest, ProbePolltestEnd
  <2>7. CASE UNCHANGED thread
    BY <2>4, <2>5, <2>6, <2>7 DEF Types, OnPath, Held
  <2>8. CASE Proceed("polltest") \/ UnwindFrom(ErrorLabel("polltest"))
    BY <1>0, <2>1, <2>4, <2>5, <2>6, <2>8, ProbePlain
  <2> QED
    BY <2>6, <2>7, <2>8
<1>8. CASE ProbeChardev
  <2>0. "chardev" \in ProbeAt /\ Gain("chardev", vd.dma) = {"misc"} /\ Probing("chardev")
        /\ ~vd.instance
    BY <1>8 DEF Plain, ProbeAt, Gain, ProbeChardev, Probing, Held
  <2>1. CASE /\ res' = res \cup {"instance", "misc"}
             /\ vd' = [vd EXCEPT !.instance = TRUE] /\ Proceed("chardev")
    <3>1. /\ vd' \in VdType /\ vd'.instance /\ vd'.dma = vd.dma /\ vd'.freed = vd.freed
      BY <1>0, <2>1 DEF VdType
    <3>2. res' \ OfDevice = (res \ OfDevice) \cup {"misc"}
      BY <2>1 DEF OfDevice
    <3>3. OnPath' /\ res' \ OfDevice = Holding(thread', vd'.dma)
      BY <2>0, <2>1, <3>1, <3>2, ProbeMoves
    <3>4. thread'.mode # "probe"
      BY <2>1 DEF Proceed, UnwindFrom
    <3> QED
      BY <1>8, <2>1, <3>1, <3>3, <3>4 DEF ProbeChardev, Types, Held
  <2>2. CASE ChardevFailed /\ UnwindFrom(ErrorLabel("chardev")) /\ UNCHANGED res
    <3>1. /\ vd' \in VdType /\ ~vd'.instance /\ vd'.dma = vd.dma /\ vd'.freed = vd.freed
      BY <1>0, <2>2 DEF VdType, ChardevFailed
    <3>2. res' \ OfDevice = (res \ OfDevice) \cup {}
      BY <2>2
    <3>3. OnPath' /\ res' \ OfDevice = Holding(thread', vd'.dma)
      BY <2>0, <2>2, <3>1, <3>2, ProbeMoves
    <3> QED
      BY <1>8, <2>0, <2>2, <3>1, <3>3 DEF ProbeChardev, Types, Held
  <2> QED
    BY <1>8, <2>1, <2>2 DEF ProbeChardev
<1> QED
  BY <1>1, <1>2, <1>3, <1>4, <1>5, <1>6, <1>7, <1>8 DEF Probe

LEMMA RemoveKeeps ==
    ASSUME Types, Held, RemoveStart
    PROVE  Types' /\ Held'
<1>1. thread.mode = "bound" /\ thread' = [mode |-> "remove", at |-> "removing"]
  BY DEF RemoveStart
<1>2. OnPath' /\ Holding(thread', vd.dma) = Holding(thread, vd.dma)
  BY <1>1 DEF OnPath, Holding, ExitAt
<1> QED
  BY <1>1, <1>2 DEF RemoveStart, Types, Held

(* The steps of the way back before the last. *)
LEMMA ExitPlain ==
    ASSUME Types, Held, NEW s \in ExitAt \ {"put"}, Leaving(s), Done(s),
           vd' \in VdType, vd'.dma = vd.dma, vd'.instance = vd.instance,
           dev' \in DevType, work' \in WorkType, file' \in [Files -> FileType],
           UNCHANGED call,
           res' \ OfDevice = (res \ OfDevice) \ Releases(s),
           ~vd'.freed => ~vd.freed /\ res' = res \ Releases(s)
    PROVE  Types' /\ Held'
<1>1. /\ OnPath' /\ res' \ OfDevice = Holding(thread', vd'.dma)
      /\ thread'.mode = thread.mode
  BY ExitMoves
<1>2. Releases(s) \cap OfDevice = {}
  BY DEF Releases, OfDevice
<1>3. ~vd'.freed => (vd'.instance <=> "instance" \in res') /\ "pdev" \in res'
  BY <1>2 DEF Held, OfDevice
<1>4. thread'.mode # "probe"
  BY <1>1 DEF Leaving
<1> QED
  BY <1>1, <1>3, <1>4 DEF Types, Held

LEMMA ExitKeeps ==
    ASSUME Types, Held, Exit
    PROVE  Types' /\ Held' /\ \A f \in Files : file'[f].open = file[f].open
<1>0. vd \in VdType /\ dev \in DevType /\ work \in WorkType /\ file \in [Files -> FileType]
  BY DEF Types
<1>e. \A s \in {"removing", "pollcancel", "resetcancel", "cancelrequests"} :
         s \in ExitAt \ {"put"} /\ Releases(s) = {}
  BY DEF ExitAt, Releases
<1>d. \A s : (res \ Releases(s)) \ OfDevice = (res \ OfDevice) \ Releases(s)
  OBVIOUS
<1>1. CASE ExitRemoving
  <2>1. vd' \in VdType /\ vd'.dma = vd.dma /\ vd'.instance = vd.instance /\ vd'.freed = vd.freed
    BY <1>0, <1>1 DEF ExitRemoving, VdType
  <2>2. /\ Leaving("removing") /\ Done("removing")
        /\ UNCHANGED <<res, dev, work, file, call>>
    BY <1>1 DEF ExitRemoving
  <2>3. "removing" \in ExitAt \ {"put"} /\ Releases("removing") = {}
    BY <1>e
  <2> QED
    BY <1>0, <2>1, <2>2, <2>3, ExitPlain
<1>2. CASE ExitQuiesce
  <2>1. /\ vd' \in VdType /\ vd'.dma = vd.dma /\ vd'.instance = vd.instance /\ vd'.freed = vd.freed
    BY <1>0, <1>2 DEF ExitQuiesce, VdType
  <2>2. dev' \in DevType
    <3> DEFINE p == IF thread.mode = "remove" THEN {} ELSE dev.pending
    <3>1. \A b \in BOOLEAN, q \in SUBSET Vectors :
             [dev EXCEPT !.masked = TRUE, !.on = b, !.pending = q] \in DevType
      BY <1>0, Zenon DEF DevType
    <3>2. p \in SUBSET Vectors /\ (dev.on /\ ~vd.ready) \in BOOLEAN
      BY <1>0 DEF DevType
    <3>3. dev' = [dev EXCEPT !.masked = TRUE, !.on = dev.on /\ ~vd.ready, !.pending = p]
      BY <1>2 DEF ExitQuiesce
    <3> HIDE DEF p
    <3> QED
      BY <3>1, <3>2, <3>3
  <2>3. "quiesce" \in ExitAt \ {"put"}
    BY DEF ExitAt
  <2>4. /\ Leaving("quiesce") /\ Done("quiesce") /\ UNCHANGED <<work, file, call>>
        /\ res' = res \ Releases("quiesce")
    BY <1>2 DEF ExitQuiesce
  <2> QED
    BY <1>0, <1>d, <2>1, <2>2, <2>3, <2>4, ExitPlain
<1>3. CASE ExitCancelRequests
  <2>1. /\ Leaving("cancelrequests") /\ Done("cancelrequests")
        /\ Finish(Tracked, vd, res) /\ UNCHANGED <<dev, work, call>>
    BY <1>3 DEF ExitCancelRequests
  <2>2. /\ Puts(vd, res) /\ file' \in [Files -> FileType]
        /\ \A f \in Files : file'[f].open = file[f].open
    BY <1>0, <2>1, FinishPuts DEF Tracked
  <2>3. "cancelrequests" \in ExitAt \ {"put"} /\ Releases("cancelrequests") = {}
    BY <1>e
  <2>4. (res \ OfDevice) \ {} = res \ OfDevice /\ res \ {} = res
    OBVIOUS
  <2>5. /\ vd' \in VdType /\ vd'.dma = vd.dma /\ vd'.instance = vd.instance
        /\ res' \ OfDevice = (res \ OfDevice) \ Releases("cancelrequests")
        /\ ~vd'.freed => ~vd.freed /\ res' = res \ Releases("cancelrequests")
    BY <2>2, <2>3, <2>4 DEF Puts
  <2> QED
    BY <1>0, <2>1, <2>2, <2>3, <2>5, ExitPlain
<1>4. CASE ExitPut
  <2>1. /\ Leaving("put") /\ thread' = [mode |-> "end", at |-> "end"]
        /\ DevicePut(vd, res \ Releases("put"), 1) /\ UNCHANGED <<dev, work, file, call>>
    BY <1>4 DEF ExitPut
  <2>2. Puts(vd, res \ Releases("put"))
    BY <1>0, <2>1, DevicePuts
  <2>3. AheadOf("put", vd.dma, thread.mode) \ Releases("put") = {}
    BY <2>1 DEF AheadOf, Last, Releases, Leaving
  <2>4. res \ OfDevice = AheadOf("put", vd.dma, thread.mode)
    BY <2>1 DEF Held, Holding, Leaving
  <2>5. res' \ OfDevice = {}
    BY <1>d, <2>2, <2>3, <2>4 DEF Puts
  <2>6. OnPath' /\ Holding(thread', vd'.dma) = {} /\ thread'.mode # "probe"
    BY <2>1 DEF OnPath, Holding
  <2>7. Releases("put") \cap OfDevice = {}
    BY DEF Releases, OfDevice
  <2>8. ~vd'.freed => (vd'.instance <=> "instance" \in res') /\ "pdev" \in res'
    BY <2>2, <2>7 DEF Held, Puts, OfDevice
  <2> QED
    BY <2>1, <2>2, <2>5, <2>6, <2>8 DEF Types, Held, Puts
<1>5. ASSUME NEW s \in {"misc", "vectors", "rings", "bar", "region", "enable"}, ExitRelease(s)
      PROVE  Types' /\ Held' /\ UNCHANGED file
  <2>1. s \in ExitAt \ {"put"}
    BY DEF ExitAt
  <2>2. /\ Leaving(s) /\ Done(s) /\ UNCHANGED <<vd, dev, work, file, call>>
        /\ res' = res \ Releases(s)
    BY <1>5 DEF ExitRelease
  <2> QED
    BY <1>0, <1>d, <2>1, <2>2, ExitPlain
<1>6. ASSUME NEW w \in Works, ExitCancel(w)
      PROVE  Types' /\ Held' /\ UNCHANGED file
  <2>1. work' \in WorkType
    BY <1>0, <1>6 DEF ExitCancel, WorkType
  <2>2. PICK s \in {"pollcancel", "resetcancel"} : Leaving(s) /\ Done(s)
    BY <1>6 DEF ExitCancel, Canceling, Leaving
  <2>3. UNCHANGED <<res, vd, dev, file, call>>
    BY <1>6 DEF ExitCancel
  <2>4. s \in ExitAt \ {"put"} /\ Releases(s) = {}
    BY <1>e
  <2> QED
    BY <1>0, <2>1, <2>2, <2>3, <2>4, ExitPlain
<1>7. ASSUME NEW v \in Vectors, ExitFreeIrq(v)
      PROVE  Types' /\ Held' /\ UNCHANGED file
  <2>1. v \in ExitAt \ {"put"}
    BY DEF ExitAt, Vectors
  <2>2. dev' \in DevType
    BY <1>0, <1>7 DEF ExitFreeIrq, DevType
  <2>3. /\ Leaving(v) /\ Done(v) /\ UNCHANGED <<vd, work, file, call>>
        /\ res' = res \ Releases(v)
    BY <1>7 DEF ExitFreeIrq
  <2> QED
    BY <1>0, <1>d, <2>1, <2>2, <2>3, ExitPlain
<1> QED
  BY <1>1, <1>2, <1>3, <1>4, <1>5, <1>6, <1>7 DEF Exit

LEMMA ApartSteps ==
    ASSUME Types, Held,
           \/ Contexts \/ EndpointCompletes
           \/ EngineReset \/ \E k \in {"queue", "device"} : EndpointReset(k)
           \/ \E f \in Files : Calls(f)
    PROVE  Types' /\ Held' /\ Apart
<1>1. Types' /\ Apart
  BY EndpointTypes, ContextTypes, CallTypes DEF Contexts
<1> QED
  BY <1>1, ApartHeld

LEMMA InitHeld == Init => Types /\ Held
<1> SUFFICES ASSUME Init PROVE Types /\ Held
  OBVIOUS
<1>1. OnPath /\ thread.mode = "probe" /\ thread.at = "enable"
  BY DEF Init, OnPath, ProbeAt
<1>2. vd \in VdType /\ ~vd.instance
  BY DEF Init, VdType
<1>3. dev \in DevType
  BY DEF Init, DevType
<1>4. work \in WorkType
  BY DEF Init, WorkType
<1>5. file \in [Files -> FileType]
  <2>1. NewFile \in FileType
    BY DEF NewFile, FileType
  <2> QED
    BY <2>1 DEF Init
<1>6. res \ OfDevice = {} /\ Holding(thread, vd.dma) = {}
  BY <1>1 DEF Init, OfDevice, Holding, HeldAt
<1>7. "pdev" \in res /\ "instance" \notin res
  BY DEF Init
<1> QED
  BY <1>1, <1>2, <1>3, <1>4, <1>5, <1>6, <1>7 DEF Types, Held, Init

LEMMA NextHeld == Types /\ Held /\ [Next]_vars => (Types /\ Held)'
<1> SUFFICES ASSUME Types, Held, [Next]_vars PROVE (Types /\ Held)'
  OBVIOUS
<1>1. CASE UNCHANGED vars
  BY <1>1 DEF vars, Types, OnPath, Held
<1>2. CASE Next
  BY <1>2, ProbeKeeps, RemoveKeeps, ExitKeeps, ApartSteps DEF Next
<1> QED
  BY <1>1, <1>2

(* At every step of the way back, from any failure of vams_probe and in    *)
(* vams_remove, the driver holds exactly what the steps ahead release, for *)
(* any number of files, whatever handlers, works and callers do meanwhile; *)
(* and vams_ioctl_buffer_register leaves nothing behind.                   *)
THEOREM UnwindTheorem == Spec => []UnwindIsExact
<1>1. Types /\ Held => UnwindIsExact
  <2> SUFFICES ASSUME Types, Held PROVE UnwindIsExact
    OBVIOUS
  <2>1. thread.mode \in {"unwind", "remove"} => res \ OfDevice = Ahead(thread.at)
    BY AheadIs DEF Types, OnPath, Held, Holding
  <2>2. thread.mode = "end" => res \subseteq OfDevice
    BY DEF Held, Holding
  <2>3. vd.left = {}
    BY DEF Types, VdType
  <2> QED
    BY <2>1, <2>2, <2>3 DEF Held, UnwindIsExact, Ahead
<1> QED
  BY <1>1, InitHeld, NextHeld, PTL DEF Spec

-----------------------------------------------------------------------------
(* Who uses what is held, and the endpoint's queues: the invariants *)

(* The device can be opened, and a submission begun. *)
Accepting == thread.mode = "bound" \/ Leaving("removing")

(* Handlers that run are installed; a caller is in vams_submit with the    *)
(* lock, and not once removing is set; the poller is stopped on the way.   *)
Users ==
    /\ irq \subseteq Vectors /\ irq \subseteq res
    /\ \A f \in Files : file[f].open => Accepting \/ vd.removing
    /\ Leaving("misc") => vd.removing
    /\ \A f \in Files : call[f] \in {"submit", "drained"} => lock = f /\ Accepting
    /\ "poll" \in work.queued \cup work.running /\ test = "none" =>
         Accepting \/ Leaving("misc") \/ Leaving("pollcancel")

(* Queues that are on have rings, are ready, and have not been reset.      *)
Late == {"unmask", "irqtest", "noptest", "polltest", "chardev"}

Queues ==
    \/ thread.mode = "bound"
    \/ thread.mode = "probe" /\ thread.at \in Late
    \/ \E s \in {"removing", "misc", "pollcancel", "quiesce"} : Leaving(s)

Configured ==
    /\ dev.on => /\ vd.ready /\ vd.dma /\ ~vd.stale
                 /\ dev.reset \notin {"queue", "device"} /\ Queues
    /\ thread.mode = "probe" /\ thread.at \notin Late =>
         ~vd.ready /\ ~vd.stale /\ dev.reset \notin {"queue", "device"}

-----------------------------------------------------------------------------
(* Who uses what is held *)

(* Steps apart from the thread keep Users when they keep each part of it. *)
LEMMA ApartUsers ==
    ASSUME Types, Users, Apart,
           \A v \in irq' : v \in Vectors /\ v \in res,
           \A f \in Files : file'[f].open => file[f].open \/ Accepting,
           \A f \in Files : call'[f] \in {"submit", "drained"} => lock' = f /\ Accepting,
           "poll" \in work'.queued \cup work'.running /\ test' = "none" =>
             \/ Accepting
             \/ "poll" \in work.queued \cup work.running /\ test = "none"
    PROVE  Users'
<1>1. Accepting' = Accepting /\ \A s : Leaving(s)' = Leaving(s)
  BY DEF Apart, Accepting, Leaving
<1>2. irq' \subseteq Vectors /\ irq' \subseteq res'
  BY DEF Apart, Vectors, OfDevice
<1>3. vd'.removing = vd.removing
  BY DEF Apart
<1>4. \A f \in Files : file'[f].open => Accepting' \/ vd'.removing
  BY <1>1, <1>3 DEF Users
<1>5. Leaving("misc")' => vd'.removing
  BY <1>1, <1>3 DEF Users
<1>6. "poll" \in work'.queued \cup work'.running /\ test' = "none" =>
         Accepting' \/ Leaving("misc")' \/ Leaving("pollcancel")'
  BY <1>1 DEF Users
<1> QED
  BY <1>1, <1>2, <1>4, <1>5, <1>6 DEF Users

(* misc is there only while the device can be opened, or removing is set. *)
LEMMA MiscAccepts ==
    ASSUME Types, Held, Users, "misc" \in res, ~vd.removing
    PROVE  Accepting
<1>1. "misc" \in Holding(thread, vd.dma)
  BY DEF Held, OfDevice
<1>2. thread.mode # "probe"
  BY <1>1 DEF Holding, HeldAt, Mapped, Rings
<1>3. thread.mode \in {"unwind", "remove"} => thread.at \in {"removing", "misc"}
  BY <1>1 DEF Holding, AheadOf, Mapped, Rings, Last, Types, OnPath, ExitAt
<1>4. thread.mode # "end"
  BY <1>1 DEF Holding
<1> QED
  BY <1>2, <1>3, <1>4 DEF Types, OnPath, Users, Accepting, Leaving

LEMMA EndpointUsers ==
    ASSUME Types, Held, Users, Apart,
           \/ EndpointCompletes
           \/ EngineReset \/ \E k \in {"queue", "device"} : EndpointReset(k)
           \/ \E v \in Vectors : IrqStart(v)
    PROVE  Users'
<1>1. UNCHANGED <<work, file, call, lock, test>>
  BY DEF EndpointCompletes, EndpointReset, EngineReset, IrqStart
<1>2. \A v \in irq' : v \in Vectors /\ v \in res
  BY DEF EndpointCompletes, EndpointReset, EngineReset, IrqStart, Users
<1> QED
  BY <1>1, <1>2, ApartUsers DEF Users

LEMMA ContextUsers ==
    ASSUME Types, Held, Users, Apart,
           CqIrq \/ AsyncIrq \/ PollWork \/ ResetWork \/ \E w \in Works : WorkStart(w)
    PROVE  Users'
<1>0. vd \in VdType /\ work \in WorkType /\ \A f \in Files : file'[f].open = file[f].open
  BY ContextTypes DEF Types
<1>1. irq' \subseteq irq /\ UNCHANGED <<call, lock>>
  BY DEF CqIrq, AsyncIrq, PollWork, ResetWork, WorkStart
<1>2. test' = "none" => test = "none"
  BY DEF CqIrq, AsyncIrq, PollWork, ResetWork, WorkStart, TestDrained
<1>3. "poll" \in work'.queued \cup work'.running => "poll" \in work.queued \cup work.running
  <2>1. CASE CqIrq \/ ResetWork \/ \E w \in Works : WorkStart(w)
    BY <1>0, <2>1 DEF CqIrq, ResetWork, WorkStart, WorkType
  <2>2. CASE AsyncIrq
    <3>1. work' = ObserveReset(vd, work).work
      BY <2>2 DEF AsyncIrq
    <3> QED
      BY <1>0, <3>1, ObserveType
  <2>3. CASE PollWork
    BY <2>3 DEF PollWork
  <2> QED
    BY <2>1, <2>2, <2>3
<1> QED
  BY <1>0, <1>1, <1>2, <1>3, ApartUsers DEF Users

LEMMA CallUsers ==
    ASSUME Types, Held, Users, Apart, NEW f \in Files, Calls(f)
    PROVE  Users'
<1>0. /\ Open(f) \/ \A g \in Files : file'[g].open => file[g].open
      /\ \A g \in Files \ {f} : file'[g].open => file[g].open
  BY CallTypes
<1>1. UNCHANGED <<irq, test>>
  BY DEF Calls, Open, SubmitStart, SubmitDrain, SubmitEnd, Reap, Register, Unregister,
         PollStart, PollReady, PollRead, Close
<1>2. Open(f) => Accepting
  BY MiscAccepts DEF Open
<1>3. \A g \in Files : file'[g].open => file[g].open \/ Accepting
  BY <1>0, <1>2
<1>4. call \in [Files -> {"none", "submit", "drained", "poll", "pollread"}]
      /\ work \in WorkType
  BY DEF Types
<1>5. \A g \in Files : call'[g] \in {"submit", "drained"} => lock' = g /\ Accepting
  <2>1. CASE SubmitStart(f)
    <3>1. Accepting
      BY <2>1 DEF SubmitStart, Idle, Users
    <3>2. \A g \in Files \ {f} : call[g] \notin {"submit", "drained"}
      BY <2>1, LifecycleAssumption DEF SubmitStart, Users
    <3> QED
      BY <1>4, <2>1, <3>1, <3>2 DEF SubmitStart
  <2>2. CASE SubmitDrain(f)
    BY <1>4, <2>2 DEF SubmitDrain, Users
  <2>3. CASE SubmitEnd(f)
    <3>1. \A g \in Files \ {f} : call[g] \notin {"submit", "drained"}
      BY <2>3 DEF SubmitEnd, Users
    <3> QED
      BY <1>4, <2>3, <3>1 DEF SubmitEnd
  <2>4. CASE PollStart(f) \/ PollReady(f) \/ PollRead(f)
    BY <1>4, <2>4 DEF PollStart, PollReady, PollRead, Users
  <2>5. CASE Open(f) \/ Reap(f) \/ Register(f) \/ Unregister(f) \/ Close(f)
    BY <2>5 DEF Open, Reap, Register, Unregister, Close, Users
  <2> QED
    BY <2>1, <2>2, <2>3, <2>4, <2>5 DEF Calls
<1>6. "poll" \in work'.queued \cup work'.running =>
         Accepting \/ "poll" \in work.queued \cup work.running
  <2>1. CASE SubmitEnd(f)
    BY <2>1 DEF SubmitEnd, Users
  <2>2. CASE ~SubmitEnd(f)
    BY <2>2 DEF Calls, Open, SubmitStart, SubmitDrain, Reap, Register, Unregister,
                PollStart, PollReady, PollRead, Close
  <2> QED
    BY <2>1, <2>2
<1> QED
  BY <1>1, <1>3, <1>5, <1>6, ApartUsers DEF Users

(* While probe runs nobody is in the driver but the self-test's poller. *)
LEMMA ProbeUsers ==
    ASSUME Types, Held, Users, Probe
    PROVE  Users'
<1>0. thread.mode = "probe" /\ ~Accepting
  BY DEF Probe, ProbeAcquire, ProbeValidate, ProbeRings, ProbeMaster, ProbeUnmask,
         ProbeSelftest, ProbePolltest, ProbePolltestEnd, ProbeChardev, Probing,
         Accepting, Leaving
<1>1. UNCHANGED <<irq, file, call, lock>> /\ res \subseteq res'
  BY DEF Probe, ProbeAcquire, ProbeValidate, ProbeRings, ProbeMaster, ProbeUnmask,
         ProbeSelftest, ProbePolltest, ProbePolltestEnd, ProbeChardev
<1>2. vd'.removing = vd.removing
  BY DEF Probe, ProbeAcquire, ProbeValidate, ProbeRings, ProbeMaster, ProbeUnmask,
         ProbeSelftest, ProbePolltest, ProbePolltestEnd, ProbeChardev, ChardevFailed,
         ConfigureFailed, Types, VdType
<1>3. ~Leaving("misc")'
  <2>1. \A x \in ProbeAt : ErrorLabel(x) # "misc" /\ (x \in Injectable => InjectLabel(x) # "misc")
    BY DEF ErrorLabel, InjectLabel, Injectable, ProbeAt
  <2>2. thread.at \in ProbeAt
    BY <1>0 DEF Types, OnPath
  <2>3. \/ thread' = thread \/ Proceed(thread.at) \/ UnwindFrom(ErrorLabel(thread.at))
    BY DEF Probe, ProbeAcquire, ProbeValidate, ProbeRings, ProbeMaster, ProbeUnmask,
           ProbeSelftest, ProbePolltest, ProbePolltestEnd, ProbeChardev, Probing
  <2>4. [thread EXCEPT !.at = After(ProbeSteps, thread.at)].mode = "probe"
    BY <1>0 DEF Types, OnPath
  <2>5. CASE thread' = thread \/ thread' = [thread EXCEPT !.at = After(ProbeSteps, thread.at)]
    BY <1>0, <2>4, <2>5 DEF Leaving
  <2>6. CASE thread' = [mode |-> "bound", at |-> "bound"]
    BY <2>6 DEF Leaving
  <2>7. CASE thread.at \in Injectable /\ thread' = [mode |-> "unwind", at |-> InjectLabel(thread.at)]
    BY <2>1, <2>2, <2>7 DEF Leaving
  <2>8. CASE thread' = [mode |-> "unwind", at |-> ErrorLabel(thread.at)]
    BY <2>1, <2>2, <2>8 DEF Leaving
  <2> QED
    BY <2>3, <2>5, <2>6, <2>7, <2>8 DEF Proceed, UnwindFrom
<1>4. "poll" \notin work.queued \cup work.running \/ test # "none"
  BY <1>0 DEF Users, Accepting, Leaving
<1>5. "poll" \in work'.queued \cup work'.running /\ test' = "none" => Accepting'
  <2>1. CASE ProbeChardev
    <3>1. CASE Proceed("chardev")
      BY <3>1 DEF Proceed, Injectable, InjectLabel, UnwindFrom, Accepting, Leaving
    <3>2. CASE UNCHANGED <<work, test>>
      BY <1>4, <3>2
    <3> QED
      BY <2>1, <3>1, <3>2 DEF ProbeChardev
  <2>2. CASE ProbePolltest
    BY <1>4, <2>2 DEF ProbePolltest
  <2>3. CASE ~ProbeChardev /\ ~ProbePolltest
    <3>1. UNCHANGED <<work, test>>
      BY <2>3 DEF Probe, ProbeAcquire, ProbeValidate, ProbeRings, ProbeMaster, ProbeUnmask,
                  ProbeSelftest, ProbePolltestEnd
    <3> QED
      BY <1>4, <3>1
  <2> QED
    BY <2>1, <2>2, <2>3
<1> QED
  BY <1>0, <1>1, <1>2, <1>3, <1>5 DEF Users

LEMMA RemoveUsers ==
    ASSUME Types, Users, RemoveStart
    PROVE  Users'
  BY DEF Users, RemoveStart, Accepting, Leaving

(* where a step of the way back leads to *)
LEMMA ExitDone ==
    ASSUME Types, NEW s, Leaving(s), Done(s)
    PROVE  /\ thread'.mode = thread.mode /\ thread'.at = After(ExitSteps, s)
           /\ \A x : Leaving(x)' <=> x = After(ExitSteps, s)
  BY DEF Types, OnPath, Leaving, Done

(* The way back: no submission is under way once removing is set, and the  *)
(* poller has ended when its cancellation returns.                         *)
LEMMA ExitUsers ==
    ASSUME Types, Held, Users, Exit
    PROVE  Users'
<1>0. \A f \in Files : file'[f].open = file[f].open
  BY ExitKeeps
<1>v. vd \in VdType /\ work \in WorkType /\ file \in [Files -> FileType]
  BY DEF Types
<1>1. CASE ExitRemoving
  <2>1. Leaving("misc")'
    BY <1>1, ExitDone, ExitOrder DEF ExitRemoving
  <2>2. vd'.removing
    BY <1>1, <1>v DEF ExitRemoving, VdType
  <2>3. \A f \in Files : call'[f] \notin {"submit", "drained"}
    BY <1>1, LifecycleAssumption DEF ExitRemoving, Users
  <2> QED
    BY <1>1, <2>1, <2>2, <2>3 DEF ExitRemoving, Users
<1>2. CASE ~ExitRemoving
  <2> DEFINE s == thread.at
  <2>1. /\ Leaving(s) /\ s # "removing" /\ s \in ExitAt
    BY <1>2 DEF Exit, ExitQuiesce, ExitCancelRequests, ExitPut, ExitRelease, ExitCancel,
                Canceling, ExitFreeIrq, Leaving, Types, OnPath, Vectors
  <2>2. ~Accepting
    BY <2>1 DEF Accepting, Leaving
  <2>3. \/ s # "put" /\ Done(s)
        \/ s = "put" /\ thread'.mode = "end"
    BY <1>2, <2>1 DEF Exit, ExitQuiesce, ExitCancelRequests, ExitPut, ExitRelease, ExitCancel,
                 Canceling, ExitFreeIrq, Leaving, Vectors
  <2>4. \A x : Leaving(x)' => s # "put" /\ x = After(ExitSteps, s)
    BY <2>1, <2>3, ExitDone DEF Leaving
  <2>5. ~Leaving("misc")'
    BY <2>1, <2>4, ExitOrder DEF ExitAt
  <2>6. vd'.removing = vd.removing
    <3>1. CASE ExitQuiesce
      BY <1>v, <3>1 DEF ExitQuiesce, VdType
    <3>2. CASE ExitCancelRequests
      BY <1>v, <3>2, FinishPuts DEF ExitCancelRequests, Tracked, Puts
    <3>3. CASE ExitPut
      BY <1>v, <3>3, DevicePuts DEF ExitPut, Puts
    <3> QED
      BY <1>2, <3>1, <3>2, <3>3 DEF Exit, ExitRelease, ExitCancel, ExitFreeIrq
  <2>7. UNCHANGED <<irq, call, lock>>
    BY <1>2 DEF Exit, ExitQuiesce, ExitCancelRequests, ExitPut, ExitRelease, ExitCancel, ExitFreeIrq
  <2>8. \A v \in irq : v \in res'
    <3>1. ASSUME NEW v \in irq, NEW x, x # v PROVE v \notin Releases(x)
      BY <3>1 DEF Releases, Users, Vectors
    <3>2. \A v \in irq : v \in Vectors /\ v \in res
      BY DEF Users
    <3>3. CASE ExitCancelRequests
      <4>1. Puts(vd, res)
        BY <1>v, <3>3, FinishPuts DEF ExitCancelRequests, Tracked
      <4> QED
        BY <3>2, <4>1 DEF Puts, Vectors, OfDevice
    <3>4. CASE ExitPut
      <4>1. Puts(vd, res \ Releases("put"))
        BY <1>v, <3>4, DevicePuts DEF ExitPut
      <4> QED
        BY <3>1, <3>2, <4>1 DEF Puts, Vectors, OfDevice
    <3>5. CASE ExitQuiesce \/ \E w \in Works : ExitCancel(w)
      BY <3>1, <3>2, <3>5 DEF ExitQuiesce, ExitCancel, Vectors
    <3>6. ASSUME NEW x \in {"misc", "vectors", "rings", "bar", "region", "enable"}, ExitRelease(x)
          PROVE  \A v \in irq : v \in res'
      BY <3>1, <3>2, <3>6 DEF ExitRelease, Vectors
    <3>7. ASSUME NEW x \in Vectors, ExitFreeIrq(x) PROVE \A v \in irq : v \in res'
      BY <3>1, <3>2, <3>7 DEF ExitFreeIrq
    <3> QED
      BY <1>2, <3>3, <3>4, <3>5, <3>6, <3>7 DEF Exit
  <2>9. "poll" \in work'.queued \cup work'.running /\ test' = "none" => Leaving("pollcancel")'
    <3>1. ASSUME ExitRelease("misc") PROVE Leaving("pollcancel")'
      BY <3>1, ExitDone, ExitOrder DEF ExitRelease
    <3>2. ASSUME ExitCancel("poll") PROVE "poll" \notin work'.queued \cup work'.running
      BY <1>v, <3>2 DEF ExitCancel, WorkType
    <3>3. CASE s \notin {"misc", "pollcancel"}
      <4>1. "poll" \notin work.queued \cup work.running \/ test # "none"
        BY <2>1, <2>2, <3>3 DEF Users, Leaving
      <4>2. /\ test' = "none" => test = "none"
            /\ "poll" \in work'.queued \cup work'.running => "poll" \in work.queued \cup work.running
        BY <1>2, <1>v DEF Exit, ExitQuiesce, ExitCancelRequests, ExitPut, ExitRelease, ExitCancel,
                          ExitFreeIrq, WorkType
      <4> QED
        BY <4>1, <4>2
    <3>4. s = "misc" => ExitRelease("misc")
      BY <1>2 DEF Exit, ExitQuiesce, ExitCancelRequests, ExitPut, ExitRelease, ExitCancel,
                  Canceling, ExitFreeIrq, Leaving, Vectors
    <3>5. s = "pollcancel" => ExitCancel("poll")
      BY <1>2 DEF Exit, ExitQuiesce, ExitCancelRequests, ExitPut, ExitRelease, ExitCancel,
                  Canceling, ExitFreeIrq, Leaving, Vectors, Works
    <3> QED
      BY <3>1, <3>2, <3>3, <3>4, <3>5
  <2> QED
    BY <1>0, <2>2, <2>5, <2>6, <2>7, <2>8, <2>9 DEF Users
<1> QED
  BY <1>1, <1>2

LEMMA InitUsers == Init => Users
  BY DEF Init, Users, NewFile, Leaving

LEMMA NextUsers == Types /\ Held /\ Users /\ [Next]_vars => Users'
<1> SUFFICES ASSUME Types, Held, Users, [Next]_vars PROVE Users'
  OBVIOUS
<1>1. CASE UNCHANGED vars
  BY <1>1 DEF vars, Users, Accepting, Leaving
<1>2. CASE Contexts \/ EndpointCompletes
             \/ EngineReset \/ (\E k \in {"queue", "device"} : EndpointReset(k))
             \/ (\E f \in Files : Calls(f))
  <2>1. Apart
    BY <1>2, ApartSteps
  <2> QED
    BY <1>2, <2>1, EndpointUsers, ContextUsers, CallUsers DEF Contexts
<1> QED
  BY <1>1, <1>2, ProbeUsers, RemoveUsers, ExitUsers DEF Next

(* The BAR and the rings outlive the handlers, and are there until         *)
(* quiescing.                                                              *)
LEMMA MappedThen ==
    ASSUME Types, Held,
           \/ Accepting \/ Leaving("misc") \/ Leaving("pollcancel") \/ Leaving("quiesce")
           \/ \E v \in Vectors : v \in res
    PROVE  "bar" \in res /\ (vd.dma => "rings" \in res)
<1>1. CASE Accepting \/ Leaving("misc") \/ Leaving("pollcancel") \/ Leaving("quiesce")
  BY <1>1 DEF Held, Holding, AheadOf, Mapped, Rings, Accepting, Leaving
<1>2. ASSUME NEW v \in Vectors, v \in res
      PROVE  "bar" \in res /\ (vd.dma => "rings" \in res)
  <2>1. v \in Holding(thread, vd.dma)
    BY <1>2 DEF Held, Vectors, OfDevice
  <2>2. \A x \in ProbeAt : v \in HeldAt(x, vd.dma) =>
           "bar" \in HeldAt(x, vd.dma) /\ (vd.dma => "rings" \in HeldAt(x, vd.dma))
    BY DEF HeldAt, Mapped, Rings, Vectors, ProbeAt
  <2>3. \A x \in ExitAt : v \in AheadOf(x, vd.dma, thread.mode) =>
           /\ "bar" \in AheadOf(x, vd.dma, thread.mode)
           /\ vd.dma => "rings" \in AheadOf(x, vd.dma, thread.mode)
    BY DEF AheadOf, Mapped, Rings, Last, Vectors, ExitAt
  <2>4. "bar" \in Holding(thread, vd.dma) /\ (vd.dma => "rings" \in Holding(thread, vd.dma))
    <3>1. CASE thread.mode = "probe"
      BY <2>1, <2>2, <3>1 DEF Holding, Types, OnPath
    <3>2. CASE thread.mode \in {"unwind", "remove"}
      BY <2>1, <2>3, <3>2 DEF Holding, Types, OnPath
    <3>3. CASE thread.mode = "bound"
      BY <3>3 DEF Holding, AheadOf, Mapped, Rings
    <3>4. CASE thread.mode = "end"
      BY <2>1, <3>4 DEF Holding
    <3> QED
      BY <3>1, <3>2, <3>3, <3>4 DEF Types, OnPath
  <2> QED
    BY <2>4 DEF Held
<1> QED
  BY <1>1, <1>2

(* No handler, work or submitter uses BAR0 or a ring that is gone: what    *)
(* vams_probe's labels and vams_remove wait for before they unmap and free *)
(* is enough for any number of files.                                      *)
THEOREM AccessTheorem == Spec => []AccessIsMapped
<1>1. Types /\ Held /\ Users => AccessIsMapped
  <2> SUFFICES ASSUME Types, Held, Users PROVE AccessIsMapped
    OBVIOUS
  <2> DEFINE mapped == "bar" \in res /\ (vd.dma => "rings" \in res)
  <2>1. irq # {} => mapped
    BY MappedThen DEF Users
  <2>2. "poll" \in work.running /\ PollWorkStops => mapped
    BY MappedThen DEF Users, PollWorkStops
  <2>3. \A f \in Files : call[f] \in {"submit", "drained"} => mapped
    BY MappedThen DEF Users
  <2>4. Leaving("quiesce") => mapped
    BY MappedThen
  <2> QED
    BY <2>1, <2>2, <2>3, <2>4 DEF AccessIsMapped
<1> QED
  BY <1>1, InitHeld, NextHeld, InitUsers, NextUsers, PTL DEF Spec

-----------------------------------------------------------------------------
(* The queues *)

LEMMA EndpointConfigured ==
    ASSUME ~EarlyResets, Types, Configured, Apart,
           \/ EndpointCompletes
           \/ EngineReset \/ \E k \in {"queue", "device"} : EndpointReset(k)
           \/ \E v \in Vectors : IrqStart(v)
    PROVE  Configured'
<1>0. /\ dev \in DevType /\ "cqirq" \in Vectors /\ "asyncirq" \in Vectors
      /\ thread' = thread /\ vd' = vd
  BY DEF Types, Vectors, EndpointCompletes, EndpointReset, EngineReset, IrqStart
<1>1. Queues' = Queues
  BY <1>0 DEF Queues, Leaving
<1>2. CASE EndpointCompletes \/ \E v \in Vectors : IrqStart(v)
  <2>1. dev'.on = dev.on /\ dev'.reset = dev.reset
    BY <1>0, <1>2, RaiseType DEF EndpointCompletes, IrqStart, DevType
  <2> QED
    BY <1>0, <1>1, <2>1 DEF Configured
<1>3. ASSUME NEW k \in {"queue", "device"}, EndpointReset(k) PROVE Configured'
  <2> DEFINE d(b) == [dev EXCEPT !.reset = k, !.resets = @ + 1, !.on = FALSE, !.masked = b]
             masked == dev.masked \/ k = "device"
  <2>1. \A b \in BOOLEAN : d(b) \in DevType /\ d(b).on = FALSE
    <3> TAKE b \in BOOLEAN
    <3>1. dev.resets + 1 \in Int /\ k \in {"none", "engine", "queue", "device"}
      BY <1>0 DEF DevType
    <3>2. d(b) \in DevType
      BY <1>0, <3>1, Zenon DEF DevType
    <3> QED
      BY <1>0, <3>2, Zenon DEF DevType
  <2>2. masked \in BOOLEAN
    OBVIOUS
  <2>3. dev' = IF k = "device" THEN Raise(d(masked), "asyncirq") ELSE d(masked)
    BY <1>3 DEF EndpointReset
  <2> HIDE DEF d, masked
  <2>a. PICK e \in DevType : /\ e.on = FALSE
                            /\ dev' = IF k = "device" THEN Raise(e, "asyncirq") ELSE e
    BY <2>1, <2>2, <2>3, Zenon
  <2>4. ~dev'.on
    BY <1>0, <2>a, RaiseType
  <2>5. ~(thread.mode = "probe" /\ ~vd.ready)
    BY <1>3 DEF EndpointReset
  <2> QED
    BY <1>0, <1>1, <2>4, <2>5 DEF Configured
<1>4. CASE EngineReset
  <2>1. dev'.on = dev.on /\ dev'.reset = "engine"
    BY <1>0, <1>4 DEF EngineReset, DevType
  <2> QED
    BY <1>0, <1>1, <2>1 DEF Configured
<1> QED
  BY <1>2, <1>3, <1>4

LEMMA ApartConfigured ==
    ASSUME ~EarlyResets, Types, Configured, Apart,
           \/ Contexts \/ EndpointCompletes
           \/ EngineReset \/ \E k \in {"queue", "device"} : EndpointReset(k)
           \/ \E f \in Files : Calls(f)
    PROVE  Configured'
<1>1. Queues' = Queues /\ thread' = thread /\ vd'.dma = vd.dma
  BY DEF Queues, Leaving, Apart
<1>2. CASE CqIrq \/ AsyncIrq \/ PollWork \/ ResetWork \/ \E w \in Works : WorkStart(w)
  <2>1. Settles
    BY <1>2, ContextTypes
  <2> QED
    BY <1>1, <2>1 DEF Settles, Configured
<1>3. ASSUME NEW f \in Files, Calls(f) PROVE Configured'
  <2>1. vd'.ready = vd.ready /\ vd'.stale = vd.stale
    BY <1>3, CallTypes
  <2>2. dev' = dev
    BY <1>3 DEF Calls, Open, SubmitStart, SubmitDrain, SubmitEnd, Reap, Register, Unregister,
                PollStart, PollReady, PollRead, Close
  <2> QED
    BY <1>1, <2>1, <2>2 DEF Configured
<1> QED
  BY <1>2, <1>3, EndpointConfigured DEF Contexts

(* Where a step of probe leads to with its queues on, or not yet. *)
LEMMA ProbePlaces ==
    ASSUME Types, NEW s \in ProbeAt, Probing(s),
           Proceed(s) \/ UnwindFrom(ErrorLabel(s))
    PROVE  /\ s \in Late => Queues' /\ (thread'.mode = "probe" => thread'.at \in Late)
           /\ s = "master" /\ Proceed(s) => thread'.mode = "probe" /\ thread'.at \in Late
           /\ s = "master" /\ ~Proceed(s) => thread'.mode = "unwind"
<1>1. thread = [mode |-> "probe", at |-> s]
  BY DEF Probing, Types, OnPath
<1>2. CASE s # "chardev" /\ thread' = [mode |-> "probe", at |-> After(ProbeSteps, s)]
  BY <1>2, ProbeOrder DEF Late, Queues, Proceed, UnwindFrom, ProbeAt
<1>3. CASE s = "chardev" /\ thread' = [mode |-> "bound", at |-> "bound"]
  BY <1>3 DEF Late, Queues
<1>4. CASE s \in Injectable /\ thread' = [mode |-> "unwind", at |-> InjectLabel(s)]
  BY <1>4 DEF Late, Queues, Injectable, InjectLabel, Leaving
<1>5. CASE UnwindFrom(ErrorLabel(s))
  BY <1>5, <1>1 DEF Late, Queues, ErrorLabel, UnwindFrom, Leaving, Proceed, Injectable
<1>6. [thread EXCEPT !.at = After(ProbeSteps, s)] = [mode |-> "probe", at |-> After(ProbeSteps, s)]
  BY <1>1
<1> QED
  BY <1>2, <1>3, <1>4, <1>5, <1>6 DEF Proceed, UnwindFrom

LEMMA ProbeConfigured ==
    ASSUME Types, Configured, Probe
    PROVE  Configured'
<1>0. vd \in VdType /\ dev \in DevType /\ {"cqirq", "asyncirq"} \subseteq Vectors
  BY DEF Types, Vectors
<1>p. ASSUME NEW s, Probing(s), s \notin Late
      PROVE  ~dev.on /\ ~vd.ready /\ ~vd.stale /\ dev.reset \notin {"queue", "device"}
  BY <1>p DEF Configured, Queues, Probing, Leaving
<1>1. CASE (\E s \in Plain : ProbeAcquire(s)) \/ ProbeRings
  <2>1. PICK s \in Plain \cup {"rings"} : Probing(s) /\ UNCHANGED <<vd, dev>>
    BY <1>1 DEF ProbeAcquire, ProbeRings
  <2>2. s \notin Late
    BY DEF Plain, Late
  <2> QED
    BY <1>p, <2>1, <2>2 DEF Configured
<1>2. CASE ProbeValidate
  <2>1. Probing("validate") /\ "validate" \notin Late
    BY <1>2 DEF ProbeValidate, Late
  <2>2. /\ dev'.on = dev.on /\ dev'.reset = "none"
        /\ vd'.ready = vd.ready /\ vd'.stale = vd.stale
    BY <1>0, <1>2 DEF ProbeValidate, VdType, DevType
  <2> QED
    BY <1>p, <2>1, <2>2 DEF Configured
<1>3. CASE ProbeMaster
  <2>1. Probing("master") /\ "master" \notin Late /\ "master" \in ProbeAt
    BY <1>3 DEF ProbeMaster, Late, ProbeAt
  <2>2. ~dev.on /\ ~vd.ready /\ ~vd.stale /\ dev.reset \notin {"queue", "device"}
    BY <1>p, <2>1
  <2>3. \A b \in BOOLEAN : /\ [vd EXCEPT !.ready = b].stale = vd.stale
                           /\ [vd EXCEPT !.ready = b].dma = vd.dma
                           /\ [vd EXCEPT !.ready = b].ready <=> b
                           /\ [dev EXCEPT !.on = b].on <=> b
                           /\ [dev EXCEPT !.on = b].reset = dev.reset
    BY <1>0 DEF VdType, DevType
  <2>4. vd.dma \in BOOLEAN
    BY <1>0 DEF VdType
  <2>5. CASE /\ vd' = [vd EXCEPT !.ready = vd.dma] /\ dev' = [dev EXCEPT !.on = vd.dma]
             /\ Proceed("master")
    <3>1. thread'.mode = "probe" /\ thread'.at \in Late
      BY <2>1, <2>5, ProbePlaces
    <3> QED
      BY <2>2, <2>3, <2>4, <2>5, <3>1 DEF Configured, Queues
  <2>6. CASE ConfigureFailed /\ UnwindFrom(ErrorLabel("master"))
    <3>1. thread'.mode = "unwind"
      BY <2>6 DEF UnwindFrom
    <3> QED
      BY <2>3, <2>6, <3>1 DEF Configured, ConfigureFailed
  <2> QED
    BY <1>3, <2>5, <2>6 DEF ProbeMaster
<1>4. CASE \/ ProbeUnmask \/ \E s \in {"irqtest", "noptest"} : ProbeSelftest(s)
           \/ ProbePolltest \/ ProbePolltestEnd \/ ProbeChardev
  <2>1. PICK s \in Late : /\ Probing(s)
                          /\ \/ Proceed(s) \/ UnwindFrom(ErrorLabel(s)) \/ UNCHANGED thread
    BY <1>4 DEF ProbeUnmask, ProbeSelftest, ProbePolltest, ProbePolltestEnd, ProbeChardev, Late
  <2>2. Queues' /\ (thread'.mode = "probe" => thread'.at \in Late)
    <3>1. CASE UNCHANGED thread
      BY <2>1, <3>1 DEF Queues, Probing
    <3>2. CASE Proceed(s) \/ UnwindFrom(ErrorLabel(s))
      BY <2>1, <3>2, ProbePlaces DEF Late, ProbeAt
    <3> QED
      BY <2>1, <3>1, <3>2
  <2>3. [dev EXCEPT !.pending = @ \ {"cqirq"}] \in DevType
        /\ [dev EXCEPT !.pending = @ \ {"cqirq"}].on = dev.on
        /\ [dev EXCEPT !.pending = @ \ {"cqirq"}].reset = dev.reset
    BY <1>0 DEF DevType
  <2>4. \A d \in {Raise(dev, "cqirq"), Raise(Raise(dev, "cqirq"), "asyncirq"),
                  Unmask(dev, {}), Unmask(dev, {"cqirq"}),
                  Unmask([dev EXCEPT !.pending = @ \ {"cqirq"}], {}), dev} :
           d.on = dev.on /\ d.reset = dev.reset
    <3>1. \A e \in DevType, v \in Vectors : /\ Raise(e, v) \in DevType
                                            /\ Raise(e, v).on = e.on
                                            /\ Raise(e, v).reset = e.reset
      BY RaiseType
    <3>2. \A M : \A e \in DevType : /\ Unmask(e, M).on = e.on
                                    /\ Unmask(e, M).reset = e.reset
      BY UnmaskType
    <3>3. /\ Raise(Raise(dev, "cqirq"), "asyncirq").on = dev.on
          /\ Raise(Raise(dev, "cqirq"), "asyncirq").reset = dev.reset
          /\ Raise(dev, "cqirq").on = dev.on /\ Raise(dev, "cqirq").reset = dev.reset
      BY <1>0, <3>1
    <3> DEFINE e == [dev EXCEPT !.pending = @ \ {"cqirq"}]
    <3>4. Unmask(e, {}).on = dev.on /\ Unmask(e, {}).reset = dev.reset
      <4>1. e \in DevType /\ e.on = dev.on /\ e.reset = dev.reset
        BY <2>3
      <4> HIDE DEF e
      <4> QED
        BY <3>2, <4>1
    <3>5. /\ Unmask(dev, {}).on = dev.on /\ Unmask(dev, {}).reset = dev.reset
          /\ Unmask(dev, {"cqirq"}).on = dev.on /\ Unmask(dev, {"cqirq"}).reset = dev.reset
      BY <1>0, <3>2
    <3> QED
      BY <3>3, <3>4, <3>5, Zenon
  <2>5. dev' \in {Raise(dev, "cqirq"), Raise(Raise(dev, "cqirq"), "asyncirq"),
                  Unmask(dev, {}), Unmask(dev, {"cqirq"}),
                  Unmask([dev EXCEPT !.pending = @ \ {"cqirq"}], {}), dev}
    BY <1>4 DEF ProbeUnmask, ProbeSelftest, ProbePolltest, ProbePolltestEnd, ProbeChardev
  <2>6. vd'.ready = vd.ready /\ vd'.stale = vd.stale /\ vd'.dma = vd.dma
    BY <1>0, <1>4 DEF ProbeUnmask, ProbeSelftest, ProbePolltest, ProbePolltestEnd, ProbeChardev,
                      ChardevFailed, VdType
  <2> QED
    BY <2>2, <2>4, <2>5, <2>6 DEF Configured
<1> QED
  BY <1>1, <1>2, <1>3, <1>4 DEF Probe

LEMMA RemoveConfigured ==
    ASSUME Types, Configured, RemoveStart
    PROVE  Configured'
  BY DEF Configured, RemoveStart, Queues, Leaving

(* Quiescing turns the queues off; after it nothing turns them on. *)
LEMMA ExitConfigured ==
    ASSUME Types, Configured, Exit
    PROVE  Configured'
<1>v. vd \in VdType /\ dev \in DevType /\ file \in [Files -> FileType]
  BY DEF Types
<1> DEFINE s == thread.at
<1>1. Leaving(s) /\ s \in ExitAt
  BY DEF Exit, ExitRemoving, ExitQuiesce, ExitCancelRequests, ExitPut, ExitRelease, ExitCancel,
         Canceling, ExitFreeIrq, Leaving, Types, OnPath, Vectors
<1>2. \/ s # "put" /\ Done(s)
      \/ s = "put" /\ thread'.mode = "end"
  BY <1>1 DEF Exit, ExitRemoving, ExitQuiesce, ExitCancelRequests, ExitPut, ExitRelease, ExitCancel,
              Canceling, ExitFreeIrq, Leaving, Vectors
<1>3. thread'.mode # "probe"
  BY <1>1, <1>2, ExitDone DEF Leaving
<1>4. CASE ExitQuiesce
  <2>1. ~dev'.on
    <3>1. \A q : \A b \in BOOLEAN :
             [dev EXCEPT !.masked = TRUE, !.on = b, !.pending = q].on = b
      BY <1>v, Zenon DEF DevType
    <3>2. (dev.on /\ ~vd.ready) = FALSE
      BY DEF Configured
    <3>3. dev' = [dev EXCEPT !.masked = TRUE, !.on = dev.on /\ ~vd.ready,
                             !.pending = IF thread.mode = "remove" THEN {} ELSE @]
      BY <1>4 DEF ExitQuiesce
    <3> QED
      BY <3>1, <3>2, <3>3
  <2> QED
    BY <1>3, <2>1 DEF Configured
<1>5. CASE ~ExitQuiesce
  <2>1. dev'.on = dev.on /\ dev'.reset = dev.reset
    BY <1>v, <1>5 DEF Exit, ExitRemoving, ExitCancelRequests, ExitPut, ExitRelease, ExitCancel,
                      ExitFreeIrq, DevType
  <2>2. vd'.ready = vd.ready /\ vd'.stale = vd.stale /\ vd'.dma = vd.dma
    <3>1. CASE ExitRemoving
      BY <1>v, <3>1 DEF ExitRemoving, VdType
    <3>2. CASE ExitCancelRequests
      BY <1>v, <3>2, FinishPuts DEF ExitCancelRequests, Tracked, Puts
    <3>3. CASE ExitPut
      BY <1>v, <3>3, DevicePuts DEF ExitPut, Puts
    <3> QED
      BY <1>5, <3>1, <3>2, <3>3 DEF Exit, ExitRelease, ExitCancel, ExitFreeIrq
  <2>3. s # "quiesce"
    BY <1>1, <1>5 DEF Exit, ExitRemoving, ExitCancelRequests, ExitPut, ExitRelease, ExitCancel,
                      Canceling, ExitFreeIrq, Leaving, Vectors
  <2>4. Queues => s \in {"removing", "misc", "pollcancel"}
    BY <1>1, <2>3 DEF Queues, Leaving
  <2>5. s \in {"removing", "misc", "pollcancel"} => Queues'
    BY <1>1, <1>2, ExitDone, ExitOrder DEF Queues
  <2> QED
    BY <1>3, <2>1, <2>2, <2>4, <2>5 DEF Configured
<1> QED
  BY <1>4, <1>5

LEMMA InitConfigured == Init => Configured
  BY DEF Init, Configured

LEMMA NextConfigured ==
    ASSUME ~EarlyResets
    PROVE  Types /\ Held /\ Configured /\ [Next]_vars => Configured'
<1> SUFFICES ASSUME Types, Held, Configured, [Next]_vars PROVE Configured'
  OBVIOUS
<1>1. CASE UNCHANGED vars
  BY <1>1 DEF vars, Configured, Queues, Leaving
<1>2. CASE Contexts \/ EndpointCompletes
             \/ EngineReset \/ (\E k \in {"queue", "device"} : EndpointReset(k))
             \/ (\E f \in Files : Calls(f))
  <2>1. Apart
    BY <1>2, ApartSteps
  <2> QED
    BY <1>2, <2>1, ApartConfigured
<1> QED
  BY <1>1, <1>2, ProbeConfigured, RemoveConfigured, ExitConfigured DEF Next

(* The endpoint's queues are enabled only while the rings exist, as long   *)
(* as nobody resets the endpoint before vams_configure_queues has run:     *)
(* vams_disable_queues, which a queue that is not ready skips, then always *)
(* comes before the rings are freed.                                       *)
THEOREM QueuesTheorem == ASSUME ~EarlyResets PROVE Spec => []QueuesHaveRings
<1>1. Types /\ Held /\ Configured => QueuesHaveRings
  <2> SUFFICES ASSUME Types, Held, Configured, dev.on PROVE "rings" \in res
    BY DEF QueuesHaveRings
  <2>1. vd.dma /\ Queues
    BY DEF Configured
  <2>2. "rings" \in Holding(thread, vd.dma)
    BY <2>1 DEF Queues, Holding, HeldAt, AheadOf, Mapped, Rings, Late, Leaving
  <2> QED
    BY <2>2 DEF Held
<1> QED
  BY <1>1, InitHeld, NextHeld, InitConfigured, NextConfigured, PTL DEF Spec
=============================================================================
