----------------------- MODULE DriverReferenceProofs -----------------------
(***************************************************************************)
(* The references of requests, buffers, files and struct vams_device, on   *)
(* top of DriverUnwindProofs: what holds which reference at any time, and  *)
(* that what the last one frees is used by nobody.                         *)
(*                                                                         *)
(* A leaf goes to Zenon unless it says otherwise.                          *)
(***************************************************************************)
EXTENDS DriverUnwindProofs

USE ZenonT(20)

-----------------------------------------------------------------------------
(* The invariant *)

Submitting(c) == c \in {"submit", "drained"}

(* a request of a file exists *)
Asked(q, c) == Submitting(c) \/ q.tracked \/ q.filed

One(b) == IF b THEN 1 ELSE 0

(* What a file, its request and its buffer are: the file is referenced by  *)
(* its descriptor and by its request, a buffer by the handle of an open    *)
(* file and by the request that uses it.                                   *)
FileFits(q, c) ==
    /\ q.refs = One(q.open) + One(Asked(q, c))
    /\ q.uses => Asked(q, c)
    /\ q.open /\ q.uses => q.buffer = 2
    /\ q.open /\ ~q.uses => q.buffer \in {0, 1}
    /\ ~q.open => q.buffer = One(q.uses)
    /\ c # "none" \/ q.filed => q.open
    /\ Submitting(c) => ~q.tracked /\ ~q.filed
    /\ ~q.used => q = NewFile /\ c = "none"

AliveFiles == {f \in Files : file[f].refs > 0}

(* struct vams_device is referenced by probe until the last step of the    *)
(* way back, and by every file; it is freed with the last reference.       *)
Counted ==
    /\ vd.refs = One(thread.mode # "end") + Cardinality(AliveFiles)
    /\ vd.freed <=> vd.refs = 0
    /\ vd.freed => res \cap OfDevice = {}

(* where requests may still be in the device's table *)
RequestPlace ==
    \/ thread.mode = "bound"
    \/ \E s \in {"removing", "misc", "pollcancel", "quiesce", "asyncirq", "cqirq",
                 "resetcancel", "cancelrequests"} : Leaving(s)

(* where reset_work may still be queued or run *)
ResetPlace ==
    \/ thread.mode = "bound"
    \/ thread.mode = "probe" /\ thread.at \in Late \cup {"master"}
    \/ \E s \in {"removing", "misc", "pollcancel", "quiesce", "asyncirq", "cqirq",
                 "resetcancel"} : Leaving(s)

Stops ==
    /\ Tracked # {} => RequestPlace
    /\ "reset" \in work.queued \cup work.running /\ test = "none" => ResetPlace
    /\ lock # "free" => lock \in Files /\ Submitting(call[lock])

References ==
    /\ \A f \in Files : FileFits(file[f], call[f])
    /\ Counted /\ Stops

-----------------------------------------------------------------------------
(* Counting *)

(* The device counts its files fl, those in A referenced, and own.         *)
Counts(fl, v, r, own, A) ==
    /\ fl \in [Files -> FileType] /\ v \in VdType /\ own \in {0, 1}
    /\ A \in SUBSET Files /\ \A f \in Files : fl[f].refs > 0 <=> f \in A
    /\ v.refs = own + Cardinality(A)
    /\ v.freed <=> v.refs = 0
    /\ v.freed => r \cap OfDevice = {}

(* Putting the references of files keeps the count of the device's.        *)
LEMMA PutCounts ==
    ASSUME NEW fl, NEW v, NEW r, NEW S, NEW own, NEW A,
           Counts(fl, v, r, own, A), S \in SUBSET A, FilePut(fl, v, r, S)
    PROVE  /\ vd'.refs = own + Cardinality(AliveFiles')
           /\ vd'.freed <=> vd'.refs = 0
           /\ vd'.freed => res' \cap OfDevice = {}
           /\ \A f \in Files : file'[f] = IF f \in S THEN [fl[f] EXCEPT !.refs = @ - 1]
                                           ELSE fl[f]
<1>0. /\ fl \in [Files -> FileType] /\ v \in VdType /\ own \in {0, 1}
      /\ A \in SUBSET Files /\ \A f \in Files : fl[f].refs > 0 <=> f \in A
      /\ v.refs = own + Cardinality(A)
      /\ v.freed <=> v.refs = 0
      /\ v.freed => r \cap OfDevice = {}
  BY DEF Counts
<1> USE <1>0
<1> DEFINE gone == {f \in S : fl[f].refs = 1}
           n == Cardinality(gone)
           last == n > 0 /\ v.refs = n
<1>1. /\ file' = [f \in Files |-> IF f \in S THEN [fl[f] EXCEPT !.refs = @ - 1]
                                  ELSE fl[f]]
      /\ vd' = [v EXCEPT !.refs = @ - n, !.freed = @ \/ last]
      /\ res' = IF last THEN r \ OfDevice ELSE r
  BY DEF FilePut, DevicePut
<1>2. \A f \in Files : fl[f].refs \in Int
  BY DEF FileType
<1>3. AliveFiles' = A \ gone /\ A \cap gone = gone
  <2>1. ASSUME NEW f \in Files PROVE file'[f].refs > 0 <=> f \in A /\ f \notin gone
    <3>1. CASE f \in S
      <4>1. file'[f].refs = fl[f].refs - 1
        BY <1>1, <3>1, SMTT(20) DEF FileType
      <4> QED
        BY <1>2, <3>1, <4>1, SMTT(20)
    <3>2. CASE f \notin S
      BY <1>1, <3>2
    <3> QED
      BY <3>1, <3>2
  <2> QED
    BY <2>1 DEF AliveFiles
<1>4. IsFiniteSet(A) /\ IsFiniteSet(gone) /\ n \in Nat /\ Cardinality(A) \in Nat
  <2>1. IsFiniteSet(A) /\ IsFiniteSet(gone)
    <3>1. gone \subseteq Files /\ IsFiniteSet(Files)
      BY LifecycleAssumption
    <3> QED
      BY <3>1, FS_Subset
  <2> QED
    BY <2>1, FS_CardinalityType
<1>5. Cardinality(A \ gone) = Cardinality(A) - n
  <2>1. Cardinality(A \ gone) = Cardinality(A) - Cardinality(A \cap gone)
    <3> HIDE DEF gone
    <3> QED
      BY <1>4, FS_Difference
  <2> QED
    BY <1>3, <2>1
<1>6. Cardinality(A \ gone) \in Nat
  <2>1. IsFiniteSet(A \ gone)
    BY <1>4, FS_Difference
  <2> QED
    BY <2>1, FS_CardinalityType
<1> HIDE DEF n, gone
<1>7. vd'.refs = v.refs - n /\ vd'.freed = (v.freed \/ last)
  BY <1>1, SMTT(20) DEF VdType
<1>8. vd'.refs = own + Cardinality(AliveFiles')
  BY <1>3, <1>4, <1>5, <1>7, SMTT(20)
<1>9. vd'.freed <=> vd'.refs = 0
  <2>1. v.refs - n = own + Cardinality(A \ gone)
    BY <1>4, <1>5, SMTT(20)
  <2> DEFINE m == Cardinality(A \ gone)
             a == Cardinality(A)
  <2>2. m \in Nat /\ a \in Nat /\ n \in Nat /\ v.refs - n = own + m /\ m = a - n
    BY <1>4, <1>5, <1>6, <2>1
  <2>3. v.refs = own + a /\ v.freed <=> v.refs = 0
    OBVIOUS
  <2>4. v.freed \in BOOLEAN /\ v.refs \in Int
    BY DEF VdType
  <2> HIDE DEF m, a
  <2>5. (v.refs = 0 \/ last) <=> v.refs - n = 0
    BY <2>2, <2>3, <2>4, SMTT(20)
  <2> QED
    BY <1>7, <2>5
<1>10. vd'.freed => res' \cap OfDevice = {}
  BY <1>1, <1>7
<1>11. \A f \in Files : file'[f] = IF f \in S THEN [fl[f] EXCEPT !.refs = @ - 1]
                                   ELSE fl[f]
  BY <1>1
<1> QED
  BY <1>8, <1>9, <1>10, <1>11

-----------------------------------------------------------------------------
(* Requests *)

(* The rest of a file does not change with one field of it. *)
LEMMA TrackedField ==
    ASSUME NEW q \in FileType, NEW b \in BOOLEAN, NEW p, p = [q EXCEPT !.tracked = b]
    PROVE  /\ p \in FileType /\ p.tracked = b
           /\ p.refs = q.refs /\ p.open = q.open /\ p.filed = q.filed
           /\ p.uses = q.uses /\ p.buffer = q.buffer /\ p.used = q.used
<1>1. p \in FileType
  BY SMTT(20) DEF FileType
<1>2. p.tracked = b
  BY SMTT(20) DEF FileType
<1>3. /\ p.refs = q.refs /\ p.open = q.open /\ p.filed = q.filed
      /\ p.uses = q.uses /\ p.buffer = q.buffer /\ p.used = q.used
  BY SMTT(20) DEF FileType
<1> QED
  BY <1>1, <1>2, <1>3

(* Nor does it with its count of references. *)
LEMMA RefsField ==
    ASSUME NEW q \in FileType, NEW n \in Int, NEW p, p = [q EXCEPT !.refs = n]
    PROVE  /\ p \in FileType /\ p.refs = n
           /\ p.open = q.open /\ p.filed = q.filed /\ p.tracked = q.tracked
           /\ p.uses = q.uses /\ p.buffer = q.buffer /\ p.used = q.used
<1>1. p \in FileType
  BY SMTT(20) DEF FileType
<1>2. p.refs = n
  BY SMTT(20) DEF FileType
<1>3. /\ p.open = q.open /\ p.filed = q.filed /\ p.tracked = q.tracked
      /\ p.uses = q.uses /\ p.buffer = q.buffer /\ p.used = q.used
  BY SMTT(20) DEF FileType
<1> QED
  BY <1>1, <1>2, <1>3

(* vams_request_put gives back the buffer of a request and nothing else.   *)
LEMMA GoneFields ==
    ASSUME NEW q \in FileType
    PROVE  /\ RequestGone(q).refs = q.refs /\ RequestGone(q).open = q.open
           /\ RequestGone(q).tracked = q.tracked /\ RequestGone(q).filed = q.filed
           /\ RequestGone(q).used = q.used /\ RequestGone(q).uses = FALSE
           /\ RequestGone(q).buffer = q.buffer - One(q.uses)
<1>1. q.buffer - 0 = q.buffer
  BY SMTT(20) DEF FileType
<1> QED
  BY <1>1, SMTT(20) DEF RequestGone, FileType, One

(* A file that is not as it was allocated was used.                        *)
LEMMA UsedFits ==
    ASSUME NEW q, NEW c, FileFits(q, c), q.open \/ q.tracked \/ q.filed \/ c # "none"
    PROVE  q.used
<1>1. ~NewFile.open /\ ~NewFile.tracked /\ ~NewFile.filed
  BY SMTT(20) DEF NewFile
<1> QED
  BY <1>1 DEF FileFits

(* A request that leaves the device's table, and with it the file if       *)
(* nothing else holds the request.                                         *)
LEMMA FinishedFits ==
    ASSUME NEW q \in FileType, NEW c, FileFits(q, c), q.tracked,
           NEW p \in FileType, p.open = q.open, p.used = q.used, ~p.tracked,
           p.filed = q.filed,
           \/ q.filed /\ p.refs = q.refs /\ p.uses = q.uses /\ p.buffer = q.buffer
           \/ /\ ~q.filed /\ p.refs = q.refs - 1 /\ ~p.uses
              /\ p.buffer = q.buffer - One(q.uses)
    PROVE  FileFits(p, c)
<1>1. ~Submitting(c) /\ p.used
  BY UsedFits DEF FileFits
<1>2. CASE q.filed
  BY <1>1, <1>2 DEF FileFits, Asked
<1>3. CASE ~q.filed
  <2>1. Asked(q, c) /\ ~Asked(p, c) /\ One(TRUE) = 1 /\ One(FALSE) = 0
    BY <1>1, <1>3 DEF Asked, One
  <2>2. p.refs = One(p.open) + 0
    BY <1>3, <2>1, SMTT(20) DEF FileFits, One
  <2>3. /\ q.buffer \in Int /\ p.open \in BOOLEAN /\ q.uses \in BOOLEAN
        /\ q.open /\ q.uses => q.buffer = 2
        /\ q.open /\ ~q.uses => q.buffer \in {0, 1}
        /\ ~q.open => q.buffer = One(q.uses)
    BY DEF FileFits, FileType
  <2>4. /\ p.open => p.buffer \in {0, 1}
        /\ ~p.open => p.buffer = 0
    BY <1>3, <2>3, SMTT(20) DEF One
  <2>5. c # "none" \/ p.filed => p.open
    BY DEF FileFits
  <2> QED
    BY <1>1, <1>3, <2>1, <2>2, <2>4, <2>5 DEF FileFits, One
<1> QED
  BY <1>2, <1>3

(* The device's requests are terminal: every file, its request and its     *)
(* buffer, and the count of the device's references fit again.             *)
LEMMA FinishCounts ==
    ASSUME file \in [Files -> FileType], \A f \in Files : FileFits(file[f], call[f]),
           NEW v \in VdType, NEW r, NEW S \in SUBSET Tracked, NEW own \in {0, 1},
           Finish(S, v, r),
           v.refs = own + Cardinality(AliveFiles), v.freed <=> v.refs = 0,
           v.freed => r \cap OfDevice = {}
    PROVE  /\ vd'.refs = own + Cardinality(AliveFiles')
           /\ vd'.freed <=> vd'.refs = 0
           /\ vd'.freed => res' \cap OfDevice = {}
           /\ \A f \in Files : FileFits(file'[f], call[f])
           /\ \A f \in Files : file'[f].tracked => file[f].tracked /\ f \notin S
<1> DEFINE gone == {f \in S : ~file[f].filed}
           done(f) == [file[f] EXCEPT !.tracked = FALSE]
           fl == [f \in Files |->
                    IF f \notin S THEN file[f]
                    ELSE IF f \in gone THEN RequestGone(done(f)) ELSE done(f)]
<1>1. S \in SUBSET Files /\ \A f \in S : file[f].tracked
  BY DEF Tracked
<1>2. \A f \in Files :
         /\ done(f) \in FileType /\ done(f).refs = file[f].refs
         /\ done(f).open = file[f].open /\ ~done(f).tracked
         /\ done(f).filed = file[f].filed /\ done(f).used = file[f].used
         /\ done(f).uses = file[f].uses /\ done(f).buffer = file[f].buffer
  <2> TAKE f \in Files
  <2> DEFINE q == file[f]
             p == done(f)
  <2>1. q \in FileType /\ FALSE \in BOOLEAN /\ p = [q EXCEPT !.tracked = FALSE]
    OBVIOUS
  <2> HIDE DEF q, p, done
  <2>2. /\ p \in FileType /\ p.tracked = FALSE
        /\ p.refs = q.refs /\ p.open = q.open /\ p.filed = q.filed
        /\ p.uses = q.uses /\ p.buffer = q.buffer /\ p.used = q.used
    BY <2>1, TrackedField
  <2> QED
    BY <2>2 DEF q, p
<1>3. FilePut(fl, v, r, gone)
  BY DEF Finish
<1> HIDE DEF done
<1>4. \A f \in Files :
         /\ RequestGone(done(f)) \in FileType
         /\ RequestGone(done(f)).refs = file[f].refs
         /\ RequestGone(done(f)).open = file[f].open
         /\ ~RequestGone(done(f)).tracked
         /\ RequestGone(done(f)).filed = file[f].filed
         /\ RequestGone(done(f)).used = file[f].used
         /\ RequestGone(done(f)).uses = FALSE
         /\ RequestGone(done(f)).buffer = file[f].buffer - One(file[f].uses)
  <2> TAKE f \in Files
  <2> DEFINE d == done(f)
  <2>1. /\ d \in FileType /\ d.refs = file[f].refs /\ d.open = file[f].open
        /\ ~d.tracked /\ d.filed = file[f].filed /\ d.used = file[f].used
        /\ d.uses = file[f].uses /\ d.buffer = file[f].buffer
    BY <1>2
  <2> HIDE DEF d
  <2>2. RequestGone(d) \in FileType
    BY <2>1, GoneType
  <2>3. /\ RequestGone(d).refs = d.refs /\ RequestGone(d).open = d.open
        /\ RequestGone(d).tracked = d.tracked /\ RequestGone(d).filed = d.filed
        /\ RequestGone(d).used = d.used /\ RequestGone(d).uses = FALSE
        /\ RequestGone(d).buffer = d.buffer - One(d.uses)
    BY <2>1, GoneFields
  <2> QED
    BY <2>1, <2>2, <2>3 DEF d
<1>5. /\ fl \in [Files -> FileType] /\ \A f \in Files : fl[f].refs = file[f].refs
      /\ gone \in SUBSET Files
  BY <1>1, <1>2, <1>4
<1>6. \A f \in gone : f \in AliveFiles
  <2>1. ASSUME NEW f \in gone PROVE file[f].refs > 0
    <3>1. file[f].refs = One(file[f].open) + 1
      BY <1>1, <2>1 DEF FileFits, Asked, One
    <3> QED
      BY <3>1, SMTT(20) DEF One
  <2> QED
    BY <1>1, <2>1 DEF AliveFiles
<1>7. Counts(fl, v, r, own, AliveFiles)
  BY <1>5 DEF AliveFiles, Counts
<1>8. /\ vd'.refs = own + Cardinality(AliveFiles')
      /\ vd'.freed <=> vd'.refs = 0
      /\ vd'.freed => res' \cap OfDevice = {}
      /\ \A f \in Files : file'[f] = IF f \in gone THEN [fl[f] EXCEPT !.refs = @ - 1]
                                      ELSE fl[f]
  <2>1. gone \in SUBSET AliveFiles
    BY <1>6
  <2> HIDE DEF fl, gone
  <2> QED
    BY <1>3, <1>7, <2>1, PutCounts, SMTT(20)
<1>9. ASSUME NEW f \in Files
      PROVE  /\ FileFits(file'[f], call[f])
             /\ file'[f].tracked => file[f].tracked /\ f \notin S
  <2>1. CASE f \notin S
    BY <1>8, <2>1
  <2>2. CASE f \in S /\ file[f].filed
    <3>1. file'[f] = done(f)
      BY <1>8, <2>2
    <3>2. file[f] \in FileType /\ file[f].tracked /\ FileFits(file[f], call[f])
      BY <1>1, <2>2
    <3>3. /\ file'[f] \in FileType /\ file'[f].refs = file[f].refs
          /\ file'[f].open = file[f].open /\ ~file'[f].tracked
          /\ file'[f].filed = file[f].filed /\ file'[f].used = file[f].used
          /\ file'[f].uses = file[f].uses /\ file'[f].buffer = file[f].buffer
      BY <1>2, <3>1
    <3>4. FileFits(file'[f], call[f])
      BY <2>2, <3>2, <3>3, FinishedFits
    <3> QED
      BY <3>3, <3>4
  <2>3. CASE f \in S /\ ~file[f].filed
    <3> DEFINE g == RequestGone(done(f))
    <3>1. file'[f] = [g EXCEPT !.refs = @ - 1]
      BY <1>8, <2>3
    <3>2. g \in FileType
      BY <1>4
    <3> HIDE DEF g
    <3>3. /\ file'[f] \in FileType /\ file'[f].refs = g.refs - 1
          /\ file'[f].open = g.open /\ file'[f].tracked = g.tracked
          /\ file'[f].filed = g.filed /\ file'[f].used = g.used
          /\ file'[f].uses = g.uses /\ file'[f].buffer = g.buffer
      BY <3>1, <3>2, SMTT(20) DEF FileType
    <3>4. /\ g.refs = file[f].refs /\ g.open = file[f].open /\ ~g.tracked
          /\ g.filed = file[f].filed /\ g.used = file[f].used /\ g.uses = FALSE
          /\ g.buffer = file[f].buffer - One(file[f].uses)
      BY <1>4 DEF g
    <3>5. file[f] \in FileType /\ file[f].tracked
      BY <1>1, <2>3
    <3>6. FileFits(file'[f], call[f])
      BY <2>3, <3>3, <3>4, <3>5, FinishedFits
    <3> QED
      BY <3>3, <3>4, <3>6
  <2> QED
    BY <2>1, <2>2, <2>3
<1> QED
  BY <1>8, <1>9

-----------------------------------------------------------------------------
(* What a system call makes of its file *)

(* the state of a file in vams_submit does not tell the two parts of it    *)
LEMMA DrainedFits ==
    ASSUME NEW q, FileFits(q, "submit")
    PROVE  FileFits(q, "drained")
  BY DEF FileFits, Asked, Submitting

(* vams_submit is entered: the request takes a reference on the file and   *)
(* on a buffer.                                                            *)
LEMMA SubmitFits ==
    ASSUME NEW q \in FileType, FileFits(q, "none"), q.open, ~q.tracked, ~q.filed,
           NEW p \in FileType, p.open, ~p.tracked, ~p.filed, p.used,
           p.refs = q.refs + 1,
           \/ ~p.uses /\ p.buffer = q.buffer
           \/ p.uses /\ q.buffer > 0 /\ p.buffer = q.buffer + 1
    PROVE  FileFits(p, "submit") /\ q.refs = 1
<1>1. ~Asked(q, "none") /\ Asked(p, "submit") /\ ~q.uses
  BY DEF FileFits, Asked, Submitting
<1>2. q.refs = 1 /\ p.refs = 2
  BY <1>1, SMTT(20) DEF FileFits, One
<1>3. q.buffer \in {0, 1}
  BY <1>1 DEF FileFits
<1>4. (p.uses => p.buffer = 2) /\ (~p.uses => p.buffer \in {0, 1})
  BY <1>3, SMTT(20)
<1>5. p.refs = One(p.open) + One(Asked(p, "submit"))
  BY <1>1, <1>2, SMTT(20) DEF One
<1> QED
  BY <1>1, <1>2, <1>4, <1>5 DEF FileFits

(* it leaves with the request tracked, and filed                           *)
LEMMA AcceptedFits ==
    ASSUME NEW q \in FileType, FileFits(q, "drained"),
           NEW p \in FileType, p.open = q.open, p.tracked, p.filed, p.used = q.used,
           p.refs = q.refs, p.uses = q.uses, p.buffer = q.buffer
    PROVE  FileFits(p, "none")
<1>1. q.open /\ q.used /\ Asked(q, "drained") /\ Asked(p, "none")
  BY UsedFits DEF FileFits, Asked, Submitting
<1> QED
  BY <1>1 DEF FileFits, One, Submitting

(* The last reference to a request goes, with its buffer and the file's,   *)
(* when vams_submit fails or the request is reaped.                        *)
LEMMA ReleasedFits ==
    ASSUME NEW q \in FileType, NEW c, FileFits(q, c), Asked(q, c), ~q.tracked, q.open,
           NEW p \in FileType, p.open, ~p.tracked, ~p.filed, p.used = q.used, ~p.uses,
           p.refs = q.refs - 1, p.buffer = q.buffer - One(q.uses)
    PROVE  FileFits(p, "none")
<1>1. ~Asked(p, "none") /\ q.used
  BY UsedFits DEF Asked, Submitting
<1>2. q.refs = 2
  BY SMTT(20) DEF FileFits, One
<1>3. p.refs = One(p.open) + One(Asked(p, "none"))
  BY <1>1, <1>2, SMTT(20) DEF One
<1>4. (q.uses => q.buffer = 2) /\ (~q.uses => q.buffer \in {0, 1})
  BY DEF FileFits
<1>5. p.buffer \in {0, 1}
  BY <1>4, SMTT(20) DEF One
<1> QED
  BY <1>1, <1>3, <1>5 DEF FileFits, Submitting

(* VAMS_IOCTL_BUFFER_REGISTER and VAMS_IOCTL_BUFFER_UNREGISTER: no request *)
(* uses the buffer.                                                        *)
LEMMA BufferFits ==
    ASSUME NEW q \in FileType, NEW c, FileFits(q, c), q.open, ~q.uses,
           NEW p \in FileType, p.open, p.tracked = q.tracked, p.filed = q.filed,
           p.used = q.used, ~p.uses, p.refs = q.refs, p.buffer \in {0, 1}
    PROVE  FileFits(p, c)
<1>1. q.used
  BY UsedFits
<1> QED
  BY <1>1 DEF FileFits, Asked

(* vams_release: the handle of the buffer and the file's descriptor go, and *)
(* a request that is terminal goes with them.                              *)
LEMMA ClosedFits ==
    ASSUME NEW q \in FileType, FileFits(q, "none"), q.open,
           NEW p \in FileType, ~p.open, ~p.filed, p.used = q.used, p.tracked = q.tracked,
           NEW b \in Int, b = (IF q.buffer > 0 THEN q.buffer - 1 ELSE 0),
           \/ /\ q.filed /\ ~q.tracked /\ p.refs = q.refs - 2 /\ ~p.uses
              /\ p.buffer = b - One(q.uses)
           \/ /\ ~q.filed \/ q.tracked
              /\ p.refs = q.refs - 1 /\ p.uses = q.uses /\ p.buffer = b
    PROVE  FileFits(p, "none")
<1>1. q.used /\ (Asked(p, "none") <=> q.tracked) /\ (Asked(q, "none") <=> q.tracked \/ q.filed)
  BY UsedFits DEF Asked, Submitting
<1>2. /\ q.tracked \/ q.filed => q.refs = 2
      /\ ~q.tracked /\ ~q.filed => q.refs = 1 /\ ~q.uses
  <2>1. q.uses => q.tracked \/ q.filed
    BY <1>1 DEF FileFits
  <2>2. q.refs = 1 + One(Asked(q, "none"))
    BY DEF FileFits, One
  <2>3. q.refs = 1 + 1 \/ q.refs = 1 + 0
    BY <2>2 DEF One
  <2>4. CASE q.tracked \/ q.filed
    <3>1. q.refs = 1 + 1
      BY <1>1, <2>2, <2>4 DEF One
    <3> QED
      BY <2>4, <3>1, SMTT(20)
  <2>5. CASE ~q.tracked /\ ~q.filed
    <3>1. q.refs = 1 + 0
      BY <1>1, <2>2, <2>5 DEF One
    <3> QED
      BY <2>1, <2>5, <3>1, SMTT(20)
  <2> QED
    BY <2>4, <2>5
<1>3. b = One(q.uses)
  <2>1. (q.uses => q.buffer = 2) /\ (~q.uses => q.buffer \in {0, 1})
    BY DEF FileFits
  <2>2. CASE q.uses
    BY <2>1, <2>2, SMTT(20) DEF One
  <2>3. CASE ~q.uses
    BY <2>1, <2>3, SMTT(20) DEF One
  <2> QED
    BY <2>2, <2>3
<1>4. p.buffer = One(p.uses)
  <2>1. CASE q.filed /\ ~q.tracked
    <3>1. One(q.uses) \in Int
      BY SMTT(20) DEF One
    <3> QED
      BY <1>3, <2>1, <3>1, SMTT(20) DEF One
  <2>2. CASE ~q.filed \/ q.tracked
    BY <1>3, <2>2
  <2> QED
    BY <2>1, <2>2
<1>5. p.refs = One(q.tracked)
  BY <1>2, SMTT(20) DEF One
<1>6. One(p.open) + One(Asked(p, "none")) = One(q.tracked)
  BY <1>1, SMTT(20) DEF One
<1>7. p.uses => Asked(p, "none")
  BY <1>1, <1>2
<1> QED
  BY <1>1, <1>4, <1>5, <1>6, <1>7 DEF FileFits, Submitting

-----------------------------------------------------------------------------
(* The references of files and of the device, step by step *)

Fit == \A f \in Files : FileFits(file[f], call[f])

(* the reference of probe, until the last step of the way back *)
Own == One(thread.mode # "end")

LEMMA OwnSame ==
    ASSUME thread'.mode = "end" <=> thread.mode = "end"
    PROVE  Own' = Own
  BY DEF Own, One

LEMMA CountedIs ==
    ASSUME Types, Counted
    PROVE  Counts(file, vd, res, Own, AliveFiles)
<1>1. Own \in {0, 1}
  BY DEF Own, One
<1>2. AliveFiles \in SUBSET Files /\ \A f \in Files : file[f].refs > 0 <=> f \in AliveFiles
  BY DEF AliveFiles
<1> QED
  BY <1>1, <1>2 DEF Types, Counted, Counts, Own

(* While probe, the bound device or the way back has its reference the     *)
(* device structure is there.                                              *)
LEMMA NotFreed ==
    ASSUME Types, Counted, thread.mode # "end"
    PROVE  ~vd.freed /\ vd.refs = 1 + Cardinality(AliveFiles) /\ Cardinality(AliveFiles) \in Nat
<1>1. Cardinality(AliveFiles) \in Nat
  <2>1. AliveFiles \subseteq Files /\ IsFiniteSet(Files)
    BY LifecycleAssumption DEF AliveFiles
  <2> QED
    BY <2>1, FS_Subset, FS_CardinalityType
<1>2. vd.refs = 1 + Cardinality(AliveFiles)
  BY DEF Counted, One
<1>3. vd.refs # 0
  BY <1>1, <1>2, SMTT(20)
<1> QED
  BY <1>1, <1>2, <1>3 DEF Counted

LEMMA SameCounts ==
    ASSUME Counted, AliveFiles' = AliveFiles, vd'.refs = vd.refs, vd'.freed = vd.freed,
           thread'.mode = "end" <=> thread.mode = "end",
           vd.freed => res' \cap OfDevice = {}
    PROVE  Counted'
<1>1. One(thread'.mode # "end") = One(thread.mode # "end")
  BY DEF One
<1> QED
  BY <1>1 DEF Counted

(* A file changes, and stays referenced or not. *)
LEMMA FileChanges ==
    ASSUME Types, Fit, Counted, NEW f \in Files, NEW q, FileFits(q, call'[f]),
           file' = [file EXCEPT ![f] = q], q.refs > 0 <=> file[f].refs > 0,
           \A g \in Files \ {f} : call'[g] = call[g],
           vd'.refs = vd.refs, vd'.freed = vd.freed, res' = res, thread' = thread
    PROVE  Fit' /\ Counted'
<1>1. \A g \in Files : file'[g] = IF g = f THEN q ELSE file[g]
  BY DEF Types
<1>2. Fit'
  BY <1>1 DEF Fit
<1>3. AliveFiles' = AliveFiles
  BY <1>1 DEF AliveFiles
<1>4. Counted'
  BY <1>3, SameCounts DEF Counted
<1> QED
  BY <1>2, <1>4

(* A file changes and gives up a reference, perhaps its last. *)
LEMMA FileGivesUp ==
    ASSUME Types, Fit, Counted, NEW f \in Files, NEW q \in FileType, NEW p,
           FilePut([file EXCEPT ![f] = q], vd, res, {f}),
           q.refs > 0, file[f].refs > 0, p = [q EXCEPT !.refs = @ - 1],
           FileFits(p, call'[f]),
           \A g \in Files \ {f} : call'[g] = call[g], thread' = thread
    PROVE  Fit' /\ Counted' /\ \A g \in Files : file'[g] = IF g = f THEN p ELSE file[g]
<1> DEFINE fl == [file EXCEPT ![f] = q]
           own == Own
           A == AliveFiles
           S == {f}
<1>1. Counts(file, vd, res, own, A)
  BY CountedIs
<1>2. /\ fl \in [Files -> FileType]
      /\ \A g \in Files : fl[g] = IF g = f THEN q ELSE file[g]
  BY DEF Types
<1>3. \A g \in Files : fl[g].refs > 0 <=> g \in A
  BY <1>2 DEF AliveFiles
<1>4. S \in SUBSET A /\ FilePut(fl, vd, res, S) /\ \A g : g \in S <=> g = f
  BY DEF AliveFiles
<1> HIDE DEF fl, own, A, S
<1>5. Counts(fl, vd, res, own, A)
  BY <1>1, <1>2, <1>3 DEF Counts
<1>6. /\ vd'.refs = own + Cardinality(AliveFiles')
      /\ vd'.freed <=> vd'.refs = 0
      /\ vd'.freed => res' \cap OfDevice = {}
      /\ \A g \in Files : file'[g] = IF g \in S THEN [fl[g] EXCEPT !.refs = @ - 1]
                                     ELSE fl[g]
  BY <1>4, <1>5, PutCounts, SMTT(20)
<1>7. own = One(thread'.mode # "end")
  BY DEF own, Own
<1>8. Counted'
  BY <1>6, <1>7 DEF Counted
<1>9. \A g \in Files : file'[g] = IF g = f THEN p ELSE file[g]
  BY <1>2, <1>4, <1>6
<1>10. Fit'
  BY <1>9 DEF Fit
<1> QED
  BY <1>8, <1>9, <1>10

(* The requests of the files in S are terminal. *)
LEMMA FinishRefers ==
    ASSUME Types, Fit, Counted, NEW v \in VdType, v.refs = vd.refs, v.freed = vd.freed,
           NEW S \in SUBSET Tracked, Finish(S, v, res),
           thread'.mode = "end" <=> thread.mode = "end"
    PROVE  /\ \A f \in Files : FileFits(file'[f], call[f])
           /\ Counted'
           /\ \A f \in Files : file'[f].tracked => file[f].tracked /\ f \notin S
<1> DEFINE own == Own
<1>1. own \in {0, 1} /\ own = One(thread'.mode # "end")
  BY DEF Own, One
<1>2. /\ v.refs = own + Cardinality(AliveFiles) /\ (v.freed <=> v.refs = 0)
      /\ v.freed => res \cap OfDevice = {}
  BY DEF Counted, Own
<1>3. file \in [Files -> FileType] /\ \A f \in Files : FileFits(file[f], call[f])
  BY DEF Types, Fit
<1> HIDE DEF own
<1>4. /\ vd'.refs = own + Cardinality(AliveFiles')
      /\ vd'.freed <=> vd'.refs = 0
      /\ vd'.freed => res' \cap OfDevice = {}
      /\ \A f \in Files : FileFits(file'[f], call[f])
      /\ \A f \in Files : file'[f].tracked => file[f].tracked /\ f \notin S
  BY <1>1, <1>2, <1>3, FinishCounts, SMTT(20)
<1>5. Counted'
  BY <1>1, <1>4 DEF Counted
<1> QED
  BY <1>4, <1>5

-----------------------------------------------------------------------------
(* The system calls *)

(* a request comes into the device's table only from within vams_submit    *)
Enters(f) == \A g \in Files : file'[g].tracked => file[g].tracked \/ call[f] = "drained"

LEMMA OpenRefers ==
    ASSUME Types, Held, Users, Fit, Counted, NEW f \in Files, Open(f)
    PROVE  Fit' /\ Counted' /\ Enters(f)
<1> DEFINE q == [NewFile EXCEPT !.refs = 1, !.open = TRUE, !.used = TRUE]
<1>1. file[f] = NewFile /\ call[f] = "none"
  BY DEF Open, Fit, FileFits
<1>2. /\ q.refs = 1 /\ q.open = TRUE /\ q.used = TRUE /\ q.tracked = FALSE
      /\ q.filed = FALSE /\ q.uses = FALSE /\ q.buffer = 0 /\ NewFile.refs = 0
  BY SMTT(20) DEF NewFile
<1>3. file' = [file EXCEPT ![f] = q] /\ call' = call
  BY DEF Open
<1> HIDE DEF q
<1>4. \A g \in Files : file'[g] = IF g = f THEN q ELSE file[g]
  BY <1>3 DEF Types
<1>5. FileFits(q, "none")
  <2>1. ~Asked(q, "none")
    BY <1>2 DEF Asked, Submitting
  <2>2. q.refs = One(q.open) + One(Asked(q, "none"))
    BY <1>2, <2>1, SMTT(20) DEF One
  <2> QED
    BY <1>2, <2>1, <2>2 DEF FileFits, Submitting
<1>6. Fit'
  BY <1>1, <1>3, <1>4, <1>5 DEF Fit
<1>7. Accepting
  BY MiscAccepts DEF Open
<1>8. thread.mode # "end"
  BY <1>7 DEF Accepting, Leaving
<1>9. ~vd.freed /\ vd.refs = 1 + Cardinality(AliveFiles) /\ Cardinality(AliveFiles) \in Nat
  BY <1>8, NotFreed
<1>10. AliveFiles' = AliveFiles \cup {f} /\ f \notin AliveFiles
  <2>1. 1 > 0 /\ ~(0 > 0)
    BY SMTT(20)
  <2> QED
    BY <1>1, <1>2, <1>4, <2>1 DEF AliveFiles
<1>11. Cardinality(AliveFiles') = Cardinality(AliveFiles) + 1
  <2>1. IsFiniteSet(AliveFiles)
    <3>1. AliveFiles \subseteq Files /\ IsFiniteSet(Files)
      BY LifecycleAssumption DEF AliveFiles
    <3> QED
      BY <3>1, FS_Subset
  <2> QED
    BY <1>10, <2>1, FS_AddElement
<1>12. vd'.refs = vd.refs + 1 /\ vd'.freed = vd.freed
  <2>1. vd \in VdType /\ vd' = [vd EXCEPT !.refs = @ + 1]
    BY DEF Types, Open
  <2> QED
    BY <2>1, SMTT(20) DEF VdType
<1>13. One(thread'.mode # "end") = 1
  BY <1>8 DEF Open, One
<1>14. vd'.refs = One(thread'.mode # "end") + Cardinality(AliveFiles') /\ vd'.refs # 0
  BY <1>9, <1>11, <1>12, <1>13, SMTT(20)
<1>15. Counted'
  BY <1>9, <1>12, <1>14 DEF Counted
<1> QED
  BY <1>2, <1>4, <1>6, <1>15 DEF Enters

LEMMA SubmitRefers ==
    ASSUME Types, Fit, Counted, NEW f \in Files, SubmitStart(f)
    PROVE  Fit' /\ Counted' /\ Enters(f)
<1>1. PICK b \in {FALSE, file[f].buffer > 0} :
         file' = [file EXCEPT ![f].refs = @ + 1, ![f].uses = b,
                              ![f].buffer = IF b THEN @ + 1 ELSE @]
  BY DEF SubmitStart
<1> DEFINE q == file[f]
           m == q.refs + 1
           n == IF b THEN q.buffer + 1 ELSE q.buffer
           p == [q EXCEPT !.refs = m, !.uses = b, !.buffer = n]
<1>2. b \in BOOLEAN /\ (b => q.buffer > 0)
  <2>1. (q.buffer > 0) \in BOOLEAN
    BY SMTT(20)
  <2> QED
    BY <2>1
<1>3. q \in FileType /\ file \in [Files -> FileType]
  BY DEF Types
<1>4. file' = [file EXCEPT ![f] = p]
  BY <1>1, <1>3
<1>5. m \in Int /\ n \in Int
  BY <1>3, SMTT(20) DEF FileType
<1>6. /\ q.open /\ ~q.tracked /\ ~q.filed /\ call[f] = "none" /\ FileFits(q, "none")
      /\ call'[f] = "submit" /\ (\A g \in Files \ {f} : call'[g] = call[g])
      /\ UNCHANGED <<vd, res, thread>>
  BY DEF SubmitStart, Idle, Fit, Types
<1> HIDE DEF q
<1>7. q.used
  BY <1>6, UsedFits
<1>8. n = q.buffer \/ (b /\ n = q.buffer + 1)
  OBVIOUS
<1>9. ~b => n = q.buffer
  OBVIOUS
<1>10. m = q.refs + 1
  OBVIOUS
<1>11. b => n = q.buffer + 1
  OBVIOUS
<1> HIDE DEF m, n
<1>12. p \in FileType
  BY <1>2, <1>3, <1>5 DEF FileType
<1>13. /\ p.refs = m /\ p.uses = b /\ p.buffer = n /\ p.open = q.open
       /\ p.tracked = q.tracked /\ p.filed = q.filed /\ p.used = q.used
  BY <1>3, SMTT(20) DEF FileType
<1> HIDE DEF p
<1>14. FileFits(p, "submit") /\ q.refs = 1
  <2>1. \/ ~p.uses /\ p.buffer = q.buffer
        \/ p.uses /\ q.buffer > 0 /\ p.buffer = q.buffer + 1
    BY <1>2, <1>9, <1>11, <1>13
  <2>2. p.open /\ ~p.tracked /\ ~p.filed /\ p.used /\ p.refs = q.refs + 1
    BY <1>6, <1>7, <1>10, <1>13
  <2> QED
    BY <1>3, <1>6, <1>12, <2>1, <2>2, SubmitFits
<1>15. p.refs > 0 <=> file[f].refs > 0
  <2>1. p.refs = 2 /\ q.refs = 1
    BY <1>10, <1>13, <1>14, SMTT(20)
  <2>2. p.refs > 0 /\ q.refs > 0
    BY <2>1, SMTT(20)
  <2> QED
    BY <2>2 DEF q
<1>16. Fit' /\ Counted'
  BY <1>4, <1>6, <1>14, <1>15, FileChanges
<1>17. Enters(f)
  <2>1. \A g \in Files : file'[g] = IF g = f THEN p ELSE file[g]
    BY <1>3, <1>4
  <2> QED
    BY <1>6, <1>13, <2>1 DEF Enters
<1> QED
  BY <1>16, <1>17

LEMMA DrainRefers ==
    ASSUME Types, Fit, Counted, NEW f \in Files, SubmitDrain(f)
    PROVE  Fit' /\ Counted' /\ Enters(f)
<1>1. PICK S \in SUBSET Tracked : Finish(S, vd, res)
  BY DEF SubmitDrain
<1>2. /\ \A g \in Files : FileFits(file'[g], call[g])
      /\ Counted'
      /\ \A g \in Files : file'[g].tracked => file[g].tracked /\ g \notin S
  <2>1. vd \in VdType /\ thread' = thread
    BY DEF Types, SubmitDrain
  <2> QED
    BY <1>1, <2>1, FinishRefers
<1>3. call[f] = "submit" /\ call'[f] = "drained" /\ \A g \in Files \ {f} : call'[g] = call[g]
  BY DEF SubmitDrain, Types
<1>4. Fit'
  BY <1>2, <1>3, DrainedFits DEF Fit
<1> QED
  BY <1>2, <1>4 DEF Enters

(* A request's last reference goes: its file's does too. *)
LEMMA GoneRefers ==
    ASSUME Types, Fit, Counted, NEW f \in Files, NEW q \in FileType,
           q.refs = file[f].refs, q.open, ~q.tracked, ~q.filed,
           q.uses = file[f].uses, q.buffer = file[f].buffer, q.used = file[f].used,
           file[f].open, ~file[f].tracked, Asked(file[f], call[f]), call'[f] = "none",
           FilePut([file EXCEPT ![f] = RequestGone(q)], vd, res, {f}),
           \A g \in Files \ {f} : call'[g] = call[g], thread' = thread
    PROVE  Fit' /\ Counted' /\ Enters(f)
<1> DEFINE k == RequestGone(q)
           n == k.refs - 1
           p == [k EXCEPT !.refs = n]
           o == file[f]
<1>1. o \in FileType /\ FileFits(o, call[f])
  BY DEF Types, Fit
<1>2. k \in FileType
  BY GoneType
<1>3. /\ k.refs = q.refs /\ k.open = q.open /\ k.tracked = q.tracked /\ k.filed = q.filed
      /\ k.used = q.used /\ k.uses = FALSE /\ k.buffer = q.buffer - One(q.uses)
  BY GoneFields
<1>4. FilePut([file EXCEPT ![f] = k], vd, res, {f})
  OBVIOUS
<1> HIDE DEF k
<1>5. n \in Int /\ n = k.refs - 1 /\ p = [k EXCEPT !.refs = @ - 1]
  BY <1>2, SMTT(20) DEF FileType
<1>6. p = [k EXCEPT !.refs = n]
  OBVIOUS
<1> HIDE DEF n, p
<1>7. /\ p \in FileType /\ p.refs = n /\ p.open = k.open /\ p.filed = k.filed
      /\ p.tracked = k.tracked /\ p.uses = k.uses /\ p.buffer = k.buffer /\ p.used = k.used
  BY <1>2, <1>5, <1>6, RefsField, SMTT(20)
<1>8. FileFits(p, call'[f])
  <2>1. /\ p.open /\ ~p.tracked /\ ~p.filed /\ p.used = o.used /\ ~p.uses
        /\ p.refs = o.refs - 1 /\ p.buffer = o.buffer - One(o.uses)
    BY <1>3, <1>5, <1>7
  <2>2. Asked(o, call[f]) /\ ~o.tracked /\ o.open
    OBVIOUS
  <2> HIDE DEF o
  <2>3. FileFits(p, "none")
    BY <1>1, <1>7, <2>1, <2>2, ReleasedFits
  <2> QED
    BY <2>3
<1>9. k.refs > 0 /\ o.refs > 0
  <2>1. o.refs = 1 + 1 /\ k.refs = o.refs
    BY <1>1, <1>3 DEF FileFits, One
  <2> QED
    BY <2>1, SMTT(20)
<1>10. Fit' /\ Counted' /\ \A g \in Files : file'[g] = IF g = f THEN p ELSE file[g]
  BY <1>2, <1>4, <1>5, <1>8, <1>9, FileGivesUp, SMTT(20)
<1>11. Enters(f)
  BY <1>3, <1>7, <1>10 DEF Enters
<1> QED
  BY <1>10, <1>11

LEMMA SubmitEndRefers ==
    ASSUME Types, Fit, Counted, NEW f \in Files, SubmitEnd(f)
    PROVE  Fit' /\ Counted' /\ Enters(f)
<1> DEFINE q == file[f]
<1>1. q \in FileType /\ file \in [Files -> FileType]
  BY DEF Types
<1>2. /\ call[f] = "drained" /\ call'[f] = "none" /\ FileFits(q, "drained")
      /\ (\A g \in Files \ {f} : call'[g] = call[g]) /\ thread' = thread
  BY DEF SubmitEnd, Types, Fit
<1>3. q.open /\ ~q.tracked /\ ~q.filed /\ Asked(q, "drained")
  BY <1>2 DEF FileFits, Submitting, Asked
<1>4. Enters(f)
  BY <1>2 DEF Enters
<1>5. CASE /\ file' = [file EXCEPT ![f].tracked = TRUE, ![f].filed = TRUE]
           /\ UNCHANGED <<vd, res>>
  <2> DEFINE p == [q EXCEPT !.tracked = TRUE, !.filed = TRUE]
  <2>1. file' = [file EXCEPT ![f] = p]
    BY <1>1, <1>5
  <2> HIDE DEF q
  <2>2. p \in FileType
    BY <1>1 DEF FileType
  <2>3. /\ p.refs = q.refs /\ p.uses = q.uses /\ p.buffer = q.buffer
        /\ p.open = q.open /\ p.used = q.used
    BY <1>1, SMTT(20) DEF FileType
  <2>4. p.tracked /\ p.filed
    BY <1>1, SMTT(20) DEF FileType
  <2> HIDE DEF p
  <2>5. FileFits(p, call'[f])
    BY <1>1, <1>2, <2>2, <2>3, <2>4, AcceptedFits
  <2>6. p.refs > 0 <=> file[f].refs > 0
    BY <2>3 DEF q
  <2> QED
    BY <1>2, <1>4, <1>5, <2>1, <2>5, <2>6, FileChanges
<1>6. CASE FilePut([file EXCEPT ![f] = RequestGone(@)], vd, res, {f})
  <2>1. FilePut([file EXCEPT ![f] = RequestGone(q)], vd, res, {f})
    BY <1>1, <1>6
  <2> QED
    BY <1>1, <1>2, <1>3, <2>1, GoneRefers
<1> QED
  BY <1>5, <1>6 DEF SubmitEnd

LEMMA ReapRefers ==
    ASSUME Types, Fit, Counted, NEW f \in Files, Reap(f)
    PROVE  Fit' /\ Counted' /\ Enters(f)
<1> DEFINE o == file[f]
           q == [o EXCEPT !.filed = FALSE]
<1>1. o \in FileType
  BY DEF Types
<1>2. o.open /\ ~o.tracked /\ o.filed /\ call[f] = "none" /\ call' = call /\ thread' = thread
  BY DEF Reap, Idle
<1>3. FilePut([file EXCEPT ![f] = RequestGone(q)], vd, res, {f})
  BY DEF Reap
<1>4. Asked(o, call[f])
  BY <1>2 DEF Asked
<1> HIDE DEF o
<1>5. q \in FileType
  BY <1>1 DEF FileType
<1>6. /\ q.refs = o.refs /\ q.open = o.open /\ q.tracked = o.tracked /\ q.filed = FALSE
      /\ q.uses = o.uses /\ q.buffer = o.buffer /\ q.used = o.used
  BY <1>1, SMTT(20) DEF FileType
<1> HIDE DEF q
<1>7. /\ q.refs = file[f].refs /\ q.open /\ ~q.tracked /\ ~q.filed
      /\ q.uses = file[f].uses /\ q.buffer = file[f].buffer /\ q.used = file[f].used
      /\ file[f].open /\ ~file[f].tracked /\ Asked(file[f], call[f]) /\ call'[f] = "none"
      /\ \A g \in Files \ {f} : call'[g] = call[g]
  BY <1>2, <1>4, <1>6 DEF o
<1> QED
  BY <1>2, <1>3, <1>5, <1>7, GoneRefers

LEMMA BufferRefers ==
    ASSUME Types, Fit, Counted, NEW f \in Files, Idle(f), ~file[f].uses,
           NEW n \in {0, 1}, file' = [file EXCEPT ![f].buffer = n],
           UNCHANGED <<call, vd, res, thread>>
    PROVE  Fit' /\ Counted' /\ Enters(f)
<1> DEFINE q == file[f]
           p == [q EXCEPT !.buffer = n]
<1>1. q \in FileType /\ file \in [Files -> FileType] /\ FileFits(q, call[f])
  BY DEF Types, Fit
<1>2. file' = [file EXCEPT ![f] = p] /\ q.open /\ ~q.uses
  BY <1>1 DEF Idle
<1> HIDE DEF q
<1>3. n \in Int
  BY SMTT(20)
<1>4. p \in FileType
  BY <1>1, <1>3 DEF FileType
<1>5. /\ p.refs = q.refs /\ p.open = q.open /\ p.tracked = q.tracked /\ p.filed = q.filed
      /\ p.uses = q.uses /\ p.buffer = n /\ p.used = q.used
  BY <1>1, SMTT(20) DEF FileType
<1> HIDE DEF p
<1>6. FileFits(p, call'[f])
  <2>1. p.open /\ ~p.uses /\ p.buffer \in {0, 1} /\ call' = call
    BY <1>2, <1>5
  <2>2. FileFits(p, call[f])
    BY <1>1, <1>2, <1>4, <1>5, <2>1, BufferFits
  <2> QED
    BY <2>1, <2>2
<1>7. p.refs > 0 <=> file[f].refs > 0
  BY <1>5 DEF q
<1>8. Fit' /\ Counted'
  BY <1>2, <1>6, <1>7, FileChanges
<1>9. Enters(f)
  <2>1. \A g \in Files : file'[g] = IF g = f THEN p ELSE file[g]
    BY <1>1, <1>2
  <2> QED
    BY <1>5, <2>1 DEF Enters, q
<1> QED
  BY <1>8, <1>9

LEMMA RegisterRefers ==
    ASSUME Types, Fit, Counted, NEW f \in Files, Register(f) \/ Unregister(f)
    PROVE  Fit' /\ Counted' /\ Enters(f)
<1>1. CASE Unregister(f)
  <2>1. Idle(f) /\ ~file[f].uses /\ file' = [file EXCEPT ![f].buffer = 0]
    BY <1>1 DEF Unregister
  <2>2. UNCHANGED <<call, vd, res, thread>>
    BY <1>1 DEF Unregister
  <2> QED
    BY <2>1, <2>2, BufferRefers
<1>2. CASE Register(f)
  <2>0. Idle(f) /\ UNCHANGED <<call, res, thread>>
    BY <1>2 DEF Register
  <2>1. CASE file' = [file EXCEPT ![f].buffer = 1] /\ UNCHANGED vd
    <3>1. ~file[f].uses
      <4>1. file[f].buffer = 0 /\ file[f].open /\ FileFits(file[f], call[f])
        BY <1>2 DEF Register, Idle, Fit
      <4>2. 0 # 2
        BY SMTT(20)
      <4> QED
        BY <4>1, <4>2 DEF FileFits
    <3> QED
      BY <2>0, <2>1, <3>1, BufferRefers
  <2>2. CASE \E x : vd' = [vd EXCEPT !.left = x] /\ UNCHANGED file
    <3>1. vd'.refs = vd.refs /\ vd'.freed = vd.freed
      BY <2>2, SMTT(20) DEF Types, VdType
    <3>2. Fit' /\ AliveFiles' = AliveFiles
      BY <2>0, <2>2 DEF Fit, AliveFiles
    <3>3. Counted'
      BY <2>0, <3>1, <3>2, SameCounts DEF Counted
    <3> QED
      BY <2>2, <3>2, <3>3 DEF Enters
  <2>3. \/ file' = [file EXCEPT ![f].buffer = 1] /\ UNCHANGED vd
        \/ \E x : vd' = [vd EXCEPT !.left = x] /\ UNCHANGED file
    BY <1>2 DEF Register
  <2> QED
    BY <2>1, <2>2, <2>3
<1> QED
  BY <1>1, <1>2

LEMMA PollRefers ==
    ASSUME Types, Fit, Counted, NEW f \in Files, PollStart(f) \/ PollReady(f) \/ PollRead(f)
    PROVE  Fit' /\ Counted' /\ Enters(f)
<1>1. UNCHANGED <<file, vd, res, thread>>
  BY DEF PollStart, PollReady, PollRead
<1>2. /\ call[f] \notin {"submit", "drained"} /\ call'[f] \notin {"submit", "drained"}
      /\ file[f].open /\ \A g \in Files \ {f} : call'[g] = call[g]
  BY DEF PollStart, PollReady, PollRead, Idle, Types, Fit, FileFits
<1>3. FileFits(file[f], call'[f])
  <2>1. FileFits(file[f], call[f]) /\ (Asked(file[f], call[f]) <=> Asked(file[f], call'[f]))
    BY <1>2 DEF Fit, Asked, Submitting
  <2>2. One(Asked(file[f], call[f])) = One(Asked(file[f], call'[f]))
    BY <2>1 DEF One
  <2>3. file[f].used
    BY <1>2, <2>1, UsedFits
  <2> QED
    BY <1>2, <2>1, <2>2, <2>3 DEF FileFits, Submitting
<1>4. Fit' /\ AliveFiles' = AliveFiles
  BY <1>1, <1>2, <1>3 DEF Fit, AliveFiles
<1>5. Counted'
  BY <1>1, <1>4, SameCounts DEF Counted
<1> QED
  BY <1>1, <1>4, <1>5 DEF Enters

LEMMA CloseRefers ==
    ASSUME Types, Fit, Counted, NEW f \in Files, Close(f)
    PROVE  Fit' /\ Counted' /\ Enters(f)
<1> DEFINE o == file[f]
           b == IF o.buffer > 0 THEN o.buffer - 1 ELSE 0
           q == [o EXCEPT !.open = FALSE, !.filed = FALSE, !.buffer = b]
           last == o.filed /\ ~o.tracked
           g == RequestGone(q)
           h == [g EXCEPT !.refs = @ - 1]
           kept == IF last THEN h ELSE q
           p == [kept EXCEPT !.refs = @ - 1]
<1>1. o \in FileType /\ FileFits(o, "none") /\ o.open /\ call[f] = "none"
      /\ call' = call /\ thread' = thread
  BY DEF Types, Fit, Close, Idle
<1>2. FilePut([file EXCEPT ![f] = kept], vd, res, {f})
  BY DEF Close
<1>3. b \in Int
  BY <1>1, SMTT(20) DEF FileType
<1>4. b = (IF o.buffer > 0 THEN o.buffer - 1 ELSE 0)
  OBVIOUS
<1> HIDE DEF b, o
<1>5. q \in FileType
  BY <1>1, <1>3 DEF FileType
<1>6. /\ q.refs = o.refs /\ q.open = FALSE /\ q.tracked = o.tracked /\ q.filed = FALSE
      /\ q.uses = o.uses /\ q.buffer = b /\ q.used = o.used
  BY <1>1, SMTT(20) DEF FileType
<1> HIDE DEF q
<1>7. g \in FileType
  BY <1>5, GoneType
<1>8. /\ g.refs = q.refs /\ g.open = q.open /\ g.tracked = q.tracked /\ g.filed = q.filed
      /\ g.used = q.used /\ g.uses = FALSE /\ g.buffer = q.buffer - One(q.uses)
  BY <1>5, GoneFields
<1> HIDE DEF g
<1>9. /\ h \in FileType /\ h.refs = g.refs - 1 /\ h.open = g.open /\ h.filed = g.filed
      /\ h.tracked = g.tracked /\ h.uses = g.uses /\ h.buffer = g.buffer /\ h.used = g.used
  <2>1. g.refs - 1 \in Int
    BY <1>7, SMTT(20) DEF FileType
  <2>2. h = [g EXCEPT !.refs = g.refs - 1]
    OBVIOUS
  <2> HIDE DEF h
  <2> QED
    BY <1>7, <2>1, <2>2, RefsField, SMTT(20)
<1> HIDE DEF h
<1>10. kept \in FileType
  BY <1>5, <1>9
<1>11. /\ last => kept = h
       /\ ~last => kept = q
  OBVIOUS
<1> HIDE DEF kept
<1>12. /\ p \in FileType /\ p.refs = kept.refs - 1 /\ p.open = kept.open
       /\ p.filed = kept.filed /\ p.tracked = kept.tracked /\ p.uses = kept.uses
       /\ p.buffer = kept.buffer /\ p.used = kept.used
  <2>1. kept.refs - 1 \in Int
    BY <1>10, SMTT(20) DEF FileType
  <2>2. p = [kept EXCEPT !.refs = kept.refs - 1]
    OBVIOUS
  <2> HIDE DEF p
  <2> QED
    BY <1>10, <2>1, <2>2, RefsField, SMTT(20)
<1>13. p = [kept EXCEPT !.refs = @ - 1]
  OBVIOUS
<1> HIDE DEF p
<1>14. ~p.open /\ ~p.filed /\ p.used = o.used /\ p.tracked = o.tracked
  BY <1>6, <1>8, <1>9, <1>11, <1>12
<1>15. \/ /\ o.filed /\ ~o.tracked /\ p.refs = o.refs - 2 /\ ~p.uses
          /\ p.buffer = b - One(o.uses)
       \/ /\ ~o.filed \/ o.tracked
          /\ p.refs = o.refs - 1 /\ p.uses = o.uses /\ p.buffer = b
  <2>1. CASE last
    <3>1. p.refs = (o.refs - 1) - 1 /\ ~p.uses /\ p.buffer = b - One(o.uses)
      BY <1>6, <1>8, <1>9, <1>11, <1>12, <2>1
    <3>2. (o.refs - 1) - 1 = o.refs - 2
      BY <1>1, SMTT(20) DEF FileType
    <3> QED
      BY <2>1, <3>1, <3>2
  <2>2. CASE ~last
    BY <1>6, <1>11, <1>12, <2>2
  <2> QED
    BY <2>1, <2>2
<1>16. FileFits(p, "none")
  BY <1>1, <1>3, <1>4, <1>12, <1>14, <1>15, ClosedFits
<1>17. kept.refs > 0 /\ o.refs > 0
  <2>1. o.refs = 1 + One(Asked(o, "none"))
    BY <1>1 DEF FileFits, One
  <2>2. CASE last
    <3>1. o.refs = 1 + 1 /\ kept.refs = o.refs - 1
      BY <1>6, <1>8, <1>9, <1>11, <2>1, <2>2 DEF Asked, One
    <3> QED
      BY <3>1, SMTT(20)
  <2>3. CASE ~last
    <3>1. kept.refs = o.refs
      BY <1>6, <1>11, <2>3
    <3> QED
      BY <2>1, <3>1, SMTT(20) DEF One
  <2> QED
    BY <2>2, <2>3
<1>18. Fit' /\ Counted' /\ \A e \in Files : file'[e] = IF e = f THEN p ELSE file[e]
  <2>1. FileFits(p, call'[f]) /\ \A e \in Files \ {f} : call'[e] = call[e]
    BY <1>1, <1>16
  <2>2. file[f].refs > 0
    BY <1>17 DEF o
  <2> QED
    BY <1>1, <1>2, <1>10, <1>13, <1>17, <2>1, <2>2, FileGivesUp, SMTT(20)
<1>19. Enters(f)
  BY <1>14, <1>18 DEF Enters, o
<1> QED
  BY <1>18, <1>19

LEMMA CallRefers ==
    ASSUME Types, Held, Users, Fit, Counted, NEW f \in Files, Calls(f)
    PROVE  Fit' /\ Counted' /\ Enters(f)
  BY OpenRefers, SubmitRefers, DrainRefers, SubmitEndRefers, ReapRefers, RegisterRefers,
     PollRefers, CloseRefers DEF Calls

-----------------------------------------------------------------------------
(* Handlers, works and the endpoint *)

(* no request comes into the device's table *)
Leaves == \A f \in Files : file'[f].tracked => file[f].tracked

LEMMA SameRefers ==
    ASSUME Fit, Counted, UNCHANGED <<file, call, res, thread>>, vd'.refs = vd.refs,
           vd'.freed = vd.freed
    PROVE  Fit' /\ Counted' /\ Leaves
<1>1. Fit' /\ AliveFiles' = AliveFiles /\ Leaves
  BY DEF Fit, AliveFiles, Leaves
<1>2. Counted'
  BY <1>1, SameCounts DEF Counted
<1> QED
  BY <1>1, <1>2

LEMMA ObserveRefs ==
    ASSUME NEW v \in VdType, NEW ws
    PROVE  ObserveReset(v, ws).vd.refs = v.refs /\ ObserveReset(v, ws).vd.freed = v.freed
<1>1. \A b : [v EXCEPT !.stale = b].refs = v.refs /\ [v EXCEPT !.stale = b].freed = v.freed
  BY SMTT(20) DEF VdType
<1>2. ObserveReset(v, ws).vd = v \/ \E b : ObserveReset(v, ws).vd = [v EXCEPT !.stale = b]
  BY DEF ObserveReset
<1> QED
  BY <1>1, <1>2

LEMMA ContextRefers ==
    ASSUME Types, Fit, Counted,
           CqIrq \/ AsyncIrq \/ PollWork \/ ResetWork \/ \E w \in Works : WorkStart(w)
    PROVE  Fit' /\ Counted' /\ Leaves
<1>0. vd \in VdType /\ work \in WorkType
  BY DEF Types
<1>f. ASSUME NEW v \in VdType, v.refs = vd.refs, v.freed = vd.freed,
             NEW S \in SUBSET Tracked, Finish(S, v, res), UNCHANGED <<thread, call>>
      PROVE  Fit' /\ Counted' /\ Leaves
  <2>1. /\ \A f \in Files : FileFits(file'[f], call[f])
        /\ Counted'
        /\ \A f \in Files : file'[f].tracked => file[f].tracked /\ f \notin S
    BY <1>f, FinishRefers
  <2>2. Fit'
    BY <1>f, <2>1 DEF Fit
  <2> QED
    BY <2>1, <2>2 DEF Leaves
<1>1. CASE CqIrq
  <2>1. PICK S \in SUBSET Tracked : Finish(S, vd, res)
    BY <1>1 DEF CqIrq
  <2>2. UNCHANGED <<thread, call>>
    BY <1>1 DEF CqIrq
  <2> QED
    BY <1>0, <1>f, <2>1, <2>2
<1>2. CASE AsyncIrq
  <2>1. vd' = ObserveReset(vd, work).vd /\ UNCHANGED <<file, call, res, thread>>
    BY <1>2 DEF AsyncIrq
  <2>2. vd'.refs = vd.refs /\ vd'.freed = vd.freed
    BY <1>0, <2>1, ObserveRefs
  <2> QED
    BY <2>1, <2>2, SameRefers
<1>3. CASE PollWork
  <2> DEFINE ws == [work EXCEPT !.running = @ \ {"poll"}]
             v == ObserveReset(vd, ws).vd
  <2>1. PICK S \in SUBSET Tracked : Finish(S, v, res)
    BY <1>3 DEF PollWork
  <2>2. UNCHANGED <<thread, call>>
    BY <1>3 DEF PollWork
  <2>3. ws \in WorkType
    BY <1>0, SMTT(20) DEF WorkType
  <2> HIDE DEF ws
  <2>4. v \in VdType /\ v.refs = vd.refs /\ v.freed = vd.freed
    BY <1>0, <2>3, ObserveType, ObserveRefs
  <2> HIDE DEF v
  <2> QED
    BY <1>f, <2>1, <2>2, <2>4
<1>4. CASE ResetWork
  <2>0. UNCHANGED <<thread, call>>
    BY <1>4 DEF ResetWork
  <2>1. CASE vd.removing
    BY <1>4, <2>0, <2>1, SameRefers DEF ResetWork
  <2>2. CASE ~vd.removing
    <3> DEFINE b == vd.ready /\ ~vd.stale
               v == [vd EXCEPT !.ready = b]
    <3>1. PICK S \in SUBSET Tracked : Finish(S, v, res)
      BY <1>4, <2>2 DEF ResetWork
    <3>2. b \in BOOLEAN
      OBVIOUS
    <3> HIDE DEF b
    <3>3. v \in VdType
      BY <1>0, <3>2 DEF VdType
    <3>4. v.refs = vd.refs /\ v.freed = vd.freed
      BY <1>0, SMTT(20) DEF VdType
    <3> HIDE DEF v
    <3> QED
      BY <1>f, <2>0, <3>1, <3>3, <3>4
  <2> QED
    BY <2>1, <2>2
<1>5. ASSUME NEW w \in Works, WorkStart(w) PROVE Fit' /\ Counted' /\ Leaves
  BY <1>5, SameRefers DEF WorkStart
<1> QED
  BY <1>1, <1>2, <1>3, <1>4, <1>5

LEMMA EndpointRefers ==
    ASSUME Fit, Counted,
           \/ EndpointCompletes
           \/ EngineReset \/ \E k \in {"queue", "device"} : EndpointReset(k)
           \/ \E v \in Vectors : IrqStart(v)
    PROVE  Fit' /\ Counted' /\ Leaves
<1>1. UNCHANGED <<file, call, res, thread, vd>>
  BY DEF EndpointCompletes, EndpointReset, EngineReset, IrqStart
<1> QED
  BY <1>1, SameRefers

-----------------------------------------------------------------------------
(* Probe and the way back *)

(* With its own reference the thread sees the device structure, whatever   *)
(* it acquires or releases.                                                *)
LEMMA ThreadRefers ==
    ASSUME Types, Fit, Counted, thread.mode # "end", thread'.mode # "end",
           UNCHANGED <<file, call>>, vd'.refs = vd.refs, vd'.freed = vd.freed
    PROVE  Fit' /\ Counted' /\ Leaves
<1>1. Fit' /\ AliveFiles' = AliveFiles /\ Leaves
  BY DEF Fit, AliveFiles, Leaves
<1>2. ~vd.freed
  BY NotFreed
<1>3. Counted'
  BY <1>1, <1>2, SameCounts
<1> QED
  BY <1>1, <1>3

LEMMA ProbeRefers ==
    ASSUME Types, Held, Fit, Counted, Probe
    PROVE  Fit' /\ Counted' /\ Leaves
<1>0. vd \in VdType /\ thread.mode = "probe"
  BY DEF Types, Probe, ProbeAcquire, ProbeValidate, ProbeRings, ProbeMaster, ProbeUnmask,
         ProbeSelftest, ProbePolltest, ProbePolltestEnd, ProbeChardev, Probing
<1>1. UNCHANGED <<file, call>>
  BY DEF Probe, ProbeAcquire, ProbeValidate, ProbeRings, ProbeMaster, ProbeUnmask,
         ProbeSelftest, ProbePolltest, ProbePolltestEnd, ProbeChardev
<1>2. vd'.refs = vd.refs /\ vd'.freed = vd.freed
  <2>1. CASE vd' = vd
    BY <2>1
  <2>2. CASE \E b \in BOOLEAN : vd' = [vd EXCEPT !.dma = b]
    BY <1>0, <2>2, SMTT(20) DEF VdType
  <2>3. CASE \E b \in BOOLEAN : vd' = [vd EXCEPT !.ready = b]
    BY <1>0, <2>3, SMTT(20) DEF VdType
  <2>4. CASE \E b \in BOOLEAN : vd' = [vd EXCEPT !.instance = b]
    BY <1>0, <2>4, SMTT(20) DEF VdType
  <2>5. \/ vd' = vd
        \/ \E b \in BOOLEAN : vd' = [vd EXCEPT !.dma = b]
        \/ \E b \in BOOLEAN : vd' = [vd EXCEPT !.ready = b]
        \/ \E b \in BOOLEAN : vd' = [vd EXCEPT !.instance = b]
    <3>1. CASE ProbeValidate
      BY <3>1 DEF ProbeValidate
    <3>2. CASE ProbeMaster
      <4>1. vd.dma \in BOOLEAN
        BY <1>0 DEF VdType
      <4> QED
        BY <3>2, <4>1 DEF ProbeMaster, ConfigureFailed
    <3>3. CASE ProbeChardev
      BY <3>3 DEF ProbeChardev, ChardevFailed
    <3>4. CASE ~ProbeValidate /\ ~ProbeMaster /\ ~ProbeChardev
      BY <3>4 DEF Probe, ProbeAcquire, ProbeRings, ProbeUnmask, ProbeSelftest,
                  ProbePolltest, ProbePolltestEnd
    <3> QED
      BY <3>1, <3>2, <3>3, <3>4
  <2> QED
    BY <2>1, <2>2, <2>3, <2>4, <2>5
<1>3. thread'.mode # "end"
  <2>1. thread' = thread \/ (\E s : Proceed(s)) \/ (\E l : UnwindFrom(l))
    BY DEF Probe, ProbeAcquire, ProbeValidate, ProbeRings, ProbeMaster, ProbeUnmask,
           ProbeSelftest, ProbePolltest, ProbePolltestEnd, ProbeChardev
  <2>2. \A x : [thread EXCEPT !.at = x].mode = "probe"
    BY <1>0, SMTT(20) DEF Types, OnPath
  <2>3. \A l : UnwindFrom(l) => thread'.mode = "unwind"
    BY SMTT(20) DEF UnwindFrom
  <2>4. \A s : Proceed(s) => thread'.mode \in {"unwind", "bound", "probe"}
    <3> TAKE s
    <3> HAVE Proceed(s)
    <3>1. \/ thread' = [mode |-> "bound", at |-> "bound"]
          \/ \E x : thread' = [thread EXCEPT !.at = x]
          \/ \E l : UnwindFrom(l)
      BY DEF Proceed
    <3>2. [mode |-> "bound", at |-> "bound"].mode = "bound"
      BY SMTT(20)
    <3> QED
      BY <2>2, <2>3, <3>1, <3>2
  <2> QED
    BY <1>0, <2>1, <2>3, <2>4
<1> QED
  BY <1>0, <1>1, <1>2, <1>3, ThreadRefers

LEMMA ExitRefers ==
    ASSUME Types, Held, Fit, Counted, Exit
    PROVE  Fit' /\ Counted' /\ Leaves
<1>0. vd \in VdType /\ thread.mode \in {"unwind", "remove"} /\ call' = call
  BY DEF Types, Exit, ExitRemoving, ExitQuiesce, ExitCancelRequests, ExitPut, ExitRelease,
         ExitCancel, Canceling, ExitFreeIrq, Leaving
<1>1. \A x : [thread EXCEPT !.at = x].mode = thread.mode
  BY SMTT(20) DEF Types, OnPath
<1>2. \A s : Done(s) => thread'.mode # "end"
  BY <1>0, <1>1 DEF Done
<1>3. CASE ExitPut
  <2> DEFINE n == Cardinality(AliveFiles)
             last == 1 > 0 /\ vd.refs = 1
  <2>1. ~vd.freed /\ vd.refs = 1 + n /\ n \in Nat
    BY <1>0, NotFreed
  <2>2. /\ vd' = [vd EXCEPT !.refs = @ - 1, !.freed = @ \/ last]
        /\ last => res' \cap OfDevice = {}
    BY <1>3 DEF ExitPut, DevicePut
  <2>3. vd'.refs = vd.refs - 1 /\ vd'.freed = (vd.freed \/ last)
    BY <1>0, <2>2, SMTT(20) DEF VdType
  <2>4. file' = file /\ thread'.mode = "end"
    BY <1>3 DEF ExitPut
  <2>5. Fit' /\ AliveFiles' = AliveFiles /\ Leaves
    BY <1>0, <2>4 DEF Fit, AliveFiles, Leaves
  <2>6. One(thread'.mode # "end") = 0
    BY <2>4 DEF One
  <2> HIDE DEF n
  <2>7. vd'.refs = 0 + n /\ (last <=> vd'.refs = 0)
    BY <2>1, <2>3, SMTT(20)
  <2>8. Cardinality(AliveFiles') = n
    BY <2>5 DEF n
  <2>9. Counted'
    BY <2>1, <2>2, <2>3, <2>6, <2>7, <2>8 DEF Counted
  <2> QED
    BY <2>5, <2>9
<1>4. CASE ExitCancelRequests
  <2>1. Finish(Tracked, vd, res) /\ thread'.mode # "end"
    BY <1>2, <1>4 DEF ExitCancelRequests
  <2>2. /\ \A f \in Files : FileFits(file'[f], call[f])
        /\ Counted'
        /\ \A f \in Files : file'[f].tracked => file[f].tracked
    BY <1>0, <2>1, FinishRefers
  <2> QED
    BY <1>0, <2>2 DEF Fit, Leaves
<1>5. CASE ~ExitPut /\ ~ExitCancelRequests
  <2>1. file' = file /\ thread'.mode # "end"
    BY <1>2, <1>5 DEF Exit, ExitRemoving, ExitQuiesce, ExitRelease, ExitCancel, ExitFreeIrq
  <2>2. vd'.refs = vd.refs /\ vd'.freed = vd.freed
    <3>1. CASE ExitRemoving
      BY <1>0, <3>1, SMTT(20) DEF ExitRemoving, VdType
    <3>2. CASE ExitQuiesce
      BY <1>0, <3>2, SMTT(20) DEF ExitQuiesce, VdType
    <3> QED
      BY <1>5, <3>1, <3>2 DEF Exit, ExitRelease, ExitCancel, ExitFreeIrq
  <2> QED
    BY <1>0, <2>1, <2>2, ThreadRefers
<1> QED
  BY <1>3, <1>4, <1>5

-----------------------------------------------------------------------------
(* Where requests, the reset work and submit_lock end *)

(* Accepting and running handlers are places of the reset work. *)
LEMMA PlacesWhere ==
    ASSUME Types, Held
    PROVE  /\ Accepting => RequestPlace /\ ResetPlace
           /\ Leaving("misc") \/ Leaving("pollcancel") => ResetPlace
           /\ "asyncirq" \in res => ResetPlace
<1>1. Accepting => RequestPlace /\ ResetPlace
  BY DEF Accepting, RequestPlace, ResetPlace
<1>2. Leaving("misc") \/ Leaving("pollcancel") => ResetPlace
  BY DEF ResetPlace
<1>3. ASSUME "asyncirq" \in res PROVE ResetPlace
  <2>1. "asyncirq" \in Holding(thread, vd.dma)
    BY <1>3 DEF Held, OfDevice
  <2>2. \A x \in ProbeAt : "asyncirq" \in HeldAt(x, vd.dma) => x \in Late \cup {"master"}
    BY SMTT(20) DEF HeldAt, Mapped, Rings, ProbeAt, Late
  <2>3. \A x \in ExitAt : "asyncirq" \in AheadOf(x, vd.dma, thread.mode) =>
           x \in {"removing", "misc", "pollcancel", "quiesce", "asyncirq"}
    BY SMTT(20) DEF AheadOf, Mapped, Rings, Last, ExitAt
  <2>4. CASE thread.mode = "probe"
    BY <2>1, <2>2, <2>4 DEF Holding, Types, OnPath, ResetPlace
  <2>5. CASE thread.mode \in {"unwind", "remove"}
    <3>1. thread.at \in {"removing", "misc", "pollcancel", "quiesce", "asyncirq"}
      BY <2>1, <2>3, <2>5 DEF Holding, Types, OnPath
    <3> QED
      BY <2>5, <3>1 DEF ResetPlace, Leaving
  <2>6. thread.mode # "end"
    BY <2>1, SMTT(20) DEF Holding
  <2> QED
    BY <2>4, <2>5, <2>6 DEF Types, OnPath, ResetPlace
<1> QED
  BY <1>1, <1>2, <1>3

(* Steps apart from the thread keep Stops when they keep each part of it. *)
LEMMA ApartStops ==
    ASSUME Stops, thread' = thread,
           \A f \in Files : file'[f].tracked => file[f].tracked \/ RequestPlace,
           "reset" \in work'.queued \cup work'.running /\ test' = "none" =>
             \/ ResetPlace
             \/ "reset" \in work.queued \cup work.running /\ test = "none",
           lock' # "free" => lock' \in Files /\ Submitting(call'[lock'])
    PROVE  Stops'
<1>1. RequestPlace' = RequestPlace /\ ResetPlace' = ResetPlace
  BY DEF RequestPlace, ResetPlace, Leaving
<1>2. Tracked' # {} => RequestPlace'
  BY <1>1 DEF Stops, Tracked
<1> QED
  BY <1>1, <1>2 DEF Stops

LEMMA EndpointStops ==
    ASSUME Stops, Leaves,
           \/ EndpointCompletes
           \/ EngineReset \/ \E k \in {"queue", "device"} : EndpointReset(k)
           \/ \E v \in Vectors : IrqStart(v)
    PROVE  Stops'
<1>1. UNCHANGED <<thread, work, call, lock, test>>
  BY DEF EndpointCompletes, EndpointReset, EngineReset, IrqStart
<1> QED
  BY <1>1, ApartStops DEF Stops, Leaves

LEMMA ContextStops ==
    ASSUME Types, Held, Users, Stops, Leaves,
           CqIrq \/ AsyncIrq \/ PollWork \/ ResetWork \/ \E w \in Works : WorkStart(w)
    PROVE  Stops'
<1>0. work \in WorkType
  BY DEF Types
<1>1. UNCHANGED <<thread, call, lock>>
  BY DEF CqIrq, AsyncIrq, PollWork, ResetWork, WorkStart
<1>2. test' = "none" => test = "none"
  BY DEF CqIrq, AsyncIrq, PollWork, ResetWork, WorkStart, TestDrained
<1>3. "reset" \in work'.queued \cup work'.running /\ test = "none" =>
        ResetPlace \/ "reset" \in work.queued \cup work.running
  <2>1. CASE CqIrq
    BY <2>1 DEF CqIrq
  <2>2. CASE AsyncIrq
    BY <2>2, PlacesWhere DEF AsyncIrq, Users
  <2>3. CASE PollWork
    BY <2>3, PlacesWhere DEF PollWork, Users
  <2>4. CASE ResetWork
    <3>1. work' = [work EXCEPT !.running = @ \ {"reset"}]
      BY <2>4 DEF ResetWork
    <3> QED
      BY <1>0, <3>1, SMTT(20) DEF WorkType
  <2>5. ASSUME NEW w \in Works, WorkStart(w)
        PROVE  "reset" \in work'.queued \cup work'.running =>
                 "reset" \in work.queued \cup work.running
    <3>1. /\ work'.queued \subseteq work.queued
          /\ work'.running \subseteq work.running \cup {w} /\ w \in work.queued
      BY <1>0, <2>5, SMTT(20) DEF WorkStart, WorkType
    <3> QED
      BY <3>1
  <2> QED
    BY <2>1, <2>2, <2>3, <2>4, <2>5
<1> QED
  BY <1>1, <1>2, <1>3, ApartStops DEF Stops, Leaves

LEMMA CallStops ==
    ASSUME Types, Held, Users, Stops, NEW f \in Files, Calls(f), Enters(f)
    PROVE  Stops'
<1>0. /\ work \in WorkType
      /\ call \in [Files -> {"none", "submit", "drained", "poll", "pollread"}]
  BY DEF Types
<1>1. UNCHANGED <<thread, test>>
  BY DEF Calls, Open, SubmitStart, SubmitDrain, SubmitEnd, Reap, Register, Unregister,
         PollStart, PollReady, PollRead, Close
<1>2. \A g \in Files : file'[g].tracked => file[g].tracked \/ RequestPlace
  <2>1. call[f] = "drained" => RequestPlace
    BY PlacesWhere DEF Users
  <2> QED
    BY <2>1 DEF Enters
<1>3. "reset" \in work'.queued \cup work'.running => "reset" \in work.queued \cup work.running
  <2>1. CASE work' = Queue(work, "poll")
    <3>1. /\ Queue(work, "poll").running = work.running
          /\ Queue(work, "poll").queued \subseteq work.queued \cup {"poll"}
      BY <1>0, QueueType DEF Works
    <3> QED
      BY <2>1, <3>1
  <2>2. work' = work \/ work' = Queue(work, "poll")
    BY DEF Calls, Open, SubmitStart, SubmitDrain, SubmitEnd, Reap, Register, Unregister,
           PollStart, PollReady, PollRead, Close
  <2> QED
    BY <2>1, <2>2
<1>4. lock' # "free" => lock' \in Files /\ Submitting(call'[lock'])
  <2>1. CASE SubmitStart(f)
    BY <1>0, <2>1 DEF SubmitStart, Submitting
  <2>2. CASE SubmitDrain(f)
    <3>1. lock' = lock /\ call'[f] = "drained" /\ \A g \in Files \ {f} : call'[g] = call[g]
      BY <1>0, <2>2 DEF SubmitDrain
    <3> QED
      BY <3>1 DEF Stops, Submitting
  <2>3. CASE SubmitEnd(f)
    BY <2>3 DEF SubmitEnd
  <2>4. CASE PollStart(f) \/ PollReady(f) \/ PollRead(f)
    <3>1. lock' = lock /\ ~Submitting(call[f]) /\ \A g \in Files \ {f} : call'[g] = call[g]
      BY <1>0, <2>4 DEF PollStart, PollReady, PollRead, Idle, Submitting
    <3> QED
      BY <3>1 DEF Stops
  <2>5. CASE Open(f) \/ Reap(f) \/ Register(f) \/ Unregister(f) \/ Close(f)
    BY <2>5 DEF Open, Reap, Register, Unregister, Close, Stops
  <2> QED
    BY <2>1, <2>2, <2>3, <2>4, <2>5 DEF Calls
<1> QED
  BY <1>1, <1>2, <1>3, <1>4, ApartStops

(* While probe runs there are no requests of files; from the request of    *)
(* the second vector on the reset work may be queued.                      *)
LEMMA ProbeStops ==
    ASSUME Types, Held, Users, Stops, Probe
    PROVE  Stops'
<1> DEFINE s == thread.at
<1>0. thread.mode = "probe" /\ s \in ProbeAt /\ work \in WorkType
  BY DEF Types, OnPath, Probe, ProbeAcquire, ProbeValidate, ProbeRings, ProbeMaster,
         ProbeUnmask, ProbeSelftest, ProbePolltest, ProbePolltestEnd, ProbeChardev, Probing
<1>1. UNCHANGED <<file, call, lock>>
  BY DEF Probe, ProbeAcquire, ProbeValidate, ProbeRings, ProbeMaster, ProbeUnmask,
         ProbeSelftest, ProbePolltest, ProbePolltestEnd, ProbeChardev
<1>2. Tracked' = {}
  BY <1>0, <1>1 DEF Stops, RequestPlace, Leaving, Tracked
<1>3. "reset" \in work'.queued \cup work'.running => "reset" \in work.queued \cup work.running
  <2>1. CASE work' = Queue(work, "poll")
    <3>1. /\ Queue(work, "poll").running = work.running
          /\ Queue(work, "poll").queued \subseteq work.queued \cup {"poll"}
      BY <1>0, QueueType DEF Works
    <3> QED
      BY <2>1, <3>1
  <2>2. work' = work \/ work' = Queue(work, "poll")
    BY DEF Probe, ProbeAcquire, ProbeValidate, ProbeRings, ProbeMaster, ProbeUnmask,
           ProbeSelftest, ProbePolltest, ProbePolltestEnd, ProbeChardev
  <2> QED
    BY <2>1, <2>2
<1>4. thread' = thread \/ Proceed(s) \/ UnwindFrom(ErrorLabel(s))
  BY DEF Probe, ProbeAcquire, ProbeValidate, ProbeRings, ProbeMaster, ProbeUnmask,
         ProbeSelftest, ProbePolltest, ProbePolltestEnd, ProbeChardev, Probing
<1>5. ASSUME s \in Late \cup {"master"} PROVE ResetPlace'
  <2>1. /\ ErrorLabel(s) = "quiesce"
        /\ s \in Injectable => InjectLabel(s) = "removing"
        /\ s # "chardev" => After(ProbeSteps, s) \in Late
    BY <1>5, ProbeOrder, SMTT(20) DEF ErrorLabel, InjectLabel, Injectable, Late
  <2>2. CASE thread' = thread
    BY <1>0, <1>5, <2>2 DEF ResetPlace
  <2>3. CASE thread' = [mode |-> "bound", at |-> "bound"]
    <3>1. thread'.mode = "bound"
      BY <2>3, SMTT(20)
    <3> QED
      BY <3>1 DEF ResetPlace
  <2>4. CASE thread' = [thread EXCEPT !.at = After(ProbeSteps, s)] /\ s # "chardev"
    <3>1. thread'.mode = "probe" /\ thread'.at = After(ProbeSteps, s)
      BY <1>0, <2>4, SMTT(20) DEF Types, OnPath
    <3> QED
      BY <2>1, <2>4, <3>1 DEF ResetPlace
  <2>5. ASSUME NEW l \in {"quiesce", "removing"}, UnwindFrom(l) PROVE ResetPlace'
    <3>1. thread'.mode = "unwind" /\ thread'.at = l
      BY <2>5, SMTT(20) DEF UnwindFrom
    <3> QED
      BY <3>1 DEF ResetPlace, Leaving
  <2>6. Proceed(s) => \/ thread' = [mode |-> "bound", at |-> "bound"]
                      \/ thread' = [thread EXCEPT !.at = After(ProbeSteps, s)] /\ s # "chardev"
                      \/ s \in Injectable /\ UnwindFrom(InjectLabel(s))
    BY DEF Proceed
  <2> QED
    BY <1>4, <2>1, <2>2, <2>3, <2>4, <2>5, <2>6
<1>6. test' = "none" => test = "none" \/ s = "chardev"
  BY DEF Probe, ProbeAcquire, ProbeValidate, ProbeRings, ProbeMaster, ProbeUnmask,
         ProbeSelftest, ProbePolltest, ProbePolltestEnd, ProbeChardev, Probing
<1>7. "reset" \in work'.queued \cup work'.running /\ test' = "none" => ResetPlace'
  <2>1. ResetPlace => s \in Late \cup {"master"}
    BY <1>0 DEF ResetPlace, Leaving
  <2>2. s = "chardev" => s \in Late
    BY DEF Late
  <2> QED
    BY <1>3, <1>5, <1>6, <2>1, <2>2 DEF Stops
<1> QED
  BY <1>1, <1>2, <1>7 DEF Stops

(* The reset work ends with its cancellation, the last request with        *)
(* vams_cancel_requests.                                                   *)
LEMMA ExitStops ==
    ASSUME Types, Held, Users, Fit, Counted, Stops, Exit
    PROVE  Stops'
<1> DEFINE s == thread.at
<1>0. Leaving(s) /\ s \in ExitAt /\ work \in WorkType /\ UNCHANGED <<call, lock>>
  BY DEF Exit, ExitRemoving, ExitQuiesce, ExitCancelRequests, ExitPut, ExitRelease,
         ExitCancel, Canceling, ExitFreeIrq, Leaving, Types, OnPath, Vectors
<1>1. s # "put" => Done(s)
  BY DEF Exit, ExitRemoving, ExitQuiesce, ExitCancelRequests, ExitPut, ExitRelease,
         ExitCancel, Canceling, ExitFreeIrq, Leaving, Vectors
<1>2. s # "put" => thread'.mode \in {"unwind", "remove"} /\ thread'.at = After(ExitSteps, s)
  <2>1. thread.mode \in {"unwind", "remove"}
    BY <1>0 DEF Leaving
  <2>2. s # "put" => thread'.mode = thread.mode /\ thread'.at = After(ExitSteps, s)
    BY <1>0, <1>1, ExitDone
  <2> QED
    BY <2>1, <2>2
<1>3. \A x : Leaving(x) => x = s
  BY DEF Leaving
<1>4. thread.mode # "bound" /\ thread.mode # "probe"
  BY <1>0 DEF Leaving
<1>5. Tracked' # {} => RequestPlace'
  <2>1. CASE s = "cancelrequests"
    <3>1. Finish(Tracked, vd, res) /\ thread'.mode = thread.mode
      <4>1. ExitCancelRequests
        BY <2>1 DEF Exit, ExitRemoving, ExitQuiesce, ExitPut, ExitRelease,
                    ExitCancel, Canceling, ExitFreeIrq, Leaving, Vectors
      <4>2. thread'.mode = thread.mode
        BY <1>0, <1>1, <2>1, ExitDone
      <4> QED
        BY <4>1, <4>2 DEF ExitCancelRequests
    <3>2. \A f \in Files : file'[f].tracked => file[f].tracked /\ f \notin Tracked
      BY <3>1, FinishRefers DEF Types
    <3> QED
      BY <3>2 DEF Tracked
  <2>2. CASE s # "cancelrequests"
    <3>1. file' = file
      BY <2>2 DEF Exit, ExitRemoving, ExitQuiesce, ExitCancelRequests, ExitPut, ExitRelease,
                  ExitCancel, ExitFreeIrq, Leaving
    <3>2. Tracked' # {} => s \in {"removing", "misc", "pollcancel", "quiesce", "asyncirq",
                                  "cqirq", "resetcancel"}
      BY <1>3, <1>4, <2>2, <3>1 DEF Stops, RequestPlace, Tracked
    <3>3. s \in {"removing", "misc", "pollcancel", "quiesce", "asyncirq", "cqirq",
                 "resetcancel"} => RequestPlace'
      BY <1>2, ExitOrder DEF RequestPlace, Leaving
    <3> QED
      BY <3>2, <3>3
  <2> QED
    BY <2>1, <2>2
<1>6. /\ test' = "none" => test = "none"
      /\ "reset" \in work'.queued \cup work'.running =>
           "reset" \in work.queued \cup work.running /\ s # "resetcancel"
  <2>1. test' = "none" => test = "none"
    BY DEF Exit, ExitRemoving, ExitQuiesce, ExitCancelRequests, ExitPut, ExitRelease,
           ExitCancel, ExitFreeIrq
  <2>2. ASSUME NEW w \in Works, ExitCancel(w)
        PROVE  "reset" \in work'.queued \cup work'.running =>
                 "reset" \in work.queued \cup work.running /\ s # "resetcancel"
    <3>1. work'.queued = work.queued \ {w} /\ work'.running = work.running
      BY <1>0, <2>2, SMTT(20) DEF ExitCancel, WorkType
    <3>2. w # "reset" => w = "poll" /\ s = "pollcancel"
      BY <2>2 DEF ExitCancel, Canceling, Leaving, Works
    <3>3. w \notin work.running
      BY <2>2 DEF ExitCancel
    <3> QED
      BY <3>1, <3>2, <3>3
  <2>3. CASE ~\E w \in Works : ExitCancel(w)
    <3>1. work' = work /\ s # "resetcancel"
      BY <2>3 DEF Exit, ExitRemoving, ExitQuiesce, ExitCancelRequests, ExitPut, ExitRelease,
                  ExitFreeIrq, Leaving, Vectors
    <3> QED
      BY <2>1, <3>1
  <2> QED
    BY <2>1, <2>2, <2>3
<1>7. "reset" \in work'.queued \cup work'.running /\ test' = "none" => ResetPlace'
  <2>1. ResetPlace => s \in {"removing", "misc", "pollcancel", "quiesce", "asyncirq",
                             "cqirq", "resetcancel"}
    BY <1>3, <1>4 DEF ResetPlace
  <2>2. s \in {"removing", "misc", "pollcancel", "quiesce", "asyncirq", "cqirq"} => ResetPlace'
    BY <1>2, ExitOrder DEF ResetPlace, Leaving
  <2> QED
    BY <1>6, <2>1, <2>2 DEF Stops
<1> QED
  BY <1>0, <1>5, <1>7 DEF Stops

LEMMA InitReferences == Init => References
<1> SUFFICES ASSUME Init PROVE References
  OBVIOUS
<1>1. /\ file = [f \in Files |-> NewFile] /\ call = [f \in Files |-> "none"]
      /\ lock = "free" /\ res = {"pdev"}
  BY DEF Init
<1>2. thread.mode = "probe" /\ vd.refs = 1 /\ vd.freed = FALSE
      /\ work.queued = {} /\ work.running = {}
  BY SMTT(20) DEF Init
<1>3. /\ NewFile.refs = 0 /\ NewFile.open = FALSE /\ NewFile.tracked = FALSE
      /\ NewFile.filed = FALSE /\ NewFile.uses = FALSE /\ NewFile.buffer = 0
  BY SMTT(20) DEF NewFile
<1>4. FileFits(NewFile, "none")
  <2>1. ~Asked(NewFile, "none")
    BY <1>3 DEF Asked, Submitting
  <2>2. NewFile.refs = One(NewFile.open) + One(Asked(NewFile, "none"))
    BY <1>3, <2>1, SMTT(20) DEF One
  <2> QED
    BY <1>3, <2>1, <2>2 DEF FileFits, Submitting, One
<1>5. \A f \in Files : FileFits(file[f], call[f])
  BY <1>1, <1>4
<1>6. AliveFiles = {} /\ Tracked = {}
  <2>1. ~(0 > 0)
    BY SMTT(20)
  <2> QED
    BY <1>1, <1>3, <2>1 DEF AliveFiles, Tracked
<1>7. Cardinality(AliveFiles) = 0
  BY <1>6, FS_EmptySet
<1>8. vd.refs = One(thread.mode # "end") + Cardinality(AliveFiles) /\ vd.refs # 0
  BY <1>2, <1>7, SMTT(20) DEF One
<1> QED
  BY <1>1, <1>2, <1>5, <1>6, <1>8 DEF References, Counted, Stops

LEMMA NextReferences == Types /\ Held /\ Users /\ References /\ [Next]_vars => References'
<1> SUFFICES ASSUME Types, Held, Users, References, [Next]_vars PROVE References'
  OBVIOUS
<1>0. Fit /\ Counted /\ Stops
  BY DEF References, Fit
<1>1. SUFFICES Fit' /\ Counted' /\ Stops'
  BY DEF References, Fit
<1>2. CASE UNCHANGED vars
  <2>1. UNCHANGED <<thread, res, vd, work, file, call, lock, test>>
    BY <1>2 DEF vars
  <2>2. Fit' /\ Counted' /\ Leaves
    BY <1>0, <2>1, SameRefers
  <2> QED
    BY <1>0, <2>1, <2>2, ApartStops DEF Stops, Leaves
<1>3. CASE \/ EndpointCompletes
           \/ EngineReset \/ \E k \in {"queue", "device"} : EndpointReset(k)
           \/ \E v \in Vectors : IrqStart(v)
  BY <1>0, <1>3, EndpointRefers, EndpointStops
<1>4. CASE CqIrq \/ AsyncIrq \/ PollWork \/ ResetWork \/ \E w \in Works : WorkStart(w)
  BY <1>0, <1>4, ContextRefers, ContextStops
<1>5. ASSUME NEW f \in Files, Calls(f) PROVE Fit' /\ Counted' /\ Stops'
  BY <1>0, <1>5, CallRefers, CallStops
<1>6. CASE Probe
  BY <1>0, <1>6, ProbeRefers, ProbeStops
<1>7. CASE Exit
  BY <1>0, <1>7, ExitRefers, ExitStops
<1>8. CASE RemoveStart
  <2>1. /\ thread.mode = "bound" /\ thread' = [mode |-> "remove", at |-> "removing"]
        /\ UNCHANGED <<res, vd, work, file, call, lock, test>>
    BY <1>8 DEF RemoveStart
  <2>2. thread'.mode = "remove" /\ thread'.at = "removing"
    BY <2>1, SMTT(20)
  <2>3. Fit' /\ Counted'
    BY <1>0, <2>1, <2>2, ThreadRefers
  <2>4. RequestPlace' /\ ResetPlace'
    BY <2>2 DEF RequestPlace, ResetPlace, Leaving
  <2> QED
    BY <1>0, <2>1, <2>3, <2>4 DEF Stops
<1> QED
  BY <1>2, <1>3, <1>4, <1>5, <1>6, <1>7, <1>8 DEF Next, Contexts

(* Once the device structure is freed nothing can come to use it, and a    *)
(* file is not freed before its request and its buffer: the references of  *)
(* vams_request_put, vams_file_release_refs and vams_device_release are    *)
(* put as often as they are taken, whatever order close, completion, reset *)
(* and removal come in, for any number of files and resets.                *)
THEOREM FreedTheorem == Spec => []FreedIsQuiet
<1>1. Types /\ Held /\ Users /\ References => FreedIsQuiet
  <2> SUFFICES ASSUME Types, Held, Users, References PROVE FreedIsQuiet
    OBVIOUS
  <2>0. Fit /\ Counted /\ Stops
    BY DEF References, Fit
  <2>1. Cardinality(AliveFiles) \in Nat /\ (Cardinality(AliveFiles) = 0 <=> AliveFiles = {})
    <3>1. AliveFiles \subseteq Files /\ IsFiniteSet(Files)
      BY LifecycleAssumption DEF AliveFiles
    <3>2. IsFiniteSet(AliveFiles)
      BY <3>1, FS_Subset
    <3> QED
      BY <3>2, FS_CardinalityType, FS_EmptySet
  <2>2. ASSUME NEW f \in Files, ~Alive(f)
        PROVE  /\ ~file[f].open /\ ~file[f].tracked /\ ~file[f].filed
               /\ file[f].buffer = 0 /\ call[f] = "none" /\ ~Submitting(call[f])
    <3> DEFINE q == file[f]
               c == call[f]
    <3>1. q.refs = One(q.open) + One(Asked(q, c)) /\ ~(q.refs > 0) /\ FileFits(q, c)
      BY <2>0, <2>2 DEF Fit, FileFits, Alive
    <3> HIDE DEF q, c
    <3>2. ~q.open /\ ~Asked(q, c)
      BY <3>1, SMTT(20) DEF One
    <3>3. q.buffer = 0 /\ c = "none" /\ ~q.tracked /\ ~q.filed /\ ~Submitting(c)
      BY <3>1, <3>2 DEF FileFits, Asked, One
    <3> QED
      BY <3>2, <3>3 DEF q, c
  <2>3. ASSUME vd.freed
        PROVE  /\ thread.mode = "end" /\ res = {} /\ irq = {} /\ lock = "free"
               /\ PollWorkStops => work.running \cup work.queued = {}
               /\ \A f \in Files : ~Alive(f)
    <3>1. thread.mode = "end"
      BY <2>0, <2>3, NotFreed
    <3>2. AliveFiles = {}
      <4>1. 0 = One(FALSE) + Cardinality(AliveFiles)
        BY <2>0, <2>3, <3>1 DEF Counted, One
      <4>2. Cardinality(AliveFiles) = 0
        BY <2>1, <4>1, SMTT(20) DEF One
      <4> QED
        BY <2>1, <4>2
    <3>3. \A f \in Files : ~Alive(f)
      BY <3>2 DEF AliveFiles, Alive
    <3>4. res = {}
      <4>1. res \ OfDevice = {}
        BY <3>1, SMTT(20) DEF Held, Holding
      <4> QED
        BY <2>0, <2>3, <4>1 DEF Counted
    <3>5. irq = {}
      BY <3>4 DEF Users
    <3>6. lock = "free"
      BY <2>0, <2>2, <3>3 DEF Stops
    <3>7. PollWorkStops => work.running \cup work.queued = {}
      <4>1. ~Accepting /\ \A x : ~Leaving(x)
        BY <3>1 DEF Accepting, Leaving
      <4>2. ~ResetPlace
        BY <3>1, <4>1 DEF ResetPlace
      <4>3. work.running \subseteq {"poll", "reset"} /\ work.queued \subseteq {"poll", "reset"}
        BY DEF Types, WorkType, Works
      <4> QED
        BY <2>0, <4>1, <4>2, <4>3 DEF PollWorkStops, Users, Stops
    <3> QED
      BY <3>1, <3>3, <3>4, <3>5, <3>6, <3>7
  <2>4. ASSUME thread.mode = "end", \A f \in Files : ~file[f].open
        PROVE  vd.freed
    <3>1. \A f \in Files : ~file[f].tracked
      BY <2>0, <2>4 DEF Stops, Tracked, RequestPlace, Leaving
    <3>2. ASSUME NEW f \in Files PROVE ~(file[f].refs > 0)
      <4> DEFINE q == file[f]
                 c == call[f]
      <4>1. q.refs = One(q.open) + One(Asked(q, c)) /\ ~q.open /\ ~q.tracked /\ FileFits(q, c)
        BY <2>0, <2>4, <3>1, <3>2 DEF Fit, FileFits
      <4> HIDE DEF q, c
      <4>2. ~Asked(q, c)
        BY <4>1 DEF FileFits, Asked, Submitting
      <4>3. ~(q.refs > 0)
        BY <4>1, <4>2, SMTT(20) DEF One
      <4> QED
        BY <4>3 DEF q
    <3>3. AliveFiles = {}
      BY <3>2 DEF AliveFiles
    <3>4. vd.refs = 0
      <4>1. vd.refs = One(FALSE) + Cardinality(AliveFiles) /\ Cardinality(AliveFiles) = 0
        BY <2>0, <2>1, <2>4, <3>3 DEF Counted, One
      <4> QED
        BY <4>1, SMTT(20) DEF One
    <3> QED
      BY <2>0, <3>4 DEF Counted
  <2> QED
    BY <2>2, <2>3, <2>4 DEF FreedIsQuiet
<1> QED
  BY <1>1, InitHeld, NextHeld, InitUsers, NextUsers, InitReferences, NextReferences, PTL
     DEF Spec
=============================================================================
