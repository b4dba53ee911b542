------------------------ MODULE RetainedRecordProofs ------------------------
(***************************************************************************)
(* What a boot finds in the retention window, and the count of dropped     *)
(* events, for a ring, a queue and counters of any size and any number of  *)
(* resets.                                                                 *)
(***************************************************************************)
EXTENDS RetainedRecord, FiniteSetTheorems, TLAPS

-----------------------------------------------------------------------------
(* The record *)

RecordTypes ==
    /\ window \in [header : BOOLEAN, crc : Contents \cup {NoCrc}, contents : Contents]
    /\ ram \in Contents /\ committed \in Contents
    /\ next \in 0 .. 10 /\ resets \in 0 .. MaxResets
    /\ failures \in 0 .. MaxCount

(* the words before the n-th one are those of ram *)
WrittenBefore(n) ==
    /\ n > 1 => window.header
    /\ n > 2 => window.crc = ram
    /\ n > 3 => window.contents.boots = ram.boots
    /\ n > 4 => window.contents.reset = ram.reset
    /\ n > 5 => window.contents.stuck = ram.stuck
    /\ n > 6 => window.contents.failures = ram.failures
    /\ n > 7 => window.contents.command = ram.command
    /\ n > 8 => window.contents.head = ram.head
    /\ n > 9 => window.contents.count = ram.count

(* A header is written before any CRC; as long as the old CRC is there,    *)
(* the contents it fits are the old ones.                                  *)
RecordInv ==
    /\ RecordTypes
    /\ ~window.header => window.crc = NoCrc
    /\ next \in {1, 2} /\ window.crc = window.contents => window.contents = committed
    /\ WrittenBefore(next)
    /\ next = 0 => /\ window.header /\ window.crc = ram
                   /\ window.contents = ram /\ committed = ram

(* Every change of the copy in memory leads from contents to contents.     *)
LEMMA BlankType == Blank \in Contents
<1>1. /\ 0 \in 0 .. MaxCount /\ 0 \in 0 .. MaxResets
      /\ 0 \in 0 .. Slots - 1 /\ 0 \in 0 .. Slots
  BY RecordAssumption
<1>2. NoEvents \in [0 .. Slots - 1 -> Events \cup {NoEvent}]
  BY DEF NoEvents
<1> QED
  BY <1>1, <1>2 DEF Blank, Contents

LEMMA FormatType ==
    ASSUME resets \in 0 .. MaxResets
    PROVE  Format \in Contents
<1>1. 1 \in 0 .. MaxCount
  BY RecordAssumption
<1>2. [Blank EXCEPT !.boots = 1] \in Contents
  BY <1>1, BlankType DEF Contents
<1> QED
  BY <1>2 DEF Format, Contents

LEMMA CounterType ==
    ASSUME NEW n \in 0 .. MaxCount
    PROVE  CounterIncrement(n) \in 0 .. MaxCount
  BY RecordAssumption DEF CounterIncrement

(* vams_retained_note_event stays in the ring. *)
LEMMA NotedType ==
    ASSUME NEW r \in Contents, NEW e \in Events
    PROVE  Noted(r, e) \in Contents
<1>1. /\ r.head \in 0 .. Slots - 1 /\ r.count \in 0 .. Slots
      /\ r.events \in [0 .. Slots - 1 -> Events \cup {NoEvent}]
  BY DEF Contents
<1>2. (r.head + 1) % Slots \in 0 .. Slots - 1
  BY <1>1, RecordAssumption
<1>3. (IF r.count < Slots THEN r.count + 1 ELSE r.count) \in 0 .. Slots
  BY <1>1, RecordAssumption
<1>4. [r.events EXCEPT ![r.head] = e] \in [0 .. Slots - 1 -> Events \cup {NoEvent}]
  BY <1>1
<1> QED
  BY <1>2, <1>3, <1>4 DEF Noted, Contents

LEMMA InitRecord == Init => RecordInv
<1> SUFFICES ASSUME Init PROVE RecordInv
  OBVIOUS
<1>1. RecordTypes
  BY BlankType, RecordAssumption DEF Init, RecordTypes
<1>2. WrittenBefore(next)
  BY DEF Init, WrittenBefore
<1> QED
  BY <1>1, <1>2 DEF Init, RecordInv

(* Commit starts the write of new contents over a record that is whole. *)
LEMMA CommitRecord ==
    ASSUME RecordInv, next = 0, NEW r \in Contents, Commit(r),
           UNCHANGED <<window, committed, resets>>, failures' \in 0 .. MaxCount
    PROVE  RecordInv'
<1>1. RecordTypes'
  BY DEF RecordInv, RecordTypes, Commit
<1>2. WrittenBefore(next)'
  BY DEF Commit, WrittenBefore
<1> QED
  BY <1>1, <1>2 DEF RecordInv, Commit

(* The tasks' changes of the record. *)
LEMMA TaskRecord ==
    ASSUME RecordInv, Running,
           \/ \E t \in StuckTasks : NoteHealth(t)
           \/ \E c \in Commands : NoteCommand(c)
           \/ \E t \in Emitters, e \in Events : NoteEvent(t, e)
           \/ ClearCommand
    PROVE  RecordInv'
<1>0. next = 0 /\ ram \in Contents /\ failures \in 0 .. MaxCount
  BY DEF Running, RecordInv, RecordTypes
<1>1. ASSUME NEW t \in StuckTasks, NoteHealth(t) PROVE RecordInv'
  <2>1. [ram EXCEPT !.stuck = t] \in Contents
    BY <1>0 DEF Contents
  <2>2. failures' \in 0 .. MaxCount
    BY <1>0, <1>1, CounterType DEF NoteHealth
  <2>3. [ram EXCEPT !.stuck = t, !.failures = failures'] \in Contents
    BY <2>1, <2>2, <1>0 DEF Contents
  <2> QED
    BY <1>0, <1>1, <2>2, <2>3, CommitRecord DEF NoteHealth
<1>2. ASSUME NEW c \in Commands, NoteCommand(c) PROVE RecordInv'
  <2>1. [ram EXCEPT !.command = c] \in Contents
    BY <1>0 DEF Contents
  <2> QED
    BY <1>0, <1>2, <2>1, CommitRecord DEF NoteCommand
<1>3. ASSUME NEW t \in Emitters, NEW e \in Events, NoteEvent(t, e) PROVE RecordInv'
  BY <1>0, <1>3, NotedType, CommitRecord DEF NoteEvent
<1>4. ASSUME ClearCommand PROVE RecordInv'
  <2>1. [ram EXCEPT !.command = NoCommand] \in Contents
    BY <1>0 DEF Contents
  <2> QED
    BY <1>0, <1>4, <2>1, CommitRecord DEF ClearCommand
<1> QED
  BY <1>1, <1>2, <1>3, <1>4

(* Boot starts over from what it found, or from nothing. *)
LEMMA BootRecord ==
    ASSUME RecordInv, Boot
    PROVE  RecordInv'
<1>1. /\ window.contents \in Contents /\ resets \in 0 .. MaxResets
      /\ 0 \in 0 .. MaxCount
  BY RecordAssumption DEF RecordInv, RecordTypes
<1> DEFINE found == [window.contents EXCEPT !.boots = CounterIncrement(@), !.reset = resets]
<1>2. found \in Contents
  <2>1. CounterIncrement(window.contents.boots) \in 0 .. MaxCount
    BY <1>1, CounterType DEF Contents
  <2>2. [window.contents EXCEPT !.boots = CounterIncrement(@)] \in Contents
    BY <1>1, <2>1 DEF Contents
  <2> QED
    BY <1>1, <2>2 DEF Contents
<1>3. /\ ram' \in {found, Format} /\ next' = 1
      /\ window' = window /\ resets' = resets /\ failures' = 0
      /\ committed' = IF Validate(window) THEN window.contents ELSE committed
  BY DEF Boot, Commit
<1>4. RecordTypes'
  BY <1>1, <1>2, <1>3, FormatType DEF RecordInv, RecordTypes
<1>5. WrittenBefore(next)'
  BY <1>3 DEF WrittenBefore
<1>6. window.crc = window.contents => Validate(window)
  BY <1>1, NoCrcAssumption DEF RecordInv, Validate
<1> QED
  BY <1>3, <1>4, <1>5, <1>6 DEF RecordInv, Validate

(* the fields of the contents *)
Words == {"boots", "reset", "stuck", "failures", "command", "head", "count",
          "events"}

(* Copying one word from the memory into the window. *)
LEMMA FieldType ==
    ASSUME NEW c \in Contents, NEW r \in Contents, NEW f \in Words
    PROVE  \A d : d = [c EXCEPT ![f] = r[f]] =>
              /\ d \in Contents /\ d[f] = r[f]
              /\ \A g \in Words \ {f} : d[g] = c[g]
<1>1. CASE f = "boots"     BY <1>1 DEF Contents, Words
<1>2. CASE f = "reset"     BY <1>2 DEF Contents, Words
<1>3. CASE f = "stuck"     BY <1>3 DEF Contents, Words
<1>4. CASE f = "failures"  BY <1>4 DEF Contents, Words
<1>5. CASE f = "command"   BY <1>5 DEF Contents, Words
<1>6. CASE f = "head"      BY <1>6 DEF Contents, Words
<1>7. CASE f = "count"     BY <1>7 DEF Contents, Words
<1>8. CASE f = "events"    BY <1>8 DEF Contents, Words
<1> QED
  BY <1>1, <1>2, <1>3, <1>4, <1>5, <1>6, <1>7, <1>8 DEF Words

(* Contents are the same when all their fields are. *)
LEMMA SameContents ==
    ASSUME NEW c \in Contents, NEW r \in Contents, \A f \in Words : c[f] = r[f]
    PROVE  c = r
<1>1. \A d \in Contents :
         d = [boots |-> d.boots, reset |-> d.reset, stuck |-> d.stuck,
              failures |-> d.failures, command |-> d.command, head |-> d.head,
              count |-> d.count, events |-> d.events]
  BY DEF Contents
<1>2. /\ c.boots = r.boots /\ c.reset = r.reset /\ c.stuck = r.stuck
      /\ c.failures = r.failures /\ c.command = r.command
      /\ c.head = r.head /\ c.count = r.count /\ c.events = r.events
  BY DEF Words
<1> QED
  BY <1>1, <1>2

(* The n-th word: the header, the CRC and the fields of the contents. *)
LEMMA WriteRecord ==
    ASSUME RecordInv, WriteField
    PROVE  RecordInv'
<1>0. Len(Fields) = 10
  BY DEF Fields
<1>a. /\ ram' = ram /\ resets' = resets /\ resets \in 0 .. MaxResets
      /\ failures' = failures /\ failures \in 0 .. MaxCount
      /\ ram \in Contents /\ committed \in Contents
      /\ window.header \in BOOLEAN /\ window.crc \in Contents \cup {NoCrc}
      /\ window.contents \in Contents
      /\ window = [header |-> window.header, crc |-> window.crc,
                   contents |-> window.contents]
  BY DEF WriteField, service, RecordInv, RecordTypes
<1>b. next \in 1 .. 10
  BY DEF WriteField, RecordInv, RecordTypes
<1>c. ASSUME NEW f \in Words, window' = [window EXCEPT !.contents[f] = ram[f]]
      PROVE  /\ window'.header = window.header /\ window'.crc = window.crc
             /\ window'.contents \in Contents
             /\ window'.contents[f] = ram[f]
             /\ \A g \in Words \ {f} : window'.contents[g] = window.contents[g]
             /\ window' \in [header : BOOLEAN, crc : Contents \cup {NoCrc},
                             contents : Contents]
  <2>1. window' = [window EXCEPT !.contents = [window.contents EXCEPT ![f] = ram[f]]]
    BY <1>a, <1>c
  <2>2. window'.contents = [window.contents EXCEPT ![f] = ram[f]]
    BY <1>a, <2>1
  <2>3. window'.header = window.header /\ window'.crc = window.crc
    BY <1>a, <2>1
  <2>4. /\ window'.contents \in Contents /\ window'.contents[f] = ram[f]
        /\ \A g \in Words \ {f} : window'.contents[g] = window.contents[g]
    BY <1>a, <2>2, FieldType
  <2>5. window' \in [header : BOOLEAN, crc : Contents \cup {NoCrc}, contents : Contents]
    BY <1>a, <2>1, <2>2, <2>4
  <2> QED
    BY <2>3, <2>4, <2>5
<1>1. CASE next = 1
  <2>1. /\ window' = [window EXCEPT !.header = TRUE]
        /\ next' = 2 /\ committed' = committed
    BY <1>0, <1>1 DEF WriteField, Fields
  <2>2. /\ window'.header /\ window'.crc = window.crc
        /\ window'.contents = window.contents
    BY <1>a, <2>1
  <2>3. window' \in [header : BOOLEAN, crc : Contents \cup {NoCrc}, contents : Contents]
    BY <1>a, <2>1
  <2>4. RecordTypes'
    BY <1>a, <2>1, <2>3 DEF RecordTypes
  <2>5. WrittenBefore(next)'
    BY <2>1, <2>2 DEF WrittenBefore
  <2> QED
    BY <1>a, <1>1, <2>1, <2>2, <2>4, <2>5 DEF RecordInv
<1>2. CASE next = 2
  <2>1. /\ window' = [window EXCEPT !.crc = ram]
        /\ next' = 3 /\ committed' = committed
    BY <1>0, <1>2 DEF WriteField, Fields
  <2>2. /\ window'.header = window.header /\ window'.crc = ram
        /\ window'.contents = window.contents
    BY <1>a, <2>1
  <2> QED
    BY <1>a, <1>2, <2>1, <2>2 DEF RecordInv, RecordTypes, WrittenBefore
<1>3. CASE next = 3
  <2>1. /\ window' = [window EXCEPT !.contents["boots"] = ram["boots"]]
        /\ next' = 4 /\ committed' = committed
    BY <1>0, <1>3 DEF WriteField, Fields
  <2> QED
    BY <1>a, <1>c, <1>3, <2>1 DEF RecordInv, RecordTypes, WrittenBefore, Words
<1>4. CASE next = 4
  <2>1. /\ window' = [window EXCEPT !.contents["reset"] = ram["reset"]]
        /\ next' = 5 /\ committed' = committed
    BY <1>0, <1>4 DEF WriteField, Fields
  <2> QED
    BY <1>a, <1>c, <1>4, <2>1 DEF RecordInv, RecordTypes, WrittenBefore, Words
<1>5. CASE next = 5
  <2>1. /\ window' = [window EXCEPT !.contents["stuck"] = ram["stuck"]]
        /\ next' = 6 /\ committed' = committed
    BY <1>0, <1>5 DEF WriteField, Fields
  <2> QED
    BY <1>a, <1>c, <1>5, <2>1 DEF RecordInv, RecordTypes, WrittenBefore, Words
<1>6. CASE next = 6
  <2>1. /\ window' = [window EXCEPT !.contents["failures"] = ram["failures"]]
        /\ next' = 7 /\ committed' = committed
    BY <1>0, <1>6 DEF WriteField, Fields
  <2> QED
    BY <1>a, <1>c, <1>6, <2>1 DEF RecordInv, RecordTypes, WrittenBefore, Words
<1>7. CASE next = 7
  <2>1. /\ window' = [window EXCEPT !.contents["command"] = ram["command"]]
        /\ next' = 8 /\ committed' = committed
    BY <1>0, <1>7 DEF WriteField, Fields
  <2> QED
    BY <1>a, <1>c, <1>7, <2>1 DEF RecordInv, RecordTypes, WrittenBefore, Words
<1>8. CASE next = 8
  <2>1. /\ window' = [window EXCEPT !.contents["head"] = ram["head"]]
        /\ next' = 9 /\ committed' = committed
    BY <1>0, <1>8 DEF WriteField, Fields
  <2> QED
    BY <1>a, <1>c, <1>8, <2>1 DEF RecordInv, RecordTypes, WrittenBefore, Words
<1>9. CASE next = 9
  <2>1. /\ window' = [window EXCEPT !.contents["count"] = ram["count"]]
        /\ next' = 10 /\ committed' = committed
    BY <1>0, <1>9 DEF WriteField, Fields
  <2> QED
    BY <1>a, <1>c, <1>9, <2>1 DEF RecordInv, RecordTypes, WrittenBefore, Words
<1>10. CASE next = 10
  <2>1. /\ window' = [window EXCEPT !.contents["events"] = ram["events"]]
        /\ next' = 0 /\ committed' = ram
    BY <1>0, <1>10 DEF WriteField, Fields
  <2>2. \A g \in Words : window'.contents[g] = ram[g]
    BY <1>c, <1>10, <2>1 DEF RecordInv, WrittenBefore, Words
  <2>3. window'.contents = ram
    BY <1>a, <1>c, <2>1, <2>2, SameContents DEF Words
  <2> QED
    BY <1>a, <1>c, <1>10, <2>1, <2>3 DEF RecordInv, RecordTypes, WrittenBefore, Words
<1> QED
  BY <1>b, <1>1, <1>2, <1>3, <1>4, <1>5, <1>6, <1>7, <1>8, <1>9, <1>10

(* A step of the rest leaves the record alone; a reset only counts. *)
LEMMA OtherRecord ==
    ASSUME RecordInv, UNCHANGED <<record, failures>>, resets' \in 0 .. MaxResets
    PROVE  RecordInv'
  BY DEF RecordInv, RecordTypes, WrittenBefore, record

LEMMA NextRecord == RecordInv /\ [Next]_vars => RecordInv'
<1> SUFFICES ASSUME RecordInv, [Next]_vars PROVE RecordInv'
  OBVIOUS
<1>0. resets \in 0 .. MaxResets
  BY DEF RecordInv, RecordTypes
<1>1. CASE WriteField
  BY <1>1, WriteRecord
<1>2. CASE Reset
  <2>1. resets' \in 0 .. MaxResets
    BY <1>0, <1>2, RecordAssumption DEF Reset
  <2> QED
    BY <1>2, <2>1, OtherRecord DEF Reset
<1>3. CASE Boot
  BY <1>3, BootRecord
<1>4. CASE Publish \/ LogEvent \/ (\E t \in Emitters : PutEvent(t) \/ RecordDrop(t))
  BY <1>0, <1>4, OtherRecord DEF Publish, LogEvent, PutEvent, RecordDrop, service
<1>5. CASE ClearCommand \/ (\E t \in StuckTasks : NoteHealth(t))
             \/ (\E c \in Commands : NoteCommand(c))
             \/ (\E t \in Emitters, e \in Events : NoteEvent(t, e))
  <2>1. Running
    BY <1>5 DEF ClearCommand, NoteHealth, NoteCommand, NoteEvent
  <2> QED
    BY <1>5, <2>1, TaskRecord
<1>6. CASE UNCHANGED vars
  BY <1>0, <1>6, OtherRecord DEF vars, service
<1> QED
  BY <1>1, <1>2, <1>3, <1>4, <1>5, <1>6 DEF Next

(* A boot takes a record from the window only when it was written whole,   *)
(* or is all of what was being written, and it finds the last one when no  *)
(* write was cut off: vams_retained_validate and the order in which        *)
(* vams_management_retention_write stores the words are enough for any     *)
(* number of resets, at any word.                                          *)
THEOREM RecordTheorem == Spec => []BootTrustsWholeRecords
<1>1. RecordInv => BootTrustsWholeRecords
  <2> SUFFICES ASSUME RecordInv PROVE BootTrustsWholeRecords
    OBVIOUS
  <2>1. next \in 0 .. 10
    BY DEF RecordInv, RecordTypes
  <2>2. CASE next = 0
    BY <2>2 DEF RecordInv, BootTrustsWholeRecords, Validate
  <2>3. CASE next \in {1, 2}
    BY <2>3 DEF RecordInv, BootTrustsWholeRecords, Validate
  <2>4. CASE next > 2
    BY <2>4, <2>1 DEF RecordInv, WrittenBefore, BootTrustsWholeRecords, Validate
  <2> QED
    BY <2>1, <2>2, <2>3, <2>4
<1> QED
  BY <1>1, InitRecord, NextRecord, PTL DEF Spec

-----------------------------------------------------------------------------
(* The ring of events *)

(* The remainder of a number below twice the modulus.                      *)
LEMMA WrapMod ==
    ASSUME NEW n \in Nat, NEW m \in Nat \ {0}, n < 2 * m
    PROVE  /\ n < m => n % m = n
           /\ ~(n < m) => n % m = n - m
<1>1. /\ n = m * (n \div m) + (n % m)
      /\ n % m \in 0 .. m - 1 /\ n \div m \in Nat
  BY SMT
<1>2. n \div m = IF n < m THEN 0 ELSE 1
  BY <1>1, SMT
<1> QED
  BY <1>1, <1>2, SMT

(* head goes around the ring: the k-th slot after the next head is the one *)
(* after the k-th slot.                                                    *)
LEMMA NextSlot ==
    ASSUME NEW h \in 0 .. Slots - 1, NEW k \in 0 .. Slots - 1
    PROVE  (((h + 1) % Slots) + k) % Slots = (h + (k + 1)) % Slots
<1>1. Slots \in Nat \ {0} /\ h + 1 \in Nat /\ h + 1 < 2 * Slots
      /\ h + (k + 1) \in Nat /\ h + (k + 1) < 2 * Slots
  BY RecordAssumption
<1> DEFINE w == h + 1
<1>2. /\ w < Slots => w % Slots = w
      /\ ~(w < Slots) => w % Slots = w - Slots
  BY <1>1, WrapMod, Zenon
<1>3. ((h + 1) % Slots) + k \in Nat /\ ((h + 1) % Slots) + k < 2 * Slots
  BY <1>1, <1>2
<1> DEFINE x == ((h + 1) % Slots) + k
           y == h + (k + 1)
<1>4. /\ x < Slots => x % Slots = x
      /\ ~(x < Slots) => x % Slots = x - Slots
      /\ y < Slots => y % Slots = y
      /\ ~(y < Slots) => y % Slots = y - Slots
  BY <1>1, <1>3, WrapMod, Zenon
<1> QED
  BY <1>1, <1>2, <1>4

(* Only a whole turn leads back to head.                                   *)
LEMMA SlotsDiffer ==
    ASSUME NEW h \in 0 .. Slots - 1, NEW k \in 1 .. Slots
    PROVE  /\ (h + k) % Slots \in 0 .. Slots - 1
           /\ (h + k) % Slots = h <=> k = Slots
<1>1. Slots \in Nat \ {0} /\ h + k \in Nat /\ h + k < 2 * Slots
  BY RecordAssumption
<1> DEFINE x == h + k
<1>2. /\ x < Slots => x % Slots = x
      /\ ~(x < Slots) => x % Slots = x - Slots
  BY <1>1, WrapMod, Zenon
<1> QED
  BY <1>1, <1>2

(* vams_retained_note_event adds the event after all others; if the ring   *)
(* is full the oldest one goes.                                            *)
LEMMA RecentNoted ==
    ASSUME NEW r \in Contents, NEW e \in Events
    PROVE  Recent(Noted(r, e)) = LastFew(Append(Recent(r), e))
<1> DEFINE Any == Events \cup {NoEvent}
           h == r.head
           c == r.count
           ring == r.events
           n == Noted(r, e)
           old == Recent(r)
           all == Append(old, e)
<1>1. /\ h \in 0 .. Slots - 1 /\ c \in 0 .. Slots
      /\ ring \in [0 .. Slots - 1 -> Any]
      /\ Slots \in Nat \ {0} /\ c \in Nat
  BY RecordAssumption DEF Contents
<1>2. /\ n.head = (h + 1) % Slots
      /\ n.count = IF c < Slots THEN c + 1 ELSE c
      /\ n.events = [ring EXCEPT ![h] = e]
  BY DEF Noted, Contents
<1>3. \A i \in 1 .. c : /\ old[i] = ring[(h + (Slots - c + i - 1)) % Slots]
                        /\ old[i] \in Any
  <2> SUFFICES ASSUME NEW i \in 1 .. c
               PROVE  /\ old[i] = ring[(h + (Slots - c + i - 1)) % Slots]
                      /\ old[i] \in Any
    OBVIOUS
  <2>1. h + Slots - c + i - 1 = h + (Slots - c + i - 1)
    BY <1>1
  <2>2. old[i] = ring[(h + (Slots - c + i - 1)) % Slots]
    BY <2>1 DEF Recent
  <2>3. (h + (Slots - c + i - 1)) % Slots \in 0 .. Slots - 1
    <3>1. Slots - c + i - 1 \in 0 .. Slots - 1
      BY <1>1
    <3> DEFINE x == h + (Slots - c + i - 1)
    <3>2. x \in Nat
      BY <1>1, <3>1
    <3> HIDE DEF x
    <3>3. x % Slots \in 0 .. Slots - 1
      BY <1>1, <3>2
    <3> QED
      BY <3>3 DEF x
  <2> QED
    BY <1>1, <2>2, <2>3
<1>4. old \in [1 .. c -> Any]
  BY <1>3 DEF Recent
<1>5. old \in Seq(Any) /\ Len(old) = c /\ e \in Any
  BY <1>1, <1>4
<1> HIDE DEF Any, old
<1>6. /\ all \in Seq(Any) /\ Len(all) = c + 1 /\ all[c + 1] = e
      /\ \A i \in 1 .. c : all[i] = old[i]
  BY <1>1, <1>5
<1> HIDE DEF all
<1>7. all = [i \in 1 .. c + 1 |-> all[i]]
  BY <1>6
<1> HIDE DEF h, c, ring, n
<1>8. CASE c < Slots
  <2>1. n.count = c + 1 /\ LastFew(all) = all
    BY <1>1, <1>2, <1>6, <1>8 DEF LastFew
  <2>2. ASSUME NEW i \in 1 .. c + 1
        PROVE  n.events[(n.head + Slots - n.count + i - 1) % Slots] = all[i]
    <3> DEFINE k == Slots - (c + 1) + i - 1
    <3>1. k \in 0 .. Slots - 1 /\ k + 1 = Slots - c + i - 1 /\ k + 1 \in 1 .. Slots
      BY <1>1, <1>8
    <3>2. (h + 1) % Slots \in 0 .. Slots - 1
      BY <1>1
    <3>3. n.head + Slots - n.count + i - 1 = ((h + 1) % Slots) + k
      BY <1>1, <1>2, <2>1, <3>2
    <3> HIDE DEF k
    <3>4. (n.head + Slots - n.count + i - 1) % Slots = (h + (k + 1)) % Slots
      BY <1>1, <3>1, <3>3, NextSlot
    <3>5. /\ (h + (k + 1)) % Slots \in 0 .. Slots - 1
          /\ (h + (k + 1)) % Slots = h <=> k + 1 = Slots
      BY <1>1, <3>1, SlotsDiffer
    <3>6. CASE i = c + 1
      <4>1. k + 1 = Slots
        BY <1>1, <3>1, <3>6
      <4> QED
        BY <1>1, <1>2, <1>6, <3>4, <3>5, <3>6, <4>1
    <3>7. CASE i # c + 1
      <4>1. i \in 1 .. c /\ k + 1 # Slots
        BY <1>1, <3>1, <3>7
      <4>2. n.events[(h + (k + 1)) % Slots] = ring[(h + (k + 1)) % Slots]
        BY <1>1, <1>2, <3>5, <4>1
      <4>3. old[i] = ring[(h + (k + 1)) % Slots]
        BY <1>3, <3>1, <4>1
      <4> QED
        BY <1>6, <3>4, <4>1, <4>2, <4>3
    <3> QED
      BY <3>6, <3>7
  <2>3. Recent(n) = [i \in 1 .. c + 1 |-> all[i]]
    BY <2>1, <2>2 DEF Recent
  <2> QED
    BY <1>7, <2>1, <2>3 DEF n, all, old
<1>9. CASE c = Slots
  <2>1. n.count = Slots /\ Len(all) = Slots + 1
    BY <1>1, <1>2, <1>6, <1>9
  <2>2. LastFew(all) = SubSeq(all, 2, Slots + 1)
    BY <1>1, <2>1 DEF LastFew
  <2>3. SubSeq(all, 2, Slots + 1) = [i \in 1 .. Slots |-> all[i + 1]]
    BY <1>1, <1>6, <2>1
  <2>4. ASSUME NEW i \in 1 .. Slots
        PROVE  n.events[(n.head + Slots - n.count + i - 1) % Slots] = all[i + 1]
    <3> DEFINE k == i - 1
    <3>1. k \in 0 .. Slots - 1 /\ k + 1 = i
      BY <1>1
    <3>2. (h + 1) % Slots \in 0 .. Slots - 1
      BY <1>1
    <3>3. n.head + Slots - n.count + i - 1 = ((h + 1) % Slots) + k
      BY <1>1, <1>2, <2>1, <3>2
    <3> HIDE DEF k
    <3>4. (n.head + Slots - n.count + i - 1) % Slots = (h + i) % Slots
      BY <1>1, <3>1, <3>3, NextSlot
    <3>5. /\ (h + i) % Slots \in 0 .. Slots - 1
          /\ (h + i) % Slots = h <=> i = Slots
      BY <1>1, SlotsDiffer
    <3>6. CASE i = Slots
      BY <1>1, <1>2, <1>6, <1>9, <3>4, <3>5, <3>6
    <3>7. CASE i # Slots
      <4>1. i + 1 \in 1 .. c /\ Slots - c + (i + 1) - 1 = i
        BY <1>1, <1>9, <3>7
      <4>2. old[i + 1] = ring[(h + i) % Slots]
        BY <1>3, <4>1
      <4>3. n.events[(h + i) % Slots] = ring[(h + i) % Slots]
        BY <1>1, <1>2, <3>5, <3>7
      <4> QED
        BY <1>6, <3>4, <4>1, <4>2, <4>3
    <3> QED
      BY <3>6, <3>7
  <2>5. Recent(n) = [i \in 1 .. Slots |-> all[i + 1]]
    BY <2>1, <2>4 DEF Recent
  <2> QED
    BY <2>2, <2>3, <2>5 DEF n, all, old
<1> QED
  BY <1>1, <1>8, <1>9

(* While the firmware runs, every write of the record leaves the events of *)
(* the ring alone, or adds one at its end for which the oldest goes when   *)
(* all slots are taken, for a ring of any size.                            *)
THEOREM EventsTheorem == Spec => EventsInOrder
<1> DEFINE InOrder ==
             cpu = "run" =>
               \/ Recent(ram') = Recent(ram)
               \/ \E e \in Events : Recent(ram') = LastFew(Append(Recent(ram), e))
<1>1. RecordInv /\ [Next]_vars => [InOrder]_vars
  <2> SUFFICES ASSUME RecordInv, Next, cpu = "run"
               PROVE  \/ Recent(ram') = Recent(ram)
                      \/ \E e \in Events :
                           Recent(ram') = LastFew(Append(Recent(ram), e))
    OBVIOUS
  <2>1. ram \in Contents
    BY DEF RecordInv, RecordTypes
  <2>2. CASE \E t \in Emitters, e \in Events : NoteEvent(t, e)
    <3>1. PICK e \in Events : ram' = Noted(ram, e)
      BY <2>2 DEF NoteEvent, Commit
    <3> QED
      BY <2>1, <3>1, RecentNoted
  <2>3. CASE \/ ClearCommand
             \/ \E t \in StuckTasks : NoteHealth(t)
             \/ \E c \in Commands : NoteCommand(c)
    <3>1. /\ ram'.count = ram.count /\ ram'.head = ram.head
          /\ ram'.events = ram.events
      BY <2>1, <2>3 DEF ClearCommand, NoteHealth, NoteCommand, Commit, Contents
    <3> QED
      BY <3>1 DEF Recent
  <2>4. CASE WriteField \/ Reset \/ Publish \/ LogEvent
             \/ \E t \in Emitters : PutEvent(t) \/ RecordDrop(t)
    BY <2>4 DEF WriteField, Reset, Publish, LogEvent, PutEvent, RecordDrop, record
  <2>5. CASE Boot
    BY <2>5 DEF Boot
  <2> QED
    BY <2>2, <2>3, <2>4, <2>5 DEF Next
<1>2. RecordInv /\ [Next]_vars => RecordInv'
  BY NextRecord
<1> QED
  BY <1>1, <1>2, InitRecord, PTL DEF Spec, EventsInOrder

-----------------------------------------------------------------------------
(* The dropped events *)

Counting == {t \in Emitters : emit[t].step = "drop"}

(* What an emitter has read of the counter is not ahead of it, and the     *)
(* counter is what DropsExact says.                                        *)
DropInv ==
    /\ emit \in [Emitters -> [step : {"idle", "put", "drop"}, seen : 0 .. MaxCount]]
    /\ drops \in 0 .. MaxCount /\ lost \in 0 .. Many
    /\ \A t \in Counting : emit[t].seen <= drops
    /\ DropsExact

LEMMA EmittersFinite ==
    IsFiniteSet(Emitters) /\ Cardinality(Emitters) = 2 /\ Many = MaxCount + 2
<1>1. IsFiniteSet({"completion"}) /\ Cardinality({"completion"}) = 1
  BY FS_Singleton
<1>2. Emitters = {"completion"} \cup {"task"} /\ "task" \notin {"completion"}
  BY DEF Emitters
<1>3. IsFiniteSet(Emitters) /\ Cardinality(Emitters) = 1 + 1
  BY <1>1, <1>2, FS_AddElement
<1> QED
  BY <1>3 DEF Many

(* The number of emitters that are about to count. *)
LEMMA CountingSize ==
    ASSUME NEW S \in SUBSET Emitters
    PROVE  /\ IsFiniteSet(S) /\ Cardinality(S) \in 0 .. 2
           /\ \A t \in Emitters \ S : /\ Cardinality(S \cup {t}) = Cardinality(S) + 1
                                      /\ Cardinality(S) \in 0 .. 1
           /\ \A t \in S : /\ Cardinality(S \ {t}) = Cardinality(S) - 1
                            /\ Cardinality(S) \in 1 .. 2
<1>1. \A T \in SUBSET Emitters : IsFiniteSet(T) /\ Cardinality(T) \in 0 .. 2
  <2> TAKE T \in SUBSET Emitters
  <2>1. IsFiniteSet(T) /\ Cardinality(T) <= Cardinality(Emitters)
    BY EmittersFinite, FS_Subset
  <2>2. Cardinality(T) \in Nat
    BY <2>1, FS_CardinalityType
  <2> QED
    BY <2>1, <2>2, EmittersFinite
<1>2. ASSUME NEW t \in Emitters \ S
      PROVE  /\ Cardinality(S \cup {t}) = Cardinality(S) + 1
             /\ Cardinality(S) \in 0 .. 1
  <2>1. Cardinality(S \cup {t}) = Cardinality(S) + 1
    BY <1>1, FS_AddElement
  <2>2. Cardinality(S) \in 0 .. 2 /\ Cardinality(S \cup {t}) \in 0 .. 2
    BY <1>1
  <2> QED
    BY <2>1, <2>2
<1>3. ASSUME NEW t \in S
      PROVE  /\ Cardinality(S \ {t}) = Cardinality(S) - 1
             /\ Cardinality(S) \in 1 .. 2
  <2>1. Cardinality(S \ {t}) = Cardinality(S) - 1
    BY <1>1, FS_RemoveElement
  <2>2. Cardinality(S) \in 0 .. 2 /\ Cardinality(S \ {t}) \in 0 .. 2
    BY <1>1
  <2> QED
    BY <2>1, <2>2
<1> QED
  BY <1>1, <1>2, <1>3

(* DropsExact is a statement about the size of Counting. *)
LEMMA DropsAre ==
    DropsExact <=> drops = IF lost - Cardinality(Counting) < MaxCount
                           THEN lost - Cardinality(Counting) ELSE MaxCount
  BY DEF DropsExact, Counting

LEMMA DropsArePrimed ==
    DropsExact' <=> drops' = IF lost' - Cardinality(Counting') < MaxCount
                             THEN lost' - Cardinality(Counting') ELSE MaxCount
  BY DEF DropsExact, Counting

(* Nothing is counted at a boot. *)
LEMMA QuietDrops ==
    ASSUME NEW e, e = [t \in Emitters |-> Idle]
    PROVE  /\ e \in [Emitters -> [step : {"idle", "put", "drop"}, seen : 0 .. MaxCount]]
           /\ {t \in Emitters : e[t].step = "drop"} = {}
           /\ 0 \in 0 .. MaxCount /\ 0 \in 0 .. Many
           /\ Cardinality({}) = 0
<1>1. 0 \in 0 .. MaxCount /\ 0 \in 0 .. Many
  BY RecordAssumption, EmittersFinite
<1>2. Cardinality({}) = 0
  BY FS_EmptySet
<1> QED
  BY <1>1, <1>2 DEF Idle

LEMMA InitDrops == Init => DropInv
<1> SUFFICES ASSUME Init PROVE DropInv
  OBVIOUS
<1>1. emit = [t \in Emitters |-> Idle] /\ drops = 0 /\ lost = 0
  BY DEF Init
<1>2. Counting = {}
  BY <1>1, QuietDrops DEF Counting
<1>3. DropsExact
  BY <1>1, <1>2, QuietDrops, DropsAre, RecordAssumption
<1> QED
  BY <1>1, <1>2, <1>3, QuietDrops DEF DropInv

(* An event that finds the queue full is due from then on; past Many there *)
(* is nothing left to count.                                               *)
LEMMA PutDrops ==
    ASSUME DropInv, NEW t \in Emitters, PutEvent(t)
    PROVE  DropInv'
<1>0. Counting \in SUBSET Emitters /\ t \notin Counting
  BY DEF Counting, PutEvent
<1>1. CASE queue < QueueDepth
  <2>1. /\ emit' = [emit EXCEPT ![t] = Idle]
        /\ drops' = drops /\ lost' = lost
    BY <1>1 DEF PutEvent
  <2>2. Idle \in [step : {"idle", "put", "drop"}, seen : 0 .. MaxCount] /\ Idle.step # "drop"
    BY RecordAssumption DEF Idle
  <2>3. Counting' = Counting /\ \A u \in Counting : emit'[u] = emit[u]
    BY <1>0, <2>1, <2>2 DEF Counting, DropInv
  <2>4. DropsExact'
    BY <2>1, <2>3, DropsAre, DropsArePrimed DEF DropInv
  <2> QED
    BY <2>1, <2>2, <2>3, <2>4 DEF DropInv
<1>2. CASE ~(queue < QueueDepth)
  <2>1. /\ emit' = [emit EXCEPT ![t] = [step |-> "drop", seen |-> drops]]
        /\ lost' = IF lost < Many THEN lost + 1 ELSE lost
        /\ drops' = drops
    BY <1>2 DEF PutEvent
  <2>2. /\ Counting' = Counting \cup {t}
        /\ emit'[t].seen = drops
        /\ \A u \in Counting : emit'[u] = emit[u]
    BY <1>0, <2>1 DEF Counting, DropInv
  <2>3. /\ Cardinality(Counting') = Cardinality(Counting) + 1
        /\ Cardinality(Counting) \in 0 .. 1
    BY <1>0, <2>2, CountingSize
  <2>4. DropsExact'
    BY <2>1, <2>3, DropsAre, DropsArePrimed, EmittersFinite, RecordAssumption DEF DropInv
  <2>5. lost' \in 0 .. Many
    BY <2>1, EmittersFinite, RecordAssumption DEF DropInv
  <2>6. emit' \in [Emitters -> [step : {"idle", "put", "drop"}, seen : 0 .. MaxCount]]
    BY <2>1 DEF DropInv
  <2>7. \A u \in Counting' : emit'[u].seen <= drops'
    BY <2>1, <2>2 DEF DropInv
  <2> QED
    BY <2>1, <2>4, <2>5, <2>6, <2>7 DEF DropInv
<1> QED
  BY <1>1, <1>2

(* The exchange counts one, or the emitter reads again. *)
LEMMA CountDrops ==
    ASSUME DropInv, NEW t \in Emitters, RecordDrop(t)
    PROVE  DropInv'
<1> DEFINE seen == emit[t].seen
<1>0. /\ Counting \in SUBSET Emitters /\ t \in Counting
      /\ seen \in 0 .. MaxCount /\ seen <= drops /\ lost' = lost
  BY DEF Counting, RecordDrop, DropInv
<1>1. CASE seen # MaxCount /\ drops # seen
  <2>1. emit' = [emit EXCEPT ![t].seen = drops] /\ drops' = drops
    BY <1>1 DEF RecordDrop
  <2>2. /\ emit' \in [Emitters -> [step : {"idle", "put", "drop"}, seen : 0 .. MaxCount]]
        /\ emit'[t].seen = drops /\ emit'[t].step = emit[t].step
        /\ \A u \in Emitters \ {t} : emit'[u] = emit[u]
    BY <2>1 DEF DropInv
  <2>3. Counting' = Counting
    BY <2>2 DEF Counting
  <2>4. DropsExact'
    BY <1>0, <2>1, <2>3, DropsAre, DropsArePrimed DEF DropInv
  <2>5. \A u \in Counting' : emit'[u].seen <= drops'
    BY <1>0, <2>1, <2>2, <2>3 DEF DropInv
  <2> QED
    BY <1>0, <2>1, <2>2, <2>4, <2>5 DEF DropInv
<1>2. CASE ~(seen # MaxCount /\ drops # seen)
  <2>1. /\ drops' = IF seen = MaxCount THEN drops ELSE CounterIncrement(seen)
        /\ emit' = [emit EXCEPT ![t] = Idle]
    BY <1>2 DEF RecordDrop
  <2>2. Idle \in [step : {"idle", "put", "drop"}, seen : 0 .. MaxCount] /\ Idle.step # "drop"
    BY RecordAssumption DEF Idle
  <2>3. /\ Counting' = Counting \ {t}
        /\ \A u \in Counting \ {t} : emit'[u] = emit[u]
    BY <1>0, <2>1, <2>2 DEF Counting, DropInv
  <2>4. /\ Cardinality(Counting') = Cardinality(Counting) - 1
        /\ Cardinality(Counting) \in 1 .. 2
    BY <1>0, <2>3, CountingSize
  <2>5. /\ drops' = IF drops = MaxCount THEN drops ELSE drops + 1
        /\ drops \in 0 .. MaxCount
    BY <1>0, <1>2, <2>1, RecordAssumption DEF CounterIncrement, DropInv
  <2>6. DropsExact'
    BY <1>0, <2>4, <2>5, DropsAre, DropsArePrimed, EmittersFinite, RecordAssumption
       DEF DropInv
  <2>7. drops' \in 0 .. MaxCount /\ drops <= drops'
    BY <2>5, RecordAssumption
  <2>8. emit' \in [Emitters -> [step : {"idle", "put", "drop"}, seen : 0 .. MaxCount]]
    BY <2>1, <2>2 DEF DropInv
  <2>9. \A u \in Counting' : emit'[u].seen <= drops'
    <3> TAKE u \in Counting'
    <3>1. emit'[u].seen <= drops /\ emit'[u].seen \in 0 .. MaxCount
      BY <2>3, <2>8, <1>0 DEF DropInv
    <3> QED
      BY <3>1, <2>5, <2>7, RecordAssumption
  <2> QED
    BY <1>0, <2>6, <2>7, <2>8, <2>9 DEF DropInv
<1> QED
  BY <1>1, <1>2

(* The step in which an event is noted, and those that leave the log alone. *)
LEMMA OtherDrops ==
    ASSUME DropInv, UNCHANGED <<drops, lost>>,
           \/ emit' = emit
           \/ \E t \in Emitters : emit[t] = Idle /\ emit' = [emit EXCEPT ![t].step = "put"]
    PROVE  DropInv'
<1>1. /\ emit' \in [Emitters -> [step : {"idle", "put", "drop"}, seen : 0 .. MaxCount]]
      /\ Counting' = Counting /\ \A u \in Counting : emit'[u] = emit[u]
  BY DEF DropInv, Counting, Idle
<1>2. DropsExact'
  BY <1>1, DropsAre, DropsArePrimed DEF DropInv
<1> QED
  BY <1>1, <1>2 DEF DropInv

LEMMA NextDrops == DropInv /\ [Next]_vars => DropInv'
<1> SUFFICES ASSUME DropInv, [Next]_vars PROVE DropInv'
  OBVIOUS
<1>1. CASE Reset
  <2>1. emit' = [t \in Emitters |-> Idle] /\ drops' = 0 /\ lost' = 0
    BY <1>1 DEF Reset
  <2>2. Counting' = {}
    BY <2>1, QuietDrops DEF Counting
  <2>3. DropsExact'
    BY <2>1, <2>2, QuietDrops, DropsArePrimed, RecordAssumption
  <2> QED
    BY <2>1, <2>2, <2>3, QuietDrops DEF DropInv
<1>2. CASE \E t \in Emitters : PutEvent(t)
  BY <1>2, PutDrops
<1>3. CASE \E t \in Emitters : RecordDrop(t)
  BY <1>3, CountDrops
<1>4. CASE \E t \in Emitters, e \in Events : NoteEvent(t, e)
  BY <1>4, OtherDrops DEF NoteEvent
<1>5. CASE WriteField \/ Boot \/ Publish \/ ClearCommand \/ LogEvent
             \/ (\E t \in StuckTasks : NoteHealth(t))
             \/ (\E c \in Commands : NoteCommand(c))
  BY <1>5, OtherDrops
     DEF WriteField, Boot, Publish, ClearCommand, LogEvent, NoteHealth, NoteCommand, log
<1>6. CASE UNCHANGED vars
  BY <1>6, OtherDrops DEF vars, log
<1> QED
  BY <1>1, <1>2, <1>3, <1>4, <1>5, <1>6 DEF Next

(* vams_event_record_drop counts every event that found the queue full     *)
(* exactly once, however its turns interleave with those of another task,  *)
(* up to the value at which the counter stays.                             *)
THEOREM DropsTheorem == Spec => []DropsExact
<1>1. DropInv => DropsExact
  BY DEF DropInv
<1> QED
  BY <1>1, InitDrops, NextDrops, PTL DEF Spec
=============================================================================
