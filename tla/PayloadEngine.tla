---------------------------- MODULE PayloadEngine ----------------------------
(***************************************************************************)
(* One command from the submit ioctl to its bytes: the driver looks up the *)
(* caller's registered buffers and forms the descriptor (vams_ioctl_submit)*)
(* or another host program writes one into the SQ; the firmware validates  *)
(* it; the engine runs it over host memory in chunks                       *)
(* (vams_pcie_execute_payload).  Any DMA transfer and any allocation may   *)
(* fail.                                                                   *)
(*                                                                         *)
(* The loop over the chunks is one callback of the device model; a step of *)
(* it is a chunk.  Who runs the command when is the matter of the modules  *)
(* CommandPipeline and PcieEndpoint.                                       *)
(***************************************************************************)
EXTENDS CommandValidation, FiniteSetsExt

CONSTANTS
    Handles,        \* handles of registered buffers
    NoHandle,       \* the handle 0
    NoInput,        \* no ioctl: the descriptor was put into the SQ by others
    Chunk,          \* VAMS_DMA_CHUNK_SIZE
    Layouts,        \* the registered buffers considered, handle by handle
    Inputs,         \* what callers of the ioctl ask for
    RawDescriptors, \* what other host programs put into the SQ
    Memories        \* contents of host memory to begin with

Access == {"READ", "WRITE"}
Mapping == [addr : Address, length : 1 .. MaxTransfer, flags : SUBSET Access]

Input ==
    [opcode : Opcode \cup {"unknown"}, flags : SUBSET {"VERIFY_CRC", "undefined"},
     source : Handles \cup {NoHandle}, destination : Handles \cup {NoHandle},
     sourceOffset : Address, destinationOffset : Address,
     length : Address, timeout : Nat, expected : {"zero", "right", "wrong"}]

ASSUME EngineAssumption ==
    /\ NoHandle \notin Handles /\ NoInput \notin Input
    /\ Chunk \in Nat \ {0} /\ Chunk % Word = 0
    /\ Layouts \subseteq [Handles -> Mapping] /\ Layouts # {}
    /\ Inputs \subseteq Input /\ RawDescriptors \subseteq Descriptor
    /\ Memories \subseteq [Address -> Byte]

VARIABLES
    maps,      \* the registered buffers of the file
    input,     \* the argument of the ioctl
    desc,      \* the descriptor in the SQ
    pc,        \* where the command is
    verdict,   \* the firmware's error code
    mem, old,  \* host memory, and what it was before the command
    eng,       \* the locals of vams_pcie_execute_payload
    result,    \* the completion
    touched    \* history: the bytes the engine has read and written

vars == <<maps, input, desc, pc, verdict, mem, old, eng, result, touched>>

Plus(a, n) == (a + n) % AddressSpace

(* the string of bytes at a place in memory *)
Bytes(m, address, length) == [i \in 1 .. length |-> m[Plus(address, i - 1)]]

NoDescriptor ==
    [version |-> 1, opcode |-> "NOP", flags |-> {}, reserved |-> FALSE,
     timeout |-> 0, source |-> 0, destination |-> 0, length |-> 0,
     expected |-> ZeroCrc]

Init ==
    /\ mem \in Memories /\ old = mem
    /\ \/ /\ pc = "submit" /\ desc = NoDescriptor
          /\ input \in Inputs /\ maps \in Layouts
       \/ /\ pc = "validate" /\ desc \in RawDescriptors
          /\ input = NoInput /\ maps = CHOOSE l \in Layouts : TRUE
    /\ verdict = "none"
    /\ eng = [offset |-> 0, fill |-> 0, crc |-> << >>]
    /\ result = [status |-> "none", error |-> "NONE", bytes |-> 0, crc |-> << >>]
    /\ touched = [read |-> {}, written |-> {}]

-----------------------------------------------------------------------------
(* The driver *)

Overflows(a, n) == a + n >= AddressSpace

(* Mutant: only where the range begins is compared with the buffer. *)
MappingLookupShort(handle, offset, length, access) ==
    /\ handle # NoHandle
    /\ access \subseteq maps[handle].flags
    /\ offset <= maps[handle].length
    /\ ~Overflows(maps[handle].addr, offset)
    /\ maps[handle].addr + offset # 0
    /\ ~Overflows(maps[handle].addr + offset, length)

(* vams_mapping_lookup_locked succeeds *)
MappingLookup(handle, offset, length, access) ==
    /\ handle # NoHandle /\ ~Overflows(offset, length)
    /\ access \subseteq maps[handle].flags
    /\ offset + length <= maps[handle].length
    /\ ~Overflows(maps[handle].addr, offset)
    /\ maps[handle].addr + offset # 0
    /\ ~Overflows(maps[handle].addr + offset, length)

SourceAccess(q) == IF q.opcode = "NOP" THEN {} ELSE {"READ"}

DestinationAccess(q) ==
    CASE q.opcode \in {"MEM_COPY", "MEM_FILL"} -> {"WRITE"}
      [] q.opcode = "VECTOR_ADD" -> {"READ", "WRITE"}
      [] OTHER -> {}

(* the operands each operation takes *)
OperandsFit(q) ==
    CASE q.opcode = "NOP" ->
           /\ q.source = NoHandle /\ q.destination = NoHandle
           /\ q.sourceOffset = 0 /\ q.destinationOffset = 0 /\ q.length = 0
      [] q.opcode \in {"MEM_COPY", "MEM_FILL"} ->
           q.length # 0 /\ q.source # NoHandle /\ q.destination # NoHandle
      [] q.opcode = "CRC32" ->
           /\ q.length # 0 /\ q.source # NoHandle
           /\ q.destination = NoHandle /\ q.destinationOffset = 0
      [] q.opcode = "VECTOR_ADD" ->
           /\ q.length >= Word /\ q.length % Word = 0
           /\ q.source # NoHandle /\ q.destination # NoHandle
      [] OTHER -> FALSE

SourceDma(q) ==
    IF SourceAccess(q) = {} THEN 0 ELSE maps[q.source].addr + q.sourceOffset

DestinationDma(q) ==
    IF DestinationAccess(q) = {} THEN 0
    ELSE maps[q.destination].addr + q.destinationOffset

(* Mutant: only the same place is refused. *)
SourceIsDestination(q) ==
    SourceDma(q) # 0 /\ q.opcode # "MEM_FILL" /\ SourceDma(q) = DestinationDma(q)

(* the two ranges have a byte in common *)
SourceMeetsDestination(q) ==
    /\ SourceDma(q) # 0 /\ DestinationDma(q) # 0 /\ q.opcode # "MEM_FILL"
    /\ SourceDma(q) < DestinationDma(q) + q.length
    /\ DestinationDma(q) < SourceDma(q) + q.length

(* vams_ioctl_submit gets as far as vams_submit *)
Accepted(q) ==
    /\ q.timeout <= MaxTimeout /\ q.length <= MaxTransfer
    /\ q.flags \subseteq {"VERIFY_CRC"}
    /\ q.opcode # "CRC32" => q.flags = {}
    /\ q.flags = {} \/ q.opcode # "CRC32" => q.expected = "zero"
    /\ OperandsFit(q)
    /\ SourceAccess(q) # {} =>
         MappingLookup(q.source, q.sourceOffset,
                       IF q.opcode = "MEM_FILL" THEN 1 ELSE q.length,
                       SourceAccess(q))
    /\ DestinationAccess(q) # {} =>
         MappingLookup(q.destination, q.destinationOffset, q.length,
                       DestinationAccess(q))
    /\ ~SourceMeetsDestination(q)

(* the CRC a caller expects is that of its source, or another *)
ExpectedCrc(q) ==
    LET crc == Bytes(mem, SourceDma(q), q.length)
    IN  CASE q.expected = "zero"  -> ZeroCrc
          [] q.expected = "right" -> crc
          [] q.expected = "wrong" -> Append(crc, 0)

(* the descriptor *)
Translated(q) ==
    [version |-> 1, opcode |-> q.opcode, flags |-> q.flags, reserved |-> FALSE,
     timeout |-> q.timeout, source |-> SourceDma(q),
     destination |-> DestinationDma(q), length |-> q.length,
     expected |-> ExpectedCrc(q)]

DriverSubmit ==
    /\ pc = "submit"
    /\ IF Accepted(input) THEN pc' = "validate" /\ desc' = Translated(input)
       ELSE pc' = "refused" /\ UNCHANGED desc
    /\ UNCHANGED <<maps, input, verdict, mem, old, eng, result, touched>>

-----------------------------------------------------------------------------
(* The firmware *)

Complete(status, error, bytes, crc) ==
    /\ pc' = "done"
    /\ result' = [status |-> status, error |-> error, bytes |-> bytes, crc |-> crc]

(* vams_command_execute and vams_is_payload_opcode *)
FirmwareExecute ==
    /\ pc = "validate"
    /\ verdict' = ValidateCommand(desc)
    /\ IF verdict' # "NONE" THEN Complete("INVALID", verdict', 0, << >>)
       ELSE IF desc.opcode = "NOP" THEN Complete("SUCCESS", "NONE", 0, << >>)
       ELSE pc' = "start" /\ UNCHANGED result
    /\ UNCHANGED <<maps, input, desc, mem, old, eng, touched>>

-----------------------------------------------------------------------------
(* The engine *)

(* Mutant: the chunks already done are reported. *)
FailWithProgress(error) == Complete("FAILED", error, eng.offset, << >>)

(* vams_pcie_complete_dma_error *)
Fail(error) == Complete("FAILED", error, 0, << >>)

Extent(address, n) == {Plus(address, i) : i \in 0 .. n - 1}

(* before the loop: the second validation, the buffers, the fill value *)
EngineStart ==
    /\ pc = "start"
    /\ \/ Fail("ENGINE") /\ UNCHANGED <<eng, touched>>
       \/ /\ desc.opcode = "MEM_FILL"
          /\ Fail("DMA_READ") /\ UNCHANGED <<eng, touched>>
       \/ /\ PcieValidateCommand(desc) = "NONE"
          /\ pc' = "chunk"
          /\ IF desc.opcode = "MEM_FILL"
             THEN /\ eng' = [eng EXCEPT !.fill = mem[desc.source]]
                  /\ touched' = [touched EXCEPT !.read = {desc.source}]
             ELSE UNCHANGED <<eng, touched>>
          /\ UNCHANGED result
    /\ UNCHANGED <<maps, input, desc, verdict, mem, old>>

(* little-endian words of buffers, which begin at index 1 *)
WordAt(b, k) == MapThenSumSet(LAMBDA j : b[k + j] * Base ^ j, 0 .. Word - 1)

AddWords(x, y) ==
    [i \in DOMAIN x |->
       LET j == (i - 1) % Word
       IN  ((WordAt(x, i - j) + WordAt(y, i - j)) \div Base ^ j) % Base]

(* Mutant: only whole words. *)
ChunkSizeWords ==
    IF desc.length - eng.offset < Chunk
    THEN ((desc.length - eng.offset) \div Word) * Word ELSE Chunk

ChunkSize == IF desc.length - eng.offset < Chunk THEN desc.length - eng.offset
             ELSE Chunk

ChunkSource == Plus(desc.source, eng.offset)
ChunkDestination == Plus(desc.destination, eng.offset)

(* the bytes read for a chunk, and those written *)
ChunkReads ==
    CASE desc.opcode = "MEM_FILL" -> {}
      [] desc.opcode = "VECTOR_ADD" ->
           Extent(ChunkSource, ChunkSize) \cup Extent(ChunkDestination, ChunkSize)
      [] OTHER -> Extent(ChunkSource, ChunkSize)

(* Mutant: the destination is added to itself. *)
ChunkOutputTwice ==
    LET from == Bytes(mem, ChunkSource, ChunkSize)
        to == Bytes(mem, ChunkDestination, ChunkSize)
    IN  CASE desc.opcode = "MEM_FILL" -> [i \in 1 .. ChunkSize |-> eng.fill]
          [] desc.opcode = "VECTOR_ADD" -> AddWords(to, to)
          [] OTHER -> from

ChunkOutput ==
    LET from == Bytes(mem, ChunkSource, ChunkSize)
        to == Bytes(mem, ChunkDestination, ChunkSize)
    IN  CASE desc.opcode = "MEM_FILL" -> [i \in 1 .. ChunkSize |-> eng.fill]
          [] desc.opcode = "VECTOR_ADD" -> AddWords(from, to)
          [] OTHER -> from

(* memory after the first n bytes of the chunk are written *)
Written(n) ==
    [a \in Address |->
       LET hit == {i \in 1 .. n : Plus(ChunkDestination, i - 1) = a}
       IN  IF hit = {} THEN mem[a] ELSE ChunkOutput[CHOOSE i \in hit : TRUE]]

ReadsMore == [touched EXCEPT !.read = @ \cup ChunkReads]

ChunkReadFails ==
    /\ pc = "chunk" /\ eng.offset < desc.length
    /\ desc.opcode # "MEM_FILL"
    /\ Fail("DMA_READ") /\ touched' = ReadsMore
    /\ UNCHANGED <<maps, input, desc, verdict, mem, old, eng>>

ChunkCrc ==
    /\ pc = "chunk" /\ eng.offset < desc.length
    /\ desc.opcode = "CRC32"
    /\ eng' = [eng EXCEPT !.crc = @ \o Bytes(mem, ChunkSource, ChunkSize),
                          !.offset = @ + ChunkSize]
    /\ touched' = ReadsMore
    /\ UNCHANGED <<maps, input, desc, pc, verdict, mem, old, result>>

ChunkWrite ==
    /\ pc = "chunk" /\ eng.offset < desc.length
    /\ desc.opcode # "CRC32"
    /\ mem' = Written(ChunkSize)
    /\ eng' = [eng EXCEPT !.offset = @ + ChunkSize]
    /\ touched' = [ReadsMore EXCEPT
                     !.written = @ \cup Extent(ChunkDestination, ChunkSize)]
    /\ UNCHANGED <<maps, input, desc, pc, verdict, old, result>>

(* a write that fails may have stored a part of the chunk *)
ChunkWriteFails ==
    /\ pc = "chunk" /\ eng.offset < desc.length
    /\ desc.opcode # "CRC32"
    /\ \E n \in 0 .. ChunkSize :
         /\ mem' = Written(n)
         /\ touched' = [ReadsMore EXCEPT
                          !.written = @ \cup Extent(ChunkDestination, n)]
    /\ Fail("DMA_WRITE")
    /\ UNCHANGED <<maps, input, desc, verdict, old, eng>>

EngineFinish ==
    /\ pc = "chunk" /\ eng.offset >= desc.length
    /\ IF "VERIFY_CRC" \in desc.flags /\ eng.crc # desc.expected
       THEN Complete("FAILED", "CRC_MISMATCH", 0, eng.crc)
       ELSE Complete("SUCCESS", "NONE", desc.length, eng.crc)
    /\ UNCHANGED <<maps, input, desc, verdict, mem, old, eng, touched>>

Next ==
    \/ DriverSubmit \/ FirmwareExecute \/ EngineStart
    \/ ChunkReadFails \/ ChunkCrc \/ ChunkWrite \/ ChunkWriteFails \/ EngineFinish

Spec == Init /\ [][Next]_vars

(* the code runs on; that a transfer fails is never counted on *)
FairSpec ==
    /\ Spec
    /\ WF_vars(\/ DriverSubmit \/ FirmwareExecute \/ EngineStart
               \/ ChunkCrc \/ ChunkWrite \/ EngineFinish)

-----------------------------------------------------------------------------
(* Properties *)

(* Types; the engine never counts past the length of its command.          *)
TypeOK ==
    /\ maps \in [Handles -> Mapping] /\ input \in Input \cup {NoInput}
    /\ desc \in Descriptor /\ verdict \in STRING
    /\ pc \in {"submit", "refused", "validate", "start", "chunk", "done"}
    /\ mem \in [Address -> Byte] /\ old \in [Address -> Byte]
    /\ eng \in [offset : 0 .. desc.length, fill : Byte, crc : Crc]
    /\ result \in [status : {"none", "SUCCESS", "FAILED", "INVALID"},
                   error : STRING, bytes : 0 .. desc.length, crc : Crc]
    /\ touched \in [read : SUBSET Address, written : SUBSET Address]

(* The validator accepts exactly the descriptors whose bytes exist, do not *)
(* overlap where the operation reads after it writes, and that are         *)
(* otherwise well formed: wrapping address arithmetic hides nothing.  That *)
(* identities differ among outstanding commands is not a matter of one     *)
(* descriptor, and the code does not look at it.                           *)
ValidatorExact == verdict # "none" => (verdict = "NONE" <=> Legal(desc))

(* What the driver lets through the firmware accepts, but for the          *)
(* alignment of vectors, which the driver leaves to it.                    *)
DriverPrevalidates ==
    verdict # "none" /\ input # NoInput =>
         \/ verdict = "NONE"
         \/ verdict = "INVALID_ALIGNMENT" /\ desc.opcode = "VECTOR_ADD"

(* the bytes of those of the handles whose buffer was registered for it *)
RegisteredFor(access, handles) ==
    UNION {maps[h].addr .. maps[h].addr + maps[h].length - 1 :
             h \in {g \in handles \ {NoHandle} : access \in maps[g].flags}}

(* A command of the ioctl reads and writes nothing but the two buffers its *)
(* caller named, each only in the way it was registered for.               *)
StaysInBuffers ==
    input # NoInput =>
      /\ touched.read \subseteq
           RegisteredFor("READ", {input.source, input.destination})
      /\ touched.written \subseteq RegisteredFor("WRITE", {input.destination})

(* what the operation is to do to memory as a whole *)
Expected ==
    LET from == Bytes(old, desc.source, desc.length)
        to == Bytes(old, desc.destination, desc.length)
        out == CASE desc.opcode = "MEM_COPY" -> from
                 [] desc.opcode = "MEM_FILL" ->
                      [i \in 1 .. desc.length |-> old[desc.source]]
                 [] desc.opcode = "VECTOR_ADD" -> AddWords(from, to)
    IN  [a \in Address |->
           IF a \in DestinationBytes(desc) THEN out[a - desc.destination + 1]
           ELSE old[a]]

(* SUCCESS means that the whole operation was done, chunk boundaries or    *)
(* not, and nothing else: the destination holds the result computed from   *)
(* what memory held before, the CRC is that of the whole source, and it is *)
(* the one that was to be verified.                                        *)
SuccessIsWhole ==
    pc = "done" /\ result.status = "SUCCESS" =>
      /\ mem = Expected
      /\ result.bytes = desc.length
      /\ desc.opcode = "CRC32" =>
           /\ result.crc = Bytes(old, desc.source, desc.length)
           /\ "VERIFY_CRC" \in desc.flags => result.crc = desc.expected

(* Whatever fails, at whichever chunk, no byte outside of the destination  *)
(* changes, the source included, and no progress is reported.              *)
FailureIsContained ==
    /\ \A a \in Address : mem[a] # old[a] => a \in DestinationBytes(desc)
    /\ result.status \in {"FAILED", "INVALID"} => result.bytes = 0

(* Every command ends: the loop makes progress whatever the length.        *)
CommandEnds == <>(pc \in {"done", "refused"})
=============================================================================
