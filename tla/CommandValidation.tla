-------------------------- MODULE CommandValidation --------------------------
(***************************************************************************)
(* The check of a submission descriptor.  The firmware's                   *)
(* vams_validate_command and the endpoint's vams_pcie_validate_command are *)
(* the same sequence of tests; the firmware decides, and the engine tests  *)
(* once more before it runs.  Addresses are unsigned integers of a fixed   *)
(* width and wrap.                                                         *)
(*                                                                         *)
(* Abstractions: the three reserved fields are one Boolean, and a CRC is   *)
(* the string of bytes it was computed over, the empty string being 0.     *)
(***************************************************************************)
EXTENDS Integers, Sequences

CONSTANTS
    AddressSpace,    \* 2^64
    MaxTransfer,     \* VAMS_MAX_TRANSFER_SIZE
    MaxTimeout,      \* VAMS_MAX_TIMEOUT_MS
    Word,            \* sizeof(uint32_t)
    Base             \* values of a byte, 256

ASSUME WidthAssumption ==
    /\ AddressSpace \in Nat /\ MaxTransfer \in Nat /\ MaxTimeout \in Nat
    /\ Word \in Nat \ {0} /\ Base \in Nat \ {0}
    /\ MaxTransfer < AddressSpace

Address == 0 .. AddressSpace - 1
Byte == 0 .. Base - 1
Crc == Seq(Byte)
ZeroCrc == << >>

Opcode == {"NOP", "MEM_COPY", "MEM_FILL", "CRC32", "VECTOR_ADD"}

Descriptor ==
    [version : {1, 2}, opcode : Opcode \cup {"unknown"},
     flags : SUBSET {"VERIFY_CRC", "undefined"}, reserved : BOOLEAN,
     timeout : Nat, source : Address, destination : Address,
     length : Address, expected : Crc]

-----------------------------------------------------------------------------
(* The validator *)

RangeOverflows(address, length) ==
    address > AddressSpace - 1 - ((length - 1) % AddressSpace)

(* Mutant: the last byte is not counted. *)
RangesOverlapShort(first, second, length) ==
    /\ first < (second + length - 1) % AddressSpace
    /\ second < (first + length - 1) % AddressSpace

RangesOverlap(first, second, length) ==
    /\ first <= (second + length - 1) % AddressSpace
    /\ second <= (first + length - 1) % AddressSpace

BadLength(d) == d.length = 0 \/ d.length > MaxTransfer

(* the tests that come before those of an operation *)
HeaderError(d) ==
    IF d.version # 1 THEN "UNSUPPORTED_VERSION"
    ELSE IF d.opcode \notin Opcode THEN "INVALID_OPCODE"
    ELSE IF ~(d.flags \subseteq IF d.opcode = "CRC32" THEN {"VERIFY_CRC"} ELSE {})
    THEN "INVALID_FLAGS"
    ELSE IF /\ d.opcode # "CRC32" \/ "VERIFY_CRC" \notin d.flags
            /\ d.expected # ZeroCrc
    THEN "RESERVED_NONZERO"
    ELSE IF d.reserved THEN "RESERVED_NONZERO"
    ELSE IF d.timeout > MaxTimeout THEN "INVALID_TIMEOUT"
    ELSE "NONE"

NopError(d) ==
    IF d.length # 0 THEN "INVALID_LENGTH"
    ELSE IF d.source # 0 \/ d.destination # 0 THEN "INVALID_ADDRESS"
    ELSE "NONE"

CopyError(d) ==
    IF BadLength(d) THEN "INVALID_LENGTH"
    ELSE IF \/ RangeOverflows(d.source, d.length)
            \/ RangeOverflows(d.destination, d.length)
    THEN "ADDRESS_OVERFLOW"
    ELSE IF \/ d.source = 0 \/ d.destination = 0
            \/ RangesOverlap(d.source, d.destination, d.length)
    THEN "INVALID_ADDRESS"
    ELSE "NONE"

FillError(d) ==
    IF BadLength(d) THEN "INVALID_LENGTH"
    ELSE IF RangeOverflows(d.destination, d.length) THEN "ADDRESS_OVERFLOW"
    ELSE IF d.source = 0 \/ d.destination = 0 THEN "INVALID_ADDRESS"
    ELSE "NONE"

CrcError(d) ==
    IF BadLength(d) THEN "INVALID_LENGTH"
    ELSE IF RangeOverflows(d.source, d.length) THEN "ADDRESS_OVERFLOW"
    ELSE IF d.source = 0 \/ d.destination # 0 THEN "INVALID_ADDRESS"
    ELSE "NONE"

AddError(d) ==
    IF d.length < Word \/ d.length > MaxTransfer \/ d.length % Word # 0
    THEN "INVALID_LENGTH"
    ELSE IF d.source = 0 \/ d.destination = 0 THEN "INVALID_ADDRESS"
    ELSE IF d.source % Word # 0 \/ d.destination % Word # 0
    THEN "INVALID_ALIGNMENT"
    ELSE IF \/ RangeOverflows(d.source, d.length)
            \/ RangeOverflows(d.destination, d.length)
    THEN "ADDRESS_OVERFLOW"
    ELSE IF RangesOverlap(d.source, d.destination, d.length)
    THEN "INVALID_ADDRESS"
    ELSE "NONE"

ValidateCommand(d) ==
    IF HeaderError(d) # "NONE" THEN HeaderError(d)
    ELSE CASE d.opcode = "NOP"        -> NopError(d)
           [] d.opcode = "MEM_COPY"   -> CopyError(d)
           [] d.opcode = "MEM_FILL"   -> FillError(d)
           [] d.opcode = "CRC32"      -> CrcError(d)
           [] d.opcode = "VECTOR_ADD" -> AddError(d)

(* the endpoint's copy of the same tests *)
PcieValidateCommand(d) == ValidateCommand(d)

-----------------------------------------------------------------------------
(* What a descriptor must be: the bytes it names, as sets of integers that *)
(* do not wrap                                                             *)

UsesSource(d) == d.opcode # "NOP"
UsesDestination(d) == d.opcode \in {"MEM_COPY", "MEM_FILL", "VECTOR_ADD"}

SourceLength(d) == IF d.opcode = "MEM_FILL" THEN 1 ELSE d.length

SourceBytes(d) ==
    IF UsesSource(d) THEN d.source .. d.source + SourceLength(d) - 1 ELSE {}

DestinationBytes(d) ==
    IF UsesDestination(d) THEN d.destination .. d.destination + d.length - 1
    ELSE {}

Legal(d) ==
    /\ d.version = 1 /\ d.opcode \in Opcode /\ ~d.reserved
    /\ d.timeout <= MaxTimeout
    /\ "undefined" \notin d.flags
    /\ "VERIFY_CRC" \in d.flags => d.opcode = "CRC32"
    /\ d.expected # ZeroCrc => "VERIFY_CRC" \in d.flags
    /\ d.length <= MaxTransfer
    /\ (d.length = 0) <=> (d.opcode = "NOP")
    /\ (d.source = 0) <=> ~UsesSource(d)
    /\ (d.destination = 0) <=> ~UsesDestination(d)
    /\ SourceBytes(d) \subseteq Address /\ DestinationBytes(d) \subseteq Address
    /\ d.opcode # "MEM_FILL" => SourceBytes(d) \cap DestinationBytes(d) = {}
    /\ d.opcode = "VECTOR_ADD" =>
         d.source % Word = 0 /\ d.destination % Word = 0 /\ d.length % Word = 0
=============================================================================
