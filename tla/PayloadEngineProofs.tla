------------------------- MODULE PayloadEngineProofs -------------------------
(***************************************************************************)
(* The validator accepts exactly the legal descriptors, whatever the width *)
(* of an address, the limits and the size of a word; and for every chunk   *)
(* size, set of buffers and host memory the verdict of the firmware is     *)
(* exact, a command of the ioctl stays in its buffers, and a command       *)
(* changes nothing but its destination.                                    *)
(***************************************************************************)
EXTENDS PayloadEngine, TLAPS

-----------------------------------------------------------------------------
(* The validator *)

(* The remainder of a number below the modulus is the number.              *)
LEMMA SmallMod ==
    ASSUME NEW n \in Nat, NEW m \in Nat \ {0}, n < m
    PROVE  n % m = n
<1>1. n = m * (n \div m) + (n % m) /\ n % m \in 0 .. m - 1 /\ n \div m \in Nat
  BY SMT
<1>2. n \div m = 0
  BY <1>1, SMT
<1> QED
  BY <1>1, <1>2, SMT

(* vams_range_overflows is true exactly when the last byte lies outside of *)
(* the address space.                                                      *)
LEMMA RangeOverflowsExact ==
    ASSUME NEW a \in Address, NEW n \in Address, n > 0
    PROVE  RangeOverflows(a, n) <=> ~(a .. a + n - 1 \subseteq Address)
<1> USE WidthAssumption
<1>1. n - 1 \in Nat /\ n - 1 < AddressSpace /\ AddressSpace \in Nat \ {0}
  BY DEF Address
<1>2. (n - 1) % AddressSpace = n - 1
  BY <1>1, SmallMod
<1>3. RangeOverflows(a, n) <=> a + n - 1 > AddressSpace - 1
  BY <1>1, <1>2 DEF RangeOverflows, Address
<1>4. a + n - 1 \in a .. a + n - 1
  BY DEF Address
<1> QED
  BY <1>1, <1>3, <1>4 DEF Address

(* For ranges that do not overflow, vams_ranges_overlap is true exactly    *)
(* when they have a byte in common.                                        *)
LEMMA RangesOverlapExact ==
    ASSUME NEW a \in Address, NEW b \in Address, NEW n \in Address, n > 0,
           ~RangeOverflows(a, n), ~RangeOverflows(b, n)
    PROVE  RangesOverlap(a, b, n) <=>
             (a .. a + n - 1) \cap (b .. b + n - 1) # {}
<1> USE WidthAssumption
<1>1. a + n - 1 \in Address /\ b + n - 1 \in Address
  <2>1. /\ a + n - 1 \in a .. a + n - 1
        /\ b + n - 1 \in b .. b + n - 1
    BY DEF Address
  <2> QED
    BY <2>1, RangeOverflowsExact
<1>2. /\ (a + n - 1) % AddressSpace = a + n - 1
      /\ (b + n - 1) % AddressSpace = b + n - 1
  <2>1. /\ a + n - 1 \in Nat /\ a + n - 1 < AddressSpace
        /\ b + n - 1 \in Nat /\ b + n - 1 < AddressSpace
        /\ AddressSpace \in Nat \ {0}
    BY <1>1 DEF Address
  <2>2. (a + n - 1) % AddressSpace = a + n - 1
    BY <2>1, SmallMod
  <2>3. (b + n - 1) % AddressSpace = b + n - 1
    BY <2>1, SmallMod
  <2> QED
    BY <2>2, <2>3
<1>3. RangesOverlap(a, b, n) <=> a <= b + n - 1 /\ b <= a + n - 1
  BY <1>2 DEF RangesOverlap
<1>4. ASSUME a <= b + n - 1, b <= a + n - 1
      PROVE  (a .. a + n - 1) \cap (b .. b + n - 1) # {}
  <2>1. CASE a <= b
    <3>1. b \in (a .. a + n - 1) \cap (b .. b + n - 1)
      BY <1>4, <2>1 DEF Address
    <3> QED
      BY <3>1
  <2>2. CASE b <= a
    <3>1. a \in (a .. a + n - 1) \cap (b .. b + n - 1)
      BY <1>4, <2>2 DEF Address
    <3> QED
      BY <3>1
  <2> QED
    BY <2>1, <2>2 DEF Address
<1>5. ASSUME NEW x \in (a .. a + n - 1) \cap (b .. b + n - 1)
      PROVE  a <= b + n - 1 /\ b <= a + n - 1
  BY <1>5 DEF Address
<1> QED
  BY <1>3, <1>4, <1>5

(* The header tests pass exactly when what they look at is as it must be.  *)
LEMMA HeaderExact ==
    ASSUME NEW d \in Descriptor
    PROVE  HeaderError(d) = "NONE" <=>
             /\ d.version = 1 /\ d.opcode \in Opcode /\ ~d.reserved
             /\ d.timeout <= MaxTimeout
             /\ "undefined" \notin d.flags
             /\ "VERIFY_CRC" \in d.flags => d.opcode = "CRC32"
             /\ d.expected # ZeroCrc => "VERIFY_CRC" \in d.flags
<1>1. d.flags \subseteq {"VERIFY_CRC", "undefined"} /\ d.timeout \in Nat
  BY DEF Descriptor
<1>2. d.timeout > MaxTimeout <=> ~(d.timeout <= MaxTimeout)
  BY <1>1, WidthAssumption
<1>3. CASE d.opcode = "CRC32"
  BY <1>1, <1>2, <1>3 DEF HeaderError, Opcode
<1>4. CASE d.opcode # "CRC32"
  BY <1>1, <1>2, <1>4 DEF HeaderError, Opcode
<1> QED
  BY <1>3, <1>4

(* the part of Legal that each operation decides for itself *)
Operands(d) ==
    /\ d.length <= MaxTransfer
    /\ (d.length = 0) <=> (d.opcode = "NOP")
    /\ (d.source = 0) <=> ~UsesSource(d)
    /\ (d.destination = 0) <=> ~UsesDestination(d)
    /\ SourceBytes(d) \subseteq Address /\ DestinationBytes(d) \subseteq Address
    /\ d.opcode # "MEM_FILL" => SourceBytes(d) \cap DestinationBytes(d) = {}
    /\ d.opcode = "VECTOR_ADD" =>
         d.source % Word = 0 /\ d.destination % Word = 0 /\ d.length % Word = 0

(* The tests of the operation pass exactly when the operands are legal.    *)
LEMMA OperandsExact ==
    ASSUME NEW d \in Descriptor, d.opcode \in Opcode
    PROVE  CASE d.opcode = "NOP"        -> NopError(d) = "NONE" <=> Operands(d)
             [] d.opcode = "MEM_COPY"   -> CopyError(d) = "NONE" <=> Operands(d)
             [] d.opcode = "MEM_FILL"   -> FillError(d) = "NONE" <=> Operands(d)
             [] d.opcode = "CRC32"      -> CrcError(d) = "NONE" <=> Operands(d)
             [] d.opcode = "VECTOR_ADD" -> AddError(d) = "NONE" <=> Operands(d)
<1> DEFINE a == d.source
           b == d.destination
           n == d.length
           From == a .. a + n - 1
           To == b .. b + n - 1
<1>1. /\ a \in Address /\ b \in Address /\ n \in Address
      /\ a \in Int /\ b \in Int /\ n \in Int /\ n >= 0
  BY WidthAssumption DEF Descriptor, Address
<1>2. n # 0 => /\ RangeOverflows(a, n) <=> ~(From \subseteq Address)
               /\ RangeOverflows(b, n) <=> ~(To \subseteq Address)
  BY <1>1, RangeOverflowsExact
<1>3. n # 0 /\ ~RangeOverflows(a, n) /\ ~RangeOverflows(b, n) =>
        (RangesOverlap(a, b, n) <=> From \cap To # {})
  BY <1>1, RangesOverlapExact
<1>4. a .. a + 1 - 1 \subseteq Address
  BY <1>1 DEF Address
<1>5. n > MaxTransfer <=> ~(n <= MaxTransfer)
  BY <1>1, WidthAssumption
<1>6. d.opcode = "NOP" => (NopError(d) = "NONE" <=> Operands(d))
  BY <1>1, WidthAssumption
     DEF NopError, Operands, UsesSource, UsesDestination, SourceBytes,
         DestinationBytes
<1> HIDE DEF a, b, n, From, To
<1>7. d.opcode = "MEM_COPY" => (CopyError(d) = "NONE" <=> Operands(d))
  <2>1. SUFFICES ASSUME d.opcode = "MEM_COPY"
                 PROVE  CopyError(d) = "NONE" <=> Operands(d)
    OBVIOUS
  <2>2. SourceBytes(d) = From /\ DestinationBytes(d) = To
    BY <2>1 DEF SourceBytes, DestinationBytes, SourceLength, UsesSource,
                UsesDestination, From, To, a, b, n
  <2>3. Operands(d) <=>
          /\ n <= MaxTransfer /\ n # 0 /\ a # 0 /\ b # 0
          /\ From \subseteq Address /\ To \subseteq Address /\ From \cap To = {}
    BY <2>1, <2>2 DEF Operands, UsesSource, UsesDestination, a, b, n
  <2>4. CopyError(d) = "NONE" <=>
          /\ ~(n = 0 \/ n > MaxTransfer)
          /\ ~RangeOverflows(a, n) /\ ~RangeOverflows(b, n)
          /\ a # 0 /\ b # 0 /\ ~RangesOverlap(a, b, n)
    BY DEF CopyError, BadLength, a, b, n
  <2> QED
    BY <2>3, <2>4, <1>2, <1>3, <1>5
<1>8. d.opcode = "MEM_FILL" => (FillError(d) = "NONE" <=> Operands(d))
  <2>1. SUFFICES ASSUME d.opcode = "MEM_FILL"
                 PROVE  FillError(d) = "NONE" <=> Operands(d)
    OBVIOUS
  <2>2. SourceBytes(d) = a .. a + 1 - 1 /\ DestinationBytes(d) = To
    BY <2>1 DEF SourceBytes, DestinationBytes, SourceLength, UsesSource,
                UsesDestination, To, a, b, n
  <2>3. Operands(d) <=>
          /\ n <= MaxTransfer /\ n # 0 /\ a # 0 /\ b # 0 /\ To \subseteq Address
    BY <2>1, <2>2, <1>4 DEF Operands, UsesSource, UsesDestination, a, b, n
  <2>4. FillError(d) = "NONE" <=>
          /\ ~(n = 0 \/ n > MaxTransfer)
          /\ ~RangeOverflows(b, n) /\ a # 0 /\ b # 0
    BY DEF FillError, BadLength, a, b, n
  <2> QED
    BY <2>3, <2>4, <1>2, <1>5
<1>9. d.opcode = "CRC32" => (CrcError(d) = "NONE" <=> Operands(d))
  <2>1. SUFFICES ASSUME d.opcode = "CRC32"
                 PROVE  CrcError(d) = "NONE" <=> Operands(d)
    OBVIOUS
  <2>2. SourceBytes(d) = From /\ DestinationBytes(d) = {}
    BY <2>1 DEF SourceBytes, DestinationBytes, SourceLength, UsesSource,
                UsesDestination, From, a, n
  <2>3. Operands(d) <=>
          /\ n <= MaxTransfer /\ n # 0 /\ a # 0 /\ b = 0 /\ From \subseteq Address
    BY <2>1, <2>2 DEF Operands, UsesSource, UsesDestination, a, b, n
  <2>4. CrcError(d) = "NONE" <=>
          /\ ~(n = 0 \/ n > MaxTransfer)
          /\ ~RangeOverflows(a, n) /\ a # 0 /\ b = 0
    BY DEF CrcError, BadLength, a, b, n
  <2> QED
    BY <2>3, <2>4, <1>2, <1>5
<1>10. d.opcode = "VECTOR_ADD" => (AddError(d) = "NONE" <=> Operands(d))
  <2>1. SUFFICES ASSUME d.opcode = "VECTOR_ADD"
                 PROVE  AddError(d) = "NONE" <=> Operands(d)
    OBVIOUS
  <2>2. SourceBytes(d) = From /\ DestinationBytes(d) = To
    BY <2>1 DEF SourceBytes, DestinationBytes, SourceLength, UsesSource,
                UsesDestination, From, To, a, b, n
  <2> DEFINE Aligned == a % Word = 0 /\ b % Word = 0 /\ n % Word = 0
  <2>3. Operands(d) <=>
          /\ n <= MaxTransfer /\ n # 0 /\ a # 0 /\ b # 0 /\ Aligned
          /\ From \subseteq Address /\ To \subseteq Address /\ From \cap To = {}
    BY <2>1, <2>2 DEF Operands, UsesSource, UsesDestination, a, b, n
  <2>4. AddError(d) = "NONE" <=>
          /\ ~(n < Word) /\ ~(n > MaxTransfer) /\ Aligned /\ a # 0 /\ b # 0
          /\ ~RangeOverflows(a, n) /\ ~RangeOverflows(b, n)
          /\ ~RangesOverlap(a, b, n)
    BY DEF AddError, a, b, n
  <2>5. n % Word = 0 => (n < Word <=> n = 0)
    <3>1. n < Word => n % Word = n
      BY <1>1, WidthAssumption, SmallMod
    <3> QED
      BY <3>1, <1>1, WidthAssumption
  <2> HIDE DEF Aligned
  <2>6. Aligned => n % Word = 0
    BY DEF Aligned
  <2> QED
    BY <2>3, <2>4, <2>5, <2>6, <1>2, <1>3, <1>5
<1> QED
  BY <1>6, <1>7, <1>8, <1>9, <1>10, Zenon DEF Opcode

(* vams_validate_command and the endpoint's copy of it return NONE for     *)
(* exactly the descriptors whose operands exist, do not wrap and do not    *)
(* overlap where they must not, and whose other fields are well formed.    *)
THEOREM ValidatorIsExact ==
    \A d \in Descriptor : ValidateCommand(d) = "NONE" <=> Legal(d)
<1> TAKE d \in Descriptor
<1>1. Legal(d) <=> HeaderError(d) = "NONE" /\ Operands(d)
  BY HeaderExact DEF Legal, Operands
<1>2. HeaderError(d) = "NONE" => d.opcode \in Opcode
  BY HeaderExact
<1>3. HeaderError(d) # "NONE" => ValidateCommand(d) # "NONE"
  BY DEF ValidateCommand
<1>4. HeaderError(d) = "NONE" => (ValidateCommand(d) = "NONE" <=> Operands(d))
  BY <1>2, OperandsExact, Zenon DEF ValidateCommand, Opcode
<1> QED
  BY <1>1, <1>3, <1>4

-----------------------------------------------------------------------------
(* Driver, firmware and engine *)

(* the bytes an operation may read *)
Readable(d) ==
    SourceBytes(d) \cup IF d.opcode = "VECTOR_ADD" THEN DestinationBytes(d) ELSE {}

(* the descriptor is the translation of an accepted input *)
IsTranslation ==
    /\ Accepted(input)
    /\ desc.opcode = input.opcode /\ desc.length = input.length
    /\ desc.source = SourceDma(input)
    /\ desc.destination = DestinationDma(input)
    /\ desc.version = 1 /\ desc.reserved = FALSE
    /\ desc.flags = input.flags /\ desc.timeout = input.timeout
    /\ input.expected = "zero" => desc.expected = ZeroCrc

(* Nothing is touched before the verdict, the engine runs only what is     *)
(* legal, and what it touches are the operands of the descriptor, which is *)
(* the driver's own if the command came through the ioctl.                 *)
EngineInv ==
    /\ maps \in [Handles -> Mapping] /\ input \in Input \cup {NoInput}
    /\ desc \in Descriptor /\ old \in [Address -> Byte]
    /\ pc \in {"submit", "refused", "validate", "start", "chunk", "done"}
    /\ "offset" \in DOMAIN eng /\ eng.offset \in 0 .. desc.length
    /\ touched \in [read : SUBSET Int, written : SUBSET Int]
    /\ touched.read \subseteq Readable(desc)
    /\ touched.written \subseteq DestinationBytes(desc)
    /\ pc \in {"submit", "refused", "validate"} =>
         /\ verdict = "none" /\ mem = old /\ eng.offset = 0
         /\ touched.read = {} /\ touched.written = {}
    /\ pc = "submit" => input # NoInput
    /\ pc \in {"start", "chunk"} => verdict = "NONE"
    /\ ValidatorExact /\ FailureIsContained /\ DriverPrevalidates
    /\ input # NoInput /\ pc \notin {"submit", "refused"} => IsTranslation

-----------------------------------------------------------------------------

(* An address plus an offset that stays within the space does not wrap.    *)
LEMMA PlusExact ==
    ASSUME NEW a \in Address, NEW n \in Nat, a + n < AddressSpace
    PROVE  Plus(a, n) = a + n
<1>1. a + n \in Nat /\ AddressSpace \in Nat \ {0}
  BY WidthAssumption DEF Address
<1> QED
  BY <1>1, SmallMod DEF Plus

(* Plus is an address.                                                     *)
LEMMA PlusType ==
    ASSUME NEW a \in Address, NEW n \in Nat
    PROVE  Plus(a, n) \in Address
<1>1. a + n \in Nat /\ AddressSpace \in Nat \ {0}
  BY WidthAssumption DEF Address
<1>2. \A x \in Nat, m \in Nat \ {0} : x % m \in 0 .. m - 1
  OBVIOUS
<1> QED
  BY <1>1, <1>2 DEF Plus, Address

(* The bytes of a place in memory are a string of bytes.                   *)
LEMMA BytesType ==
    ASSUME NEW m \in [Address -> Byte], NEW a \in Address, NEW n \in Nat
    PROVE  Bytes(m, a, n) \in Crc
<1>1. \A i \in 1 .. n : m[Plus(a, i - 1)] \in Byte
  <2> TAKE i \in 1 .. n
  <2>1. i - 1 \in Nat
    OBVIOUS
  <2> QED
    BY <2>1, PlusType
<1> QED
  BY <1>1 DEF Bytes, Crc

(* An operand of a legal command: its bytes are its addresses, unwrapped.  *)
LEMMA OperandBytes ==
    ASSUME NEW a \in Address, NEW len \in Nat,
           a .. a + len - 1 \subseteq Address,
           NEW o \in Nat, NEW n \in Nat, o + n <= len
    PROVE  /\ Extent(Plus(a, o), n) \subseteq a .. a + len - 1
           /\ \A i \in 1 .. n : Plus(Plus(a, o), i - 1) \in a .. a + len - 1
<1>1. \A i \in 0 .. n - 1 : Plus(Plus(a, o), i) \in a .. a + len - 1
  <2> TAKE i \in 0 .. n - 1
  <2>1. a + len - 1 \in a .. a + len - 1
    BY DEF Address
  <2>2. a + len - 1 < AddressSpace /\ a + o + i <= a + len - 1
    BY <2>1, WidthAssumption DEF Address
  <2>3. Plus(a, o) = a + o /\ a + o \in Address
    BY <2>2, PlusExact, WidthAssumption DEF Address
  <2>4. Plus(a + o, i) = a + o + i
    BY <2>2, <2>3, PlusExact, WidthAssumption DEF Address
  <2> QED
    BY <2>2, <2>3, <2>4 DEF Address
<1>2. Extent(Plus(a, o), n) \subseteq a .. a + len - 1
  BY <1>1 DEF Extent
<1>3. \A i \in 1 .. n : i - 1 \in 0 .. n - 1
  OBVIOUS
<1> QED
  BY <1>1, <1>2, <1>3

(* The engine runs a legal command, and a chunk never exceeds what is left *)
(* of it.                                                                  *)
LEMMA ChunkFits ==
    ASSUME EngineInv, pc = "chunk", eng.offset < desc.length
    PROVE  /\ Legal(desc) /\ desc.opcode # "NOP"
           /\ ChunkSize \in Nat /\ eng.offset + ChunkSize <= desc.length
           /\ desc.source \in Address /\ desc.destination \in Address
           /\ desc.length \in Nat /\ eng.offset \in Nat
<1>1. Legal(desc)
  BY DEF EngineInv, ValidatorExact
<1>2. /\ desc.source \in Address /\ desc.destination \in Address
      /\ desc.length \in Nat /\ eng.offset \in Nat
  BY WidthAssumption DEF EngineInv, Descriptor, Address
<1>3. desc.opcode # "NOP"
  BY <1>1, <1>2 DEF Legal
<1> QED
  BY <1>1, <1>2, <1>3, EngineAssumption DEF ChunkSize

(* Operands are sets of integers.                                          *)
LEMMA OperandsAreInt ==
    ASSUME EngineInv
    PROVE  Readable(desc) \subseteq Int /\ DestinationBytes(desc) \subseteq Int
<1>1. desc.source \in Int /\ desc.destination \in Int /\ desc.length \in Int
  BY WidthAssumption DEF EngineInv, Descriptor, Address
<1> QED
  BY <1>1 DEF Readable, SourceBytes, DestinationBytes, SourceLength

(* Every access of a chunk is to a byte of an operand, and a write, whole  *)
(* or in part, leaves all other bytes alone.                               *)
LEMMA ChunkStaysWithin ==
    ASSUME EngineInv, pc = "chunk", eng.offset < desc.length
    PROVE  /\ ChunkReads \subseteq Readable(desc)
           /\ desc.opcode # "CRC32" =>
                \A n \in 0 .. ChunkSize :
                  /\ Extent(ChunkDestination, n) \subseteq DestinationBytes(desc)
                  /\ \A a \in Address \ DestinationBytes(desc) :
                       Written(n)[a] = mem[a]
<1>1. /\ Legal(desc) /\ desc.opcode \in Opcode \ {"NOP"}
      /\ ChunkSize \in Nat /\ eng.offset + ChunkSize <= desc.length
      /\ desc.source \in Address /\ desc.destination \in Address
      /\ desc.length \in Nat /\ eng.offset \in Nat
  BY ChunkFits DEF Legal
<1>2. desc.opcode # "CRC32" =>
        /\ DestinationBytes(desc) =
             desc.destination .. desc.destination + desc.length - 1
        /\ DestinationBytes(desc) \subseteq Address
  BY <1>1 DEF DestinationBytes, UsesDestination, Legal, Opcode
<1>3. desc.opcode # "MEM_FILL" =>
        /\ SourceBytes(desc) = desc.source .. desc.source + desc.length - 1
        /\ SourceBytes(desc) \subseteq Address
  BY <1>1 DEF SourceBytes, UsesSource, SourceLength, Legal
<1>4. desc.opcode # "MEM_FILL" =>
        Extent(ChunkSource, ChunkSize) \subseteq SourceBytes(desc)
  BY <1>1, <1>3, OperandBytes, Zenon DEF ChunkSource
<1>5. ASSUME desc.opcode # "CRC32", NEW n \in 0 .. ChunkSize
      PROVE  /\ Extent(ChunkDestination, n) \subseteq DestinationBytes(desc)
             /\ \A i \in 1 .. n :
                  Plus(ChunkDestination, i - 1) \in DestinationBytes(desc)
  <2>1. n \in Nat /\ eng.offset + n <= desc.length
    BY <1>1
  <2> QED
    BY <1>1, <1>2, <1>5, <2>1, OperandBytes, Zenon DEF ChunkDestination
<1>6. ASSUME desc.opcode # "CRC32", NEW n \in 0 .. ChunkSize,
             NEW a \in Address \ DestinationBytes(desc)
      PROVE  Written(n)[a] = mem[a]
  <2>1. {i \in 1 .. n : Plus(ChunkDestination, i - 1) = a} = {}
    BY <1>5, <1>6
  <2> QED
    BY <2>1 DEF Written
<1>7. ChunkSize \in 0 .. ChunkSize
  BY <1>1
<1>8. ChunkReads \subseteq Readable(desc)
  <2>1. CASE desc.opcode = "MEM_FILL"
    BY <2>1 DEF ChunkReads
  <2>2. CASE desc.opcode = "VECTOR_ADD"
    <3>1. Extent(ChunkDestination, ChunkSize) \subseteq DestinationBytes(desc)
      BY <1>5, <1>7, <2>2
    <3> QED
      BY <3>1, <1>4, <2>2 DEF ChunkReads, Readable
  <2>3. CASE desc.opcode \notin {"MEM_FILL", "VECTOR_ADD"}
    BY <1>4, <2>3 DEF ChunkReads, Readable
  <2> QED
    BY <2>1, <2>2, <2>3
<1> QED
  BY <1>5, <1>6, <1>8

-----------------------------------------------------------------------------
(* The driver                                                              *)

(* What vams_mapping_lookup_locked lets through lies in the buffer and in  *)
(* the address space.                                                      *)
LEMMA LookupInside ==
    ASSUME maps \in [Handles -> Mapping],
           NEW h \in Handles \cup {NoHandle}, NEW o \in Address,
           NEW n \in Address, NEW access, MappingLookup(h, o, n, access)
    PROVE  /\ h \in Handles /\ access \subseteq maps[h].flags
           /\ maps[h].addr + o \in Address /\ maps[h].addr + o # 0
           /\ maps[h].addr + o .. maps[h].addr + o + n - 1
                \subseteq maps[h].addr .. maps[h].addr + maps[h].length - 1
<1>1. h \in Handles
  BY DEF MappingLookup
<1>2. maps[h].addr \in Address /\ maps[h].length \in Nat
  BY <1>1, WidthAssumption DEF Mapping
<1>3. maps[h].addr + o < AddressSpace /\ o + n <= maps[h].length
  BY <1>1, <1>2, WidthAssumption DEF MappingLookup, Overflows, Address
<1> QED
  BY <1>1, <1>2, <1>3, WidthAssumption DEF MappingLookup, Address

(* Both operands of an accepted input were looked up, with the length and  *)
(* the access of the operation.                                            *)
LEMMA OperandsInside ==
    ASSUME maps \in [Handles -> Mapping], NEW q \in Input, Accepted(q)
    PROVE  /\ q.opcode \in Opcode
           /\ SourceDma(q) \in Address /\ DestinationDma(q) \in Address
           /\ q.opcode # "NOP" =>
                /\ q.source \in Handles /\ "READ" \in maps[q.source].flags
                /\ SourceDma(q) ..
                     SourceDma(q) + (IF q.opcode = "MEM_FILL" THEN 1 ELSE q.length) - 1
                     \subseteq maps[q.source].addr ..
                                 maps[q.source].addr + maps[q.source].length - 1
           /\ q.opcode \in {"MEM_COPY", "MEM_FILL", "VECTOR_ADD"} =>
                /\ q.destination \in Handles
                /\ "WRITE" \in maps[q.destination].flags
                /\ q.opcode = "VECTOR_ADD" => "READ" \in maps[q.destination].flags
                /\ DestinationDma(q) .. DestinationDma(q) + q.length - 1
                     \subseteq maps[q.destination].addr ..
                          maps[q.destination].addr + maps[q.destination].length - 1
<1>1. q.opcode \in Opcode
  BY DEF Accepted, OperandsFit, Opcode, Input
<1>2. /\ q.source \in Handles \cup {NoHandle}
      /\ q.destination \in Handles \cup {NoHandle}
      /\ q.sourceOffset \in Address /\ q.destinationOffset \in Address
      /\ q.length \in Address /\ 0 \in Address
  BY WidthAssumption DEF Input, Address
<1> DEFINE len == IF q.opcode = "MEM_FILL" THEN 1 ELSE q.length
<1>3. q.opcode = "MEM_FILL" => 1 \in Address
  BY <1>2, WidthAssumption DEF Accepted, OperandsFit, Address
<1>4. len \in Address
  BY <1>2, <1>3
<1> HIDE DEF len
<1>5. CASE q.opcode = "NOP"
  BY <1>1, <1>2, <1>5
     DEF SourceDma, DestinationDma, SourceAccess, DestinationAccess
<1>6. CASE q.opcode # "NOP"
  <2>1. SourceAccess(q) = {"READ"} /\ SourceAccess(q) # {}
    BY <1>6 DEF SourceAccess
  <2>2. MappingLookup(q.source, q.sourceOffset, len, {"READ"})
    BY <2>1 DEF Accepted, len
  <2>3. SourceDma(q) = maps[q.source].addr + q.sourceOffset
    BY <2>1 DEF SourceDma
  <2>4. /\ q.source \in Handles /\ "READ" \in maps[q.source].flags
        /\ SourceDma(q) \in Address
        /\ SourceDma(q) .. SourceDma(q) + len - 1
             \subseteq maps[q.source].addr ..
                         maps[q.source].addr + maps[q.source].length - 1
    <3>1. /\ q.source \in Handles /\ {"READ"} \subseteq maps[q.source].flags
          /\ maps[q.source].addr + q.sourceOffset \in Address
          /\ maps[q.source].addr + q.sourceOffset ..
               maps[q.source].addr + q.sourceOffset + len - 1
               \subseteq maps[q.source].addr ..
                           maps[q.source].addr + maps[q.source].length - 1
      BY <1>2, <1>4, <2>2, LookupInside, Zenon
    <3> QED
      BY <3>1, <2>3
  <2>5. CASE q.opcode = "CRC32"
    <3>1. DestinationDma(q) = 0
      BY <2>5 DEF DestinationDma, DestinationAccess
    <3> QED
      BY <1>1, <1>2, <2>4, <2>5, <3>1 DEF len
  <2>6. CASE q.opcode # "CRC32"
    <3>1. /\ q.opcode \in {"MEM_COPY", "MEM_FILL", "VECTOR_ADD"}
          /\ "WRITE" \in DestinationAccess(q) /\ DestinationAccess(q) # {}
          /\ q.opcode = "VECTOR_ADD" => "READ" \in DestinationAccess(q)
      BY <1>1, <1>6, <2>6 DEF Opcode, DestinationAccess
    <3>2. MappingLookup(q.destination, q.destinationOffset, q.length,
                        DestinationAccess(q))
      BY <3>1 DEF Accepted
    <3>3. DestinationDma(q) = maps[q.destination].addr + q.destinationOffset
      BY <3>1 DEF DestinationDma
    <3>4. /\ q.destination \in Handles
          /\ DestinationAccess(q) \subseteq maps[q.destination].flags
          /\ maps[q.destination].addr + q.destinationOffset \in Address
          /\ maps[q.destination].addr + q.destinationOffset ..
               maps[q.destination].addr + q.destinationOffset + q.length - 1
               \subseteq maps[q.destination].addr ..
                    maps[q.destination].addr + maps[q.destination].length - 1
      BY <1>2, <3>2, LookupInside, Zenon
    <3> QED
      BY <1>1, <2>4, <3>1, <3>3, <3>4 DEF len
  <2> QED
    BY <2>5, <2>6
<1> QED
  BY <1>5, <1>6

(* The descriptor of an accepted input is well formed.                     *)
LEMMA TranslatedType ==
    ASSUME maps \in [Handles -> Mapping], mem \in [Address -> Byte],
           NEW q \in Input, Accepted(q)
    PROVE  /\ Translated(q) \in Descriptor
           /\ Translated(q).opcode = q.opcode /\ Translated(q).length = q.length
           /\ Translated(q).source = SourceDma(q)
           /\ Translated(q).destination = DestinationDma(q)
           /\ Translated(q).version = 1 /\ Translated(q).reserved = FALSE
           /\ Translated(q).flags = q.flags /\ Translated(q).timeout = q.timeout
           /\ q.expected = "zero" => Translated(q).expected = ZeroCrc
<1>1. /\ q.opcode \in Opcode /\ q.flags \in SUBSET {"VERIFY_CRC", "undefined"}
      /\ SourceDma(q) \in Address /\ DestinationDma(q) \in Address
      /\ q.length \in Address /\ q.length \in Nat /\ q.timeout \in Nat
      /\ q.expected \in {"zero", "right", "wrong"}
  BY OperandsInside, WidthAssumption DEF Input, Address
<1> DEFINE b == Bytes(mem, SourceDma(q), q.length)
<1>2. b \in Crc
  BY <1>1, BytesType
<1>3. ZeroCrc \in Crc /\ Append(b, 0) \in Crc
  <2>1. 0 \in Byte
    BY WidthAssumption DEF Byte
  <2> HIDE DEF b
  <2> QED
    BY <1>2, <2>1 DEF ZeroCrc, Crc
<1>4. ExpectedCrc(q) \in Crc
  BY <1>1, <1>2, <1>3 DEF ExpectedCrc
<1>5. q.expected = "zero" => ExpectedCrc(q) = ZeroCrc
  BY DEF ExpectedCrc
<1> QED
  BY <1>1, <1>4, <1>5 DEF Descriptor, Translated

(* A range that the lookup lets through does not overflow for the          *)
(* firmware, and does not begin at address zero.                           *)
LEMMA LookupFits ==
    ASSUME maps \in [Handles -> Mapping],
           NEW h \in Handles \cup {NoHandle}, NEW o \in Address,
           NEW n \in Address, n > 0, NEW access, MappingLookup(h, o, n, access)
    PROVE  /\ maps[h].addr + o \in Address /\ maps[h].addr + o # 0
           /\ ~RangeOverflows(maps[h].addr + o, n)
<1> DEFINE a == maps[h].addr + o
<1>1. a \in Address /\ a # 0
  BY LookupInside, Zenon
<1>2. a + n < AddressSpace
  BY <1>1, WidthAssumption DEF MappingLookup, Overflows, Address
<1> HIDE DEF a
<1>3. a .. a + n - 1 \subseteq Address
  BY <1>1, <1>2, WidthAssumption DEF Address
<1>4. ~RangeOverflows(a, n)
  BY <1>1, <1>3, RangeOverflowsExact, Zenon
<1> QED
  BY <1>1, <1>4 DEF a

(* What vams_ioctl_submit accepts, vams_validate_command accepts, but for  *)
(* the alignment of a VECTOR_ADD, which the driver leaves to the firmware. *)
LEMMA TranslationPasses ==
    ASSUME maps \in [Handles -> Mapping], input \in Input,
           desc \in Descriptor, IsTranslation
    PROVE  \/ ValidateCommand(desc) = "NONE"
           \/ ValidateCommand(desc) = "INVALID_ALIGNMENT" /\ desc.opcode = "VECTOR_ADD"
<1> DEFINE a == desc.source
           b == desc.destination
           n == desc.length
<1>1. /\ Accepted(input) /\ desc.opcode = input.opcode /\ n = input.length
      /\ a = SourceDma(input) /\ b = DestinationDma(input)
  BY DEF IsTranslation
<1>2. /\ desc.opcode \in Opcode /\ a \in Address /\ b \in Address /\ n \in Address
      /\ input.source \in Handles \cup {NoHandle}
      /\ input.destination \in Handles \cup {NoHandle}
      /\ input.sourceOffset \in Address /\ input.destinationOffset \in Address
  <2>1. input.opcode \in Opcode
    BY <1>1, OperandsInside, Zenon
  <2> QED
    BY <1>1, <2>1, SMTT(20) DEF Descriptor, Input
<1>3. n <= MaxTransfer /\ n \in Nat /\ Word \in Nat \ {0}
  BY <1>1, <1>2, WidthAssumption DEF Accepted, Address
<1>4. HeaderError(desc) = "NONE"
  <2>1. /\ desc.version = 1 /\ desc.opcode \in Opcode /\ ~desc.reserved
        /\ desc.timeout <= MaxTimeout /\ desc.flags \subseteq {"VERIFY_CRC"}
        /\ desc.opcode # "CRC32" => desc.flags = {}
        /\ desc.flags = {} => desc.expected = ZeroCrc
    BY <1>1, <1>2 DEF IsTranslation, Accepted
  <2>2. /\ "undefined" \notin desc.flags
        /\ "VERIFY_CRC" \in desc.flags => desc.opcode = "CRC32"
        /\ desc.expected # ZeroCrc => "VERIFY_CRC" \in desc.flags
    BY <2>1, Zenon
  <2> QED
    BY <2>1, <2>2, HeaderExact, Zenon
<1>5. desc.opcode # "NOP" => n > 0 /\ a # 0
  <2> SUFFICES ASSUME desc.opcode # "NOP" PROVE n > 0 /\ a # 0
    OBVIOUS
  <2>1. n > 0
    BY <1>1, <1>2, <1>3 DEF Accepted, OperandsFit, Opcode
  <2> DEFINE len == IF input.opcode = "MEM_FILL" THEN 1 ELSE input.length
  <2>2. len \in Address /\ len > 0
    BY <1>1, <1>2, <1>3, <2>1, WidthAssumption DEF Address
  <2>3. SourceAccess(input) = {"READ"} /\ SourceAccess(input) # {}
    BY <1>1 DEF SourceAccess
  <2>4. MappingLookup(input.source, input.sourceOffset, len, {"READ"})
    BY <1>1, <2>3 DEF Accepted
  <2> HIDE DEF len
  <2>5. maps[input.source].addr + input.sourceOffset # 0
    BY <1>2, <2>2, <2>4, LookupFits, Zenon
  <2> QED
    BY <1>1, <2>1, <2>3, <2>5 DEF SourceDma
<1>6. desc.opcode \in {"MEM_COPY", "CRC32", "VECTOR_ADD"} => ~RangeOverflows(a, n)
  <2> SUFFICES ASSUME desc.opcode \in {"MEM_COPY", "CRC32", "VECTOR_ADD"}
               PROVE  ~RangeOverflows(a, n)
    OBVIOUS
  <2>1. SourceAccess(input) = {"READ"} /\ SourceAccess(input) # {}
    BY <1>1 DEF SourceAccess
  <2>2. MappingLookup(input.source, input.sourceOffset, n, {"READ"})
    BY <1>1, <2>1 DEF Accepted
  <2>3. a = maps[input.source].addr + input.sourceOffset
    BY <1>1, <2>1 DEF SourceDma
  <2>4. n > 0
    BY <1>5
  <2> HIDE DEF a, n
  <2> QED
    BY <1>2, <2>2, <2>3, <2>4, LookupFits, Zenon
<1>7. desc.opcode \in {"MEM_COPY", "MEM_FILL", "VECTOR_ADD"} =>
        b # 0 /\ ~RangeOverflows(b, n)
  <2> SUFFICES ASSUME desc.opcode \in {"MEM_COPY", "MEM_FILL", "VECTOR_ADD"}
               PROVE  b # 0 /\ ~RangeOverflows(b, n)
    OBVIOUS
  <2>1. DestinationAccess(input) # {}
    BY <1>1 DEF DestinationAccess
  <2>2. MappingLookup(input.destination, input.destinationOffset, n,
                      DestinationAccess(input))
    BY <1>1, <2>1 DEF Accepted
  <2>3. b = maps[input.destination].addr + input.destinationOffset
    BY <1>1, <2>1 DEF DestinationDma
  <2>4. n > 0
    BY <1>5
  <2> HIDE DEF b, n
  <2> QED
    BY <1>2, <2>2, <2>3, <2>4, LookupFits, Zenon
<1>8. desc.opcode \in {"MEM_COPY", "VECTOR_ADD"} => ~RangesOverlap(a, b, n)
  <2> SUFFICES ASSUME desc.opcode \in {"MEM_COPY", "VECTOR_ADD"}
               PROVE  ~RangesOverlap(a, b, n)
    OBVIOUS
  <2>1. /\ n > 0 /\ a # 0 /\ b # 0
        /\ ~RangeOverflows(a, n) /\ ~RangeOverflows(b, n)
    BY <1>5, <1>6, <1>7
  <2>2. ~(a < b + n) \/ ~(b < a + n)
    BY <1>1, <2>1 DEF Accepted, SourceMeetsDestination
  <2> HIDE DEF a, b, n
  <2>3. (a .. a + n - 1) \cap (b .. b + n - 1) = {}
    BY <1>2, <2>2, WidthAssumption DEF Address
  <2> QED
    BY <1>2, <2>1, <2>3, RangesOverlapExact, Zenon
<1>9. ~BadLength(desc) \/ desc.opcode = "NOP"
  BY <1>3, <1>5, WidthAssumption DEF BadLength
<1>10. CASE desc.opcode = "NOP"
  <2>1. n = 0 /\ a = 0 /\ b = 0
    BY <1>1, <1>10
       DEF Accepted, OperandsFit, SourceDma, DestinationDma, SourceAccess,
           DestinationAccess
  <2> QED
    BY <1>4, <1>10, <2>1 DEF ValidateCommand, NopError
<1>11. CASE desc.opcode = "MEM_COPY"
  BY <1>4, <1>5, <1>6, <1>7, <1>8, <1>9, <1>11 DEF ValidateCommand, CopyError
<1>12. CASE desc.opcode = "MEM_FILL"
  BY <1>4, <1>5, <1>7, <1>9, <1>12 DEF ValidateCommand, FillError
<1>13. CASE desc.opcode = "CRC32"
  <2>1. b = 0
    BY <1>1, <1>13 DEF DestinationDma, DestinationAccess
  <2> QED
    BY <1>4, <1>5, <1>6, <1>9, <1>13, <2>1 DEF ValidateCommand, CrcError
<1>14. CASE desc.opcode = "VECTOR_ADD"
  <2>1. ~(n < Word) /\ n % Word = 0 /\ ~(n > MaxTransfer)
    BY <1>1, <1>3, <1>14, WidthAssumption DEF Accepted, OperandsFit
  <2>2. AddError(desc) \in {"NONE", "INVALID_ALIGNMENT"}
    BY <1>5, <1>6, <1>7, <1>8, <1>14, <2>1 DEF AddError
  <2>3. ValidateCommand(desc) = AddError(desc)
    BY <1>4, <1>14 DEF ValidateCommand
  <2> QED
    BY <1>14, <2>2, <2>3
<1> QED
  BY <1>2, <1>10, <1>11, <1>12, <1>13, <1>14 DEF Opcode

-----------------------------------------------------------------------------
(* The invariant                                                           *)

(* It holds before the ioctl and for any descriptor in the SQ.             *)
LEMMA EngineInit == Init => EngineInv
<1> SUFFICES ASSUME Init PROVE EngineInv
  OBVIOUS
<1>1. /\ mem \in [Address -> Byte] /\ old = mem
      /\ maps \in [Handles -> Mapping]
  <2>1. maps \in Layouts
    BY EngineAssumption, Zenon DEF Init
  <2> QED
    BY <2>1, EngineAssumption DEF Init
<1>2. /\ desc \in Descriptor /\ input \in Input \cup {NoInput}
      /\ pc \in {"submit", "validate"}
      /\ pc = "submit" => input # NoInput
      /\ pc = "validate" => input = NoInput
  <2>1. NoDescriptor \in Descriptor
    <3>1. << >> \in Crc
      BY DEF Crc
    <3> QED
      BY <3>1, WidthAssumption DEF NoDescriptor, Descriptor, Address, Opcode, ZeroCrc
  <2> QED
    BY <2>1, EngineAssumption DEF Init
<1>3. 0 \in 0 .. desc.length
  BY <1>2, WidthAssumption DEF Descriptor, Address
<1>4. /\ verdict = "none" /\ eng = [offset |-> 0, fill |-> 0, crc |-> << >>]
      /\ result.status = "none" /\ touched = [read |-> {}, written |-> {}]
  BY DEF Init
<1> QED
  BY <1>1, <1>2, <1>3, <1>4 DEF EngineInv, ValidatorExact, FailureIsContained,
                                     DriverPrevalidates

(* Once in the SQ, the descriptor stays the translation of the input.      *)
LEMMA SameTranslation ==
    ASSUME UNCHANGED <<maps, input, desc>>
    PROVE  IsTranslation' <=> IsTranslation
BY DEF IsTranslation, Accepted, OperandsFit, MappingLookup, SourceAccess,
       DestinationAccess, SourceDma, DestinationDma, Overflows,
       SourceMeetsDestination

(* Every step of the driver, the firmware and the engine preserves it.     *)
LEMMA EngineStep == EngineInv /\ [Next]_vars => EngineInv'
<1> SUFFICES ASSUME EngineInv, [Next]_vars PROVE EngineInv'
  OBVIOUS
<1> USE DEF FailureIsContained, DriverPrevalidates
<1>1. CASE DriverSubmit
  <2>1. pc = "submit" /\ input \in Input /\ mem \in [Address -> Byte]
    BY <1>1 DEF DriverSubmit, EngineInv
  <2>2. CASE ~Accepted(input)
    BY <1>1, <2>1, <2>2 DEF DriverSubmit, EngineInv, ValidatorExact
  <2>3. CASE Accepted(input)
    <3>1. /\ desc' = Translated(input) /\ pc' = "validate"
          /\ UNCHANGED <<maps, input, verdict, mem, old, eng, result, touched>>
      BY <1>1, <2>3 DEF DriverSubmit
    <3>2. /\ desc' \in Descriptor
          /\ desc'.opcode = input.opcode /\ desc'.length = input.length
          /\ desc'.source = SourceDma(input)
          /\ desc'.destination = DestinationDma(input)
          /\ desc'.version = 1 /\ desc'.reserved = FALSE
          /\ desc'.flags = input.flags /\ desc'.timeout = input.timeout
          /\ input.expected = "zero" => desc'.expected = ZeroCrc
      BY <2>1, <2>3, <3>1, TranslatedType DEF EngineInv
    <3>3. IsTranslation'
      BY <2>3, <3>1, <3>2
         DEF IsTranslation, Accepted, OperandsFit, MappingLookup, SourceAccess,
             DestinationAccess, SourceDma, DestinationDma, Overflows,
             SourceMeetsDestination
    <3>4. 0 \in 0 .. desc'.length
      BY <3>2, WidthAssumption DEF Descriptor, Address
    <3> QED
      BY <2>1, <3>1, <3>2, <3>3, <3>4 DEF EngineInv, ValidatorExact
  <2> QED
    BY <2>2, <2>3
<1>2. CASE FirmwareExecute
  <2>1. /\ pc = "validate" /\ verdict' = ValidateCommand(desc)
        /\ UNCHANGED <<maps, input, desc, mem, old, eng, touched>>
    BY <1>2 DEF FirmwareExecute
  <2>2. \/ pc' = "done" /\ (result'.status \in {"FAILED", "INVALID"} => result'.bytes = 0)
        \/ pc' = "start" /\ verdict' = "NONE" /\ UNCHANGED result
    BY <1>2 DEF FirmwareExecute, Complete
  <2>3. ValidatorExact'
    BY <2>1, ValidatorIsExact DEF ValidatorExact, EngineInv
  <2>4. IsTranslation' <=> IsTranslation
    BY <2>1, SameTranslation
  <2>5. DriverPrevalidates'
    <3>1. input # NoInput =>
            /\ maps \in [Handles -> Mapping] /\ input \in Input
            /\ desc \in Descriptor /\ IsTranslation
      BY <2>1, Zenon DEF EngineInv
    <3> QED
      BY <2>1, <3>1, TranslationPasses, Zenon
  <2> HIDE DEF DriverPrevalidates
  <2> QED
    BY <2>1, <2>2, <2>3, <2>4, <2>5 DEF EngineInv
<1>3. CASE EngineStart
  <2>1. /\ pc = "start" /\ UNCHANGED <<maps, input, desc, verdict, mem, old>>
    BY <1>3 DEF EngineStart
  <2>2. IsTranslation' <=> IsTranslation
    BY <2>1, SameTranslation
  <2>3. \/ /\ pc' = "done" /\ result'.bytes = 0 /\ UNCHANGED <<eng, touched>>
        \/ /\ pc' = "chunk" /\ UNCHANGED <<eng, result, touched>>
        \/ /\ pc' = "chunk" /\ desc.opcode = "MEM_FILL" /\ UNCHANGED result
           /\ eng' = [eng EXCEPT !.fill = mem[desc.source]]
           /\ touched' = [touched EXCEPT !.read = {desc.source}]
    BY <1>3 DEF EngineStart, Fail, Complete
  <2>4. desc.source \in Int
    BY WidthAssumption DEF EngineInv, Descriptor, Address
  <2>5. desc.opcode = "MEM_FILL" => desc.source \in Readable(desc)
    BY <2>4 DEF Readable, SourceBytes, UsesSource, SourceLength
  <2> QED
    BY <2>1, <2>2, <2>3, <2>4, <2>5 DEF EngineInv, ValidatorExact
<1>4. CASE ChunkReadFails
  <2>1. /\ pc = "chunk" /\ eng.offset < desc.length /\ pc' = "done"
        /\ result'.bytes = 0
        /\ touched' = [touched EXCEPT !.read = @ \cup ChunkReads]
        /\ UNCHANGED <<maps, input, desc, verdict, mem, old, eng>>
    BY <1>4 DEF ChunkReadFails, Fail, Complete, ReadsMore
  <2>2. IsTranslation' <=> IsTranslation
    BY <2>1, SameTranslation
  <2>3. ChunkReads \subseteq Readable(desc) /\ ChunkReads \subseteq Int
    BY <2>1, ChunkStaysWithin, OperandsAreInt
  <2> QED
    BY <2>1, <2>2, <2>3 DEF EngineInv, ValidatorExact
<1>5. CASE ChunkCrc
  <2>1. /\ pc = "chunk" /\ eng.offset < desc.length
        /\ touched' = [touched EXCEPT !.read = @ \cup ChunkReads]
        /\ UNCHANGED <<maps, input, desc, pc, verdict, mem, old, result>>
    BY <1>5 DEF ChunkCrc, ReadsMore
  <2>2. IsTranslation' <=> IsTranslation
    BY <2>1, SameTranslation
  <2>3. ChunkReads \subseteq Readable(desc) /\ ChunkReads \subseteq Int
    BY <2>1, ChunkStaysWithin, OperandsAreInt
  <2>4. "offset" \in DOMAIN eng' /\ eng'.offset = eng.offset + ChunkSize
    BY <1>5 DEF ChunkCrc, EngineInv
  <2>5. eng'.offset \in 0 .. desc.length
    BY <2>1, <2>4, ChunkFits
  <2> QED
    BY <2>1, <2>2, <2>3, <2>4, <2>5 DEF EngineInv, ValidatorExact
<1>6. CASE ChunkWrite
  <2>1. /\ pc = "chunk" /\ eng.offset < desc.length /\ desc.opcode # "CRC32"
        /\ mem' = Written(ChunkSize)
        /\ eng' = [eng EXCEPT !.offset = @ + ChunkSize]
        /\ touched' = [[touched EXCEPT !.read = @ \cup ChunkReads] EXCEPT
                         !.written = @ \cup Extent(ChunkDestination, ChunkSize)]
        /\ UNCHANGED <<maps, input, desc, pc, verdict, old, result>>
    BY <1>6 DEF ChunkWrite, ReadsMore
  <2>2. IsTranslation' <=> IsTranslation
    BY <2>1, SameTranslation
  <2>3. ChunkReads \subseteq Readable(desc) /\ ChunkReads \subseteq Int
    BY <2>1, ChunkStaysWithin, OperandsAreInt
  <2>4. "offset" \in DOMAIN eng' /\ eng'.offset = eng.offset + ChunkSize
    BY <2>1 DEF EngineInv
  <2>5. eng'.offset \in 0 .. desc.length /\ ChunkSize \in 0 .. ChunkSize
    BY <2>1, <2>4, ChunkFits
  <2>6. /\ Extent(ChunkDestination, ChunkSize) \subseteq DestinationBytes(desc)
        /\ \A a \in Address \ DestinationBytes(desc) : mem'[a] = mem[a]
    BY <2>1, <2>5, ChunkStaysWithin
  <2>7. Extent(ChunkDestination, ChunkSize) \subseteq Int
    BY <2>6, OperandsAreInt
  <2> QED
    BY <2>1, <2>2, <2>3, <2>4, <2>5, <2>6, <2>7, Zenon DEF EngineInv, ValidatorExact
<1>7. CASE ChunkWriteFails
  <2>1. PICK n \in 0 .. ChunkSize :
          /\ mem' = Written(n)
          /\ touched' = [[touched EXCEPT !.read = @ \cup ChunkReads] EXCEPT
                           !.written = @ \cup Extent(ChunkDestination, n)]
    BY <1>7, Zenon DEF ChunkWriteFails, ReadsMore
  <2>2. /\ pc = "chunk" /\ eng.offset < desc.length /\ desc.opcode # "CRC32"
        /\ pc' = "done" /\ result'.bytes = 0
        /\ UNCHANGED <<maps, input, desc, verdict, old, eng>>
    BY <1>7 DEF ChunkWriteFails, Fail, Complete
  <2>3. IsTranslation' <=> IsTranslation
    BY <2>2, SameTranslation
  <2>4. ChunkReads \subseteq Readable(desc) /\ ChunkReads \subseteq Int
    BY <2>2, ChunkStaysWithin, OperandsAreInt
  <2>5. /\ Extent(ChunkDestination, n) \subseteq DestinationBytes(desc)
        /\ \A a \in Address \ DestinationBytes(desc) : mem'[a] = mem[a]
    BY <2>1, <2>2, ChunkStaysWithin
  <2>6. Extent(ChunkDestination, n) \subseteq Int
    BY <2>5, OperandsAreInt
  <2> QED
    BY <2>1, <2>2, <2>3, <2>4, <2>5, <2>6, Zenon DEF EngineInv, ValidatorExact
<1>8. CASE EngineFinish
  <2>1. /\ pc = "chunk" /\ pc' = "done"
        /\ result'.status \in {"FAILED", "INVALID"} => result'.bytes = 0
        /\ UNCHANGED <<maps, input, desc, verdict, mem, old, eng, touched>>
    BY <1>8 DEF EngineFinish, Complete
  <2>2. IsTranslation' <=> IsTranslation
    BY <2>1, SameTranslation
  <2> QED
    BY <2>1, <2>2 DEF EngineInv, ValidatorExact
<1>9. CASE UNCHANGED vars
  <2>1. IsTranslation' <=> IsTranslation
    BY <1>9, SameTranslation DEF vars
  <2> QED
    BY <1>9, <2>1 DEF vars, EngineInv, ValidatorExact
<1> QED
  BY <1>1, <1>2, <1>3, <1>4, <1>5, <1>6, <1>7, <1>8, <1>9 DEF Next

-----------------------------------------------------------------------------
(* The theorems                                                            *)

(* What the operands of an accepted input are made of, as the bytes of the *)
(* registered buffers.                                                     *)
LEMMA InvStaysInBuffers == EngineInv => StaysInBuffers
<1> SUFFICES ASSUME EngineInv, input # NoInput
             PROVE  /\ touched.read \subseteq
                         RegisteredFor("READ", {input.source, input.destination})
                    /\ touched.written \subseteq
                         RegisteredFor("WRITE", {input.destination})
  BY DEF StaysInBuffers
<1>1. CASE pc \in {"submit", "refused"}
  BY <1>1 DEF EngineInv
<1>2. CASE pc \notin {"submit", "refused"}
  <2>1. /\ IsTranslation /\ input \in Input /\ maps \in [Handles -> Mapping]
        /\ touched.read \subseteq Readable(desc)
        /\ touched.written \subseteq DestinationBytes(desc)
    BY <1>2 DEF EngineInv
  <2> DEFINE Buffer(h) == maps[h].addr .. maps[h].addr + maps[h].length - 1
  <2>2. /\ desc.opcode # "NOP" =>
             /\ input.source \in Handles /\ "READ" \in maps[input.source].flags
             /\ SourceBytes(desc) \subseteq Buffer(input.source)
        /\ UsesDestination(desc) =>
             /\ input.destination \in Handles
             /\ "WRITE" \in maps[input.destination].flags
             /\ desc.opcode = "VECTOR_ADD" =>
                  "READ" \in maps[input.destination].flags
             /\ DestinationBytes(desc) \subseteq Buffer(input.destination)
    BY <2>1, OperandsInside
       DEF IsTranslation, UsesDestination, UsesSource, SourceBytes,
           DestinationBytes, SourceLength
  <2>3. \A access, hs : \A h \in hs \ {NoHandle} :
          access \in maps[h].flags => Buffer(h) \subseteq RegisteredFor(access, hs)
    BY DEF RegisteredFor
  <2>4. NoHandle \notin Handles
    BY EngineAssumption
  <2> HIDE DEF Buffer
  <2>5. DestinationBytes(desc) \subseteq RegisteredFor("WRITE", {input.destination})
    <3>1. CASE ~UsesDestination(desc)
      BY <3>1 DEF DestinationBytes
    <3>2. CASE UsesDestination(desc)
      BY <3>2, <2>2, <2>3, <2>4
    <3> QED
      BY <3>1, <3>2
  <2>6. Readable(desc) \subseteq
          RegisteredFor("READ", {input.source, input.destination})
    <3>1. SourceBytes(desc) \subseteq
            RegisteredFor("READ", {input.source, input.destination})
      <4>1. CASE desc.opcode = "NOP"
        BY <4>1 DEF SourceBytes, UsesSource
      <4>2. CASE desc.opcode # "NOP"
        BY <4>2, <2>2, <2>3, <2>4
      <4> QED
        BY <4>1, <4>2
    <3>2. desc.opcode = "VECTOR_ADD" =>
            DestinationBytes(desc) \subseteq
              RegisteredFor("READ", {input.source, input.destination})
      BY <2>2, <2>3, <2>4 DEF UsesDestination
    <3> QED
      BY <3>1, <3>2 DEF Readable
  <2> QED
    BY <2>1, <2>5, <2>6
<1> QED
  BY <1>1, <1>2

(* The inductive invariant holds throughout.                               *)
LEMMA EngineInvariant == Spec => []EngineInv
<1> QED
  BY EngineInit, EngineStep, PTL DEF Spec

(* The firmware's verdict on any descriptor, from the driver or from       *)
(* elsewhere, is that it is legal exactly when it is.                      *)
THEOREM VerdictIsExact == Spec => []ValidatorExact
<1>1. EngineInv => ValidatorExact
  BY DEF EngineInv
<1> QED
  BY <1>1, EngineInvariant, PTL

(* A command of the ioctl touches only the buffers of its caller, each as  *)
(* it was registered, for every layout of the buffers and every length,    *)
(* chunk size and address width.                                           *)
THEOREM TransfersStayInBuffers == Spec => []StaysInBuffers
<1> QED
  BY InvStaysInBuffers, EngineInvariant, PTL

(* Whichever transfer of whichever chunk fails, only destination bytes     *)
(* differ from what memory held before.                                    *)
THEOREM FailuresAreContained == Spec => []FailureIsContained
<1>1. EngineInv => FailureIsContained
  BY DEF EngineInv
<1> QED
  BY <1>1, EngineInvariant, PTL

(* The firmware's vams_validate_command refuses nothing that               *)
(* vams_ioctl_submit has let through, but for the alignment of the         *)
(* operands of a VECTOR_ADD, which the ioctl does not look at.             *)
THEOREM PrevalidationTheorem == Spec => []DriverPrevalidates
<1>1. EngineInv => DriverPrevalidates
  BY DEF EngineInv
<1> QED
  BY <1>1, EngineInvariant, PTL
=============================================================================
