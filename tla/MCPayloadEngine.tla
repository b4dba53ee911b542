--------------------------- MODULE MCPayloadEngine ---------------------------
(***************************************************************************)
(* Two buffers in a space of 16 addresses, words of two bytes, chunks of   *)
(* two words, transfers of up to two chunks.                               *)
(***************************************************************************)
EXTENDS PayloadEngine, TLC

CONSTANTS h1, h2

MCHandles == {h1, h2}

Buffer(addr, length, flags) == [addr |-> addr, length |-> length, flags |-> flags]

(* apart; overlapping by two bytes; one readable and one writable; touching*)
(* the end of the address space; the first at address 0                    *)
MCLayouts ==
    {(h1 :> x[1]) @@ (h2 :> x[2]) : x \in
       {<<Buffer(1, 7, Access), Buffer(8, 7, Access)>>,
        <<Buffer(2, 6, Access), Buffer(6, 6, Access)>>,
        <<Buffer(2, 6, {"READ"}), Buffer(8, 6, {"WRITE"})>>,
        <<Buffer(0, 6, Access), Buffer(10, 6, Access)>>}}

MCInputs ==
    {q \in [opcode : Opcode \cup {"unknown"},
            flags : {{}, {"VERIFY_CRC"}, {"undefined"}},
            source : {h1, NoHandle}, destination : {h1, h2, NoHandle},
            sourceOffset : {0, 1, 2, 5}, destinationOffset : {0, 1, 3},
            length : {0, 1, 2, 4, 5, 6, MaxTransfer + 1},
            timeout : {0, MaxTimeout + 1}, expected : {"zero", "right", "wrong"}] :
       /\ q.opcode # "CRC32" => q.flags = {} /\ q.expected = "zero"
       /\ q.timeout > 0 => q.opcode = "NOP"}

(* every header, and every place and length                               *)
MCRawDescriptors ==
    [version : {1, 2}, opcode : Opcode \cup {"unknown"},
     flags : SUBSET {"VERIFY_CRC", "undefined"}, reserved : BOOLEAN,
     timeout : {0, MaxTimeout, MaxTimeout + 1}, source : {1},
     destination : {0, 9}, length : {0, 2}, expected : {ZeroCrc, <<1>>, <<1, 0>>}]
    \cup
    [version : {1}, opcode : Opcode, flags : {{}}, reserved : {FALSE},
     timeout : {0}, source : Address, destination : Address,
     length : 0 .. MaxTransfer + 1, expected : {ZeroCrc}]

(* every byte string of length two occurs, and sums carry                  *)
MCMemories == {[a \in Address |-> IF a % 5 \in {0, 1, 3} THEN 1 ELSE 0]}
=============================================================================
