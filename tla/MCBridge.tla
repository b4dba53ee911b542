------------------------------ MODULE MCBridge ------------------------------
(* Instances of Bridge for TLC. *)
EXTENDS Bridge, TLC

CONSTANTS i1, i2, i3

MCIds == {i1, i2, i3}

MCSub(i, p, v, t) == [id |-> i, payload |-> p, valid |-> v, timeout |-> t]

(* A payload command, one that is not valid, and a NOP. *)
MCInvalid == {MCSub(i1, TRUE, TRUE, 1), MCSub(i2, TRUE, FALSE, 1),
              MCSub(i3, FALSE, TRUE, 1)}

(* Three payload commands. *)
MCTriple == {MCSub(i, TRUE, TRUE, 1) : i \in MCIds}

(* The payload commands of MCTriple differ in nothing else. *)
MCSymmetry == Permutations(MCIds) \cup Permutations(Objects)

(* Two payload commands. *)
MCPair == {MCSub(i1, TRUE, TRUE, 1), MCSub(i2, TRUE, TRUE, 1)}
=============================================================================
