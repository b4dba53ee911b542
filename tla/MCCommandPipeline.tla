-------------------------- MODULE MCCommandPipeline --------------------------
(* Instances of CommandPipeline for TLC. *)
EXTENDS CommandPipeline, TLC

CONSTANTS i1, i2

MCIds == {i1, i2}

MCSub(i, p, v, t) == [id |-> i, payload |-> p, valid |-> v, timeout |-> t]

(* A payload command, a more urgent NOP, and a command that is not valid. *)
MCMixed == {MCSub(i1, TRUE, TRUE, 2), MCSub(i2, FALSE, TRUE, 1),
            MCSub(i2, TRUE, FALSE, 0)}

(* Payload commands only. *)
MCPayload == {MCSub(i1, TRUE, TRUE, 1)}

(* Nothing in CommandPipeline reads what is on the stream to the endpoint. *)
MCView == <<fwVars, portal, Len(up), down, connected>>

MCSymmetry == Permutations(Objects)
=============================================================================
