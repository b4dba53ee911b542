--------------------------- MODULE MCPcieEndpoint ---------------------------
(* Instances of PcieEndpoint for TLC. *)
EXTENDS PcieEndpoint, TLC

CONSTANTS i1, i2

MCIds == {i1, i2}

(* A payload command and a NOP. *)
MCCommands ==
    {[id |-> i1, payload |-> TRUE, valid |-> TRUE, timeout |-> 1],
     [id |-> i2, payload |-> FALSE, valid |-> TRUE, timeout |-> 1]}

(* Authorization, abort, reset notice and failure, for one of the commands *)
(* or for none.                                                            *)
MCReplies ==
    {MakeCompletion(i, s) : i \in {i1, Garbage}, s \in {"SUCCESS", "TIMED_OUT"}}
      \cup {[id |-> i, status |-> "RESET", tag |-> TRUE] : i \in MCIds}

(* The steps do not depend on what the completions in the CQ and in the    *)
(* reply buffer say, nor on what the firmware has not yet read.            *)
MCView == <<[ep EXCEPT !.cq = Len(@), !.comp = 0], owed, up, connected>>
=============================================================================
