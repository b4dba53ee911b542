-------------------------- MODULE MCRetainedRecord --------------------------
(***************************************************************************)
(* One task that gets stuck, two commands, two kinds of events in a ring   *)
(* of two slots.                                                           *)
(***************************************************************************)
EXTENDS RetainedRecord
=============================================================================
