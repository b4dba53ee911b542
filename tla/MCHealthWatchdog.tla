-------------------------- MODULE MCHealthWatchdog --------------------------
(***************************************************************************)
(* The producer, which sleeps 250 ms, and one task that polls every 100 ms.*)
(* A tick is 125 ms; 100 ms are rounded up to one.                         *)
(***************************************************************************)
EXTENDS HealthWatchdog

MCPeriod == [t \in Tasks |-> IF t = 1 THEN 2 ELSE 1]
=============================================================================
