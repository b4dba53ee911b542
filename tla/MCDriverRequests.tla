-------------------------- MODULE MCDriverRequests --------------------------
EXTENDS DriverRequests, TLC

(* Requests, buffers and waiters are interchangeable. *)
Symmetry == Permutations(Requests) \cup Permutations(Waiters)
=============================================================================
