---------------------------- MODULE MCEventNotify ----------------------------
(* Instances of EventNotify for TLC. *)
EXTENDS EventNotify, TLC

\* Threads are interchangeable; only invariants are checked under this
\* symmetry.
ThreadSymmetry == Permutations(Pollers) \cup Permutations(Clients)
=============================================================================
