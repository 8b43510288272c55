------------------------------ MODULE MCMonitor ------------------------------
(* Instances of Monitor for TLC. *)
EXTENDS Monitor, TLC

(* The threads are interchangeable. *)
Symmetry == Permutations(Threads)
=============================================================================
