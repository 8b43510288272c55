----------------------------- MODULE MCDispatch -----------------------------
(* Instances of Dispatch for TLC. *)
EXTENDS Dispatch, TLC

(* The threads other than the boot thread are interchangeable. *)
Symmetry == Permutations(Threads \ {Boot})
=============================================================================
