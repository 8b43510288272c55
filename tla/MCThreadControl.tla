--------------------------- MODULE MCThreadControl ---------------------------
(* Instances of ThreadControl for TLC. *)
EXTENDS ThreadControl, TLC

(* The threads other than the boot thread are interchangeable. *)
Symmetry == Permutations(Threads \ {Boot})
=============================================================================
