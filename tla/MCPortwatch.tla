---------------------------- MODULE MCPortwatch ----------------------------
(* Instances of Portwatch for TLC. *)
EXTENDS Portwatch, TLC

(* Instances, names and contents are each interchangeable. *)
PortSymmetry == Permutations(Instances) \cup Permutations(Names) \cup Permutations(Contents)
=============================================================================
