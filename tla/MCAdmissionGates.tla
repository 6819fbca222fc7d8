--------------------------- MODULE MCAdmissionGates ---------------------------
(* Instances of AdmissionGates for TLC. *)
EXTENDS AdmissionGates, TLC

Symmetry == Permutations(Reviews)
=============================================================================
