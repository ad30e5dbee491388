--------------------------- MODULE MCIndexStartup ---------------------------
(* Instances of IndexStartup for TLC. *)
EXTENDS IndexStartup, TLC

Symmetry == Permutations(Folder)
=============================================================================
