------------------------------- MODULE MCView -------------------------------
(* The three parts of the view, for TLC. *)
EXTENDS View, TLC

\* all the files are on one page, the other one is empty
Pages == {"A", "B"}
AllOnA == [f \in File |-> "A"]

Symmetry == Permutations(File) \cup Permutations(Photo) \cup Permutations(Video)
=============================================================================
