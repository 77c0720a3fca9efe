-------------------------------- MODULE MCBst --------------------------------
(* The search tree on all small trees. *)
EXTENDS Bst, TLC

\* Heap cells are interchangeable, and so are tasks.
Symmetry == Permutations(Cells) \cup Permutations(Data)

=============================================================================
