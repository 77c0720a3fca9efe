--------------------------- MODULE MCPluginManager ---------------------------
(* Three plugins, two of them instances of one library. *)
EXTENDS PluginManager

AllNames == {"a", "b", "c"}
TwoFiles == {"a", "c"}
FileOf == [n \in AllNames |-> IF n = "b" THEN "a" ELSE n]

\* Every way in which the three strings can collide with "a" in two buckets.
EveryHash == {h \in [AllNames -> 0 .. 1] : h["a"] = 0}

Interchangeable == Permutations(Requests)

=============================================================================
