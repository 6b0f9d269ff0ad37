----------------------------- MODULE MCVersions -----------------------------
(* Small instances of module Versions. *)
EXTENDS Versions, TLC

\* Across the two blocks, and inside the second one.
MCWrites == {<<1, 4>>, <<2, 3>>}

Symmetry == Permutations(Handles)
=============================================================================
