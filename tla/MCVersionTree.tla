--------------------------- MODULE MCVersionTree ---------------------------
(* Small instances of module VersionTree. *)
EXTENDS VersionTree, TLC

CONSTANTS Long1, Long2, One

\* Two names that the key cannot tell apart, and one that spells a number.
MCNames  == {Long1, Long2, One}
MCPrefix == [n \in MCNames |-> IF n = One THEN "1" ELSE "long"]
MCNumber == [n \in MCNames |-> IF n = One THEN 1 ELSE 0]

\* Names that differ within the key.
MCShort  == [n \in MCNames |-> n]

Symmetry == Permutations(Threads) \cup Permutations({Long1, Long2})
=============================================================================
