---------------------------- MODULE MCNamespace ----------------------------
(* A small instance of module Namespace, used in four ways. *)
EXTENDS Namespace, TLC

Tree == {"mkdir", "create", "unlink", "rmdir"}

\* Renames; hard links, symlinks and records; hard links and a restart; failing
\* writes.
MCUses ==
  { [ops |-> Tree \cup {"rename"}, faults |-> FALSE, inos |-> 4, remounts |-> 1],
    [ops |-> Tree \cup {"symlink", "link", "write", "xattr"},
     faults |-> FALSE, inos |-> 4, remounts |-> 0],
    [ops |-> {"create", "unlink", "link"}, faults |-> FALSE, inos |-> 3, remounts |-> 1],
    [ops |-> Tree \cup {"symlink", "rename"}, faults |-> TRUE, inos |-> 3, remounts |-> 1] }

Symmetry == Permutations(Threads) \cup Permutations(Names)
=============================================================================
