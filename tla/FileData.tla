------------------------------ MODULE FileData ------------------------------
(***************************************************************************)
(* The contents of one regular file: kvbfs_read, kvbfs_write and the size  *)
(* part of kvbfs_setattr and kvbfs_open (src/src/fuse_ops.c).              *)
(*                                                                         *)
(* The store holds the blocks, the cached inode holds the size.  A change  *)
(* is a sequence of store calls, one block each.  The kernel lets one      *)
(* change of a file run at a time; reads of the blocks by version_snapshot *)
(* (module Versions) fall between its steps.                               *)
(***************************************************************************)
EXTENDS Integers, FiniteSets

CONSTANTS
  BlockSize, \* KVBFS_BLOCK_SIZE
  MaxBlocks, \* bound: blocks of the file
  MaxChanges, \* bound: writes, truncations and extensions
  Faults,    \* whether kv_put and kv_delete may fail
  NULL

ASSUME DataAssumption ==
  /\ BlockSize \in Nat \ {0}
  /\ MaxBlocks \in Nat \ {0}
  /\ MaxChanges \in Nat
  /\ Faults \in BOOLEAN

VARIABLES
  block,   \* the b: records: Blocks -> NULL or the bytes of the block
  size,    \* ic->inode.size; inode.blocks is always BlocksOf(size)
  op,      \* the change of the file that is running, or NULL
  stamp,   \* the number of this change; if it is a write, it writes this number
  content  \* history: offset -> what a reader may find there, by POSIX

dataVars == <<block, size, op, stamp, content>>

Blocks  == 0 .. MaxBlocks - 1
Offsets == 0 .. MaxBlocks * BlockSize - 1
Within  == 0 .. BlockSize - 1
Values  == 0 .. MaxChanges

BlocksOf(n) == (n + BlockSize - 1) \div BlockSize
Of(b)       == {o \in Offsets : o \div BlockSize = b}
Zeros       == [i \in Within |-> 0]

\* A byte of a table of blocks, as kvbfs_read finds it: a block that is not
\* there reads as zeros.
ByteIn(table, o) ==
  IF table[o \div BlockSize] = NULL THEN 0
  ELSE table[o \div BlockSize][o % BlockSize]

FileByte(o) == ByteIn(block, o)

\* Whether a store call may succeed, or fail.
Results == IF Faults THEN BOOLEAN ELSE {TRUE}

Running(kind) == op # NULL /\ op.kind = kind

\* Changes are numbered.
Change == stamp < MaxChanges /\ stamp' = stamp + 1

-----------------------------------------------------------------------------
(* kvbfs_write of the offsets from .. to - 1.                              *)

WriteStart(by, from, to) ==
  /\ op = NULL
  /\ Change
  /\ op' = [kind |-> "write", by |-> by, from |-> from, to |-> to,
            next |-> from \div BlockSize, failed |-> FALSE]
  /\ UNCHANGED <<block, size, content>>

Affected == {o \in Offsets : op.from <= o /\ o < op.to}

\* Block b after the running write: what was there, or zeros, and the new
\* bytes on top.
Patched(b) ==
  [i \in Within |-> IF b * BlockSize + i \in Affected THEN stamp
                    ELSE FileByte(b * BlockSize + i)]

\* One turn of the loop.  A failing kv_put is answered EIO: the blocks before
\* it are written, the size is not updated.
WriteBlock(ok) ==
  /\ Running("write") /\ op.next < BlocksOf(op.to)
  /\ \/ /\ ok
        /\ block' = [block EXCEPT ![op.next] = Patched(op.next)]
        /\ op'    = [op EXCEPT !.next = @ + 1]
        /\ UNCHANGED content
     \/ /\ ~ok
        /\ op' = NULL
        /\ content' = [o \in Offsets |-> IF o \in Affected THEN content[o] \cup {stamp}
                                         ELSE content[o]]
        /\ UNCHANGED block
  /\ UNCHANGED <<size, stamp>>

\* The size after a write up to offset n.
Summed(n) == size + n
Larger(n) == IF n > size THEN n ELSE size

WriteSize ==
  /\ Running("write") /\ op.next = BlocksOf(op.to)
  /\ size'    = Larger(op.to)
  /\ content' = [o \in Offsets |-> IF o \in Affected THEN {stamp} ELSE content[o]]
  /\ op' = NULL
  /\ UNCHANGED <<block, stamp>>

-----------------------------------------------------------------------------
(* kvbfs_setattr with FUSE_SET_ATTR_SIZE, under the inode's write lock;    *)
(* an open with O_TRUNC runs the same way to size 0.                       *)

Extend(to) ==
  /\ op = NULL /\ to >= size
  /\ Change
  /\ size' = to
  /\ UNCHANGED <<block, op, content>>

TruncateStart(by, to) ==
  /\ op = NULL /\ to < size
  /\ Change
  /\ op' = [kind |-> "truncate", by |-> by, from |-> to, to |-> size,
            next |-> BlocksOf(to), failed |-> FALSE]
  /\ UNCHANGED <<block, size, content>>

\* kv_delete's result is not looked at.
TruncateBlock(ok) ==
  /\ Running("truncate") /\ op.next < BlocksOf(op.to)
  /\ block' = IF ok THEN [block EXCEPT ![op.next] = NULL] ELSE block
  /\ op'    = [op EXCEPT !.next = @ + 1, !.failed = @ \/ ~ok]
  /\ UNCHANGED <<size, stamp, content>>

\* The last block that stays, with zeros from `tail' on.
Kept(bytes, tail)    == bytes
Cleared(bytes, tail) == [i \in Within |-> IF i < tail THEN bytes[i] ELSE 0]

\* kv_put of the cleared block, and the new size, which nobody can look at
\* before the lock is released.
TruncateSize(ok) ==
  LET tail == op.from % BlockSize
      last == op.from \div BlockSize
      cut  == tail > 0 /\ block[last] # NULL
  IN
  /\ Running("truncate") /\ op.next = BlocksOf(op.to)
  /\ cut \/ ok
  /\ block' = IF cut /\ ok THEN [block EXCEPT ![last] = Cleared(@, tail)] ELSE block
  /\ size'  = op.from
  /\ content' = [o \in Offsets |->
                   IF o \notin Affected THEN content[o]
                   ELSE IF op.failed \/ ~ok THEN content[o] \cup {0} ELSE {0}]
  /\ op' = NULL
  /\ UNCHANGED stamp

-----------------------------------------------------------------------------
\* The process ends, at unmount or in a crash.  The inode record still has
\* the size inode_create stored, 0 (see module InodeCache); the blocks stay.
Restart ==
  /\ size' = 0
  /\ op'   = NULL
  /\ content' = [o \in Offsets |->
                   content[o] \cup {0} \cup
                   (IF Running("write") /\ o \in Affected THEN {stamp} ELSE {})]
  /\ UNCHANGED <<block, stamp>>

DataInit ==
  /\ block   = [b \in Blocks |-> NULL]
  /\ size    = 0
  /\ op      = NULL
  /\ stamp   = 0
  /\ content = [o \in Offsets |-> {0}]

Bytes == [Within -> Values]

ASSUME NullAssumption == NULL \notin Bytes /\ NULL \notin Nat

DataTypeOK ==
  /\ block   \in [Blocks -> Bytes \cup {NULL}]
  /\ size    \in 0 .. MaxBlocks * BlockSize
  /\ stamp   \in Values
  /\ content \in [Offsets -> SUBSET Values]

\* Between two changes a reader finds at each offset below the size what was
\* last written there, and zeros where nothing was written since the file was
\* last extended over it - also after truncations into the middle of a block.
\* After a failed call it may find the old or the new bytes.
FileContent ==
  op = NULL => \A o \in Offsets : o < size => FileByte(o) \in content[o]

=============================================================================
